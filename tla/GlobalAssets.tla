---------------------------- MODULE GlobalAssets ----------------------------
(***************************************************************************)
(* The global assets of a set of buckets: files under keys that contain    *)
(* their checksum, and in each bucket a manifest from aliases to files.    *)
(* Command-line runs change them: sync replaces a bucket's manifest,       *)
(* upsert adds to it, mirror merges those of all buckets.  There is no     *)
(* lock; a run reads, writes what is missing, verifies and publishes, and  *)
(* may die anywhere.                                                       *)
(*                                                                         *)
(* Simplifications.  A command over several buckets is a publisher per     *)
(* bucket: they share nothing.  A file stands for its bytes and the key    *)
(* made of them, which leaves out the content type a publisher declares.   *)
(* An object is that type (the bytes and metadata that go with it), or     *)
(* "plain" (the bytes without type and metadata), or "foreign" (other      *)
(* bytes, put there by someone else).  Manifests are valid, a missing one  *)
(* is an empty one, and the content types in their entries are left out.   *)
(* Bodies are read where they cannot have changed since they were listed,  *)
(* so a mirror reads them all in one step; it reads each back once more    *)
(* before it publishes and gives the target up if another run has changed  *)
(* it, which is left out: it is as if the run died before that manifest.   *)
(*                                                                         *)
(* A definition XSlip is X with a plausible mistake, which the property    *)
(* named beside it must notice; no specification uses it.                  *)
(***************************************************************************)
EXTENDS Integers, FiniteSets

CONSTANTS
  BucketCount,  \* targets of a mirror, in their order
  Aliases,
  Files,
  ContentTypes,
  Declared,     \* content types that a publisher may declare with the aliases
  NoFile,       \* what an alias outside a manifest stands for
  Publishers,   \* runs of sync or upsert on one bucket
  Mirrors,      \* runs of mirror
  Foreign,      \* buckets and files whose key may hold other bytes
  ListsPlain,   \* a listing has neither content types nor metadata
  MaxRuns       \* bound on the runs

Buckets == 1..BucketCount
Manifests == [Aliases -> Files \cup {NoFile}]

ASSUME AssetsAssumption ==
  /\ BucketCount \in Nat \ {0, 1}
  /\ NoFile \notin Files
  /\ {"absent", "plain", "foreign"} \cap ContentTypes = {}
  /\ Declared \subseteq [Aliases -> ContentTypes]
  /\ Foreign \subseteq Buckets \X Files
  /\ Publishers \cap Mirrors = {}
  /\ ListsPlain \in BOOLEAN
  /\ MaxRuns \in Nat

VARIABLES
  object,    \* what each bucket holds under each file's key
  manifest,  \* the manifest of each bucket
  publish,   \* the runs of sync and upsert
  mirror,    \* the runs of mirror
  runs,      \* runs started so far
  overlapped \* those that were not alone when they ran

vars == <<object, manifest, publish, mirror, runs, overlapped>>

Empty == [a \in Aliases |-> NoFile]

(* source: what the run publishes; seen: the manifest it read; todo: its   *)
(* files still to be looked at, with their types; item: the one at hand.   *)
Unstarted == [at |-> "idle", kind |-> "sync", bucket |-> 1, source |-> Empty,
              seen |-> Empty, todo |-> {}, item |-> <<>>]

(* unlisted, unread: buckets whose listing or manifest is still to be read; *)
(* listed, read: the others; files, merged: what every bucket is to hold;  *)
(* todo: keys still to be compared; copying: those found missing;          *)
(* unpublished: buckets that are to get the merged manifest.               *)
Resting == [at |-> "idle", unlisted |-> {}, unread |-> {},
            listed |-> [b \in Buckets |-> {}], read |-> [b \in Buckets |-> Empty],
            files |-> [f \in Files |-> "absent"], merged |-> Empty,
            todo |-> {}, copying |-> {}, unpublished |-> {}]

Items == Files \X ContentTypes

ObjectStates == {"absent", "plain", "foreign"} \cup ContentTypes

TypeOK ==
  /\ object \in [Buckets -> [Files -> ObjectStates]]
  /\ manifest \in [Buckets -> Manifests]
  /\ publish \in [Publishers ->
       [at : {"idle", "head", "put", "verify", "done", "refused"},
        kind : {"sync", "upsert"}, bucket : Buckets, source : Manifests,
        seen : Manifests, todo : SUBSET Items, item : Items \cup {<<>>}]]
  /\ mirror \in [Mirrors ->
       [at : {"idle", "list", "copy", "done", "refused"},
        unlisted : SUBSET Buckets, unread : SUBSET Buckets,
        listed : [Buckets -> SUBSET Files], read : [Buckets -> Manifests],
        files : [Files -> ObjectStates], merged : Manifests,
        todo : SUBSET (Buckets \X Files), copying : SUBSET (Buckets \X Files),
        unpublished : SUBSET Buckets]]
  /\ runs \in 0..MaxRuns
  /\ overlapped \subseteq Publishers \cup Mirrors

Init ==
  /\ \E taken \in {{}, Foreign} :
       object = [b \in Buckets |-> [f \in Files |->
                   IF <<b, f>> \in taken THEN "foreign" ELSE "absent"]]
  /\ manifest = [b \in Buckets |-> Empty]
  /\ publish = [p \in Publishers |-> Unstarted]
  /\ mirror = [m \in Mirrors |-> Resting]
  /\ runs = 0
  /\ overlapped = {}

Bytes(o) == IF o \in {"plain"} \cup ContentTypes THEN "right" ELSE o

Publishing(p) == publish[p].at \in {"head", "put", "verify"}
Mirroring(m) == mirror[m].at \in {"list", "copy"} \/ mirror[m].unpublished # {}
                \/ mirror[m].todo # {} \/ mirror[m].copying # {}

Running == {p \in Publishers : Publishing(p)} \cup {m \in Mirrors : Mirroring(m)}

Start(run) ==
  /\ runs < MaxRuns
  /\ run \notin Running
  /\ runs' = runs + 1
  /\ overlapped' = overlapped \cup (IF Running = {} THEN {} ELSE Running \cup {run})

-----------------------------------------------------------------------------
(***************************************************************************)
(* sync and upsert                                                         *)
(***************************************************************************)
BeginPublish(p, kind, b, source, type) ==
  /\ Start(p)
  /\ publish' = [publish EXCEPT ![p] =
       [Unstarted EXCEPT !.at = "head", !.kind = kind, !.bucket = b,
                         !.source = source, !.seen = manifest[b],
                         !.todo = {<<source[a], type[a]>> : a \in Aliases} \cap Items]]
  /\ UNCHANGED <<object, manifest, mirror>>

At(p) == object[publish[p].bucket][publish[p].item[1]]

Head(p, item) ==
  /\ publish[p].at = "head"
  /\ item \in publish[p].todo
  /\ publish' = [publish EXCEPT ![p].item = item,
       ![p].at = IF object[publish[p].bucket][item[1]] = "absent" THEN "put" ELSE "verify"]
  /\ UNCHANGED <<object, manifest, mirror, runs, overlapped>>

Put(p) ==
  /\ publish[p].at = "put"
  /\ object' = [object EXCEPT ![publish[p].bucket][publish[p].item[1]] = publish[p].item[2]]
  /\ publish' = [publish EXCEPT ![p].at = "verify"]
  /\ UNCHANGED <<manifest, mirror, runs, overlapped>>

(* ManifestResolves: an object that was there already is trusted.          *)
VerifySlip(p) ==
  /\ publish[p].at = "verify"
  /\ publish' = [publish EXCEPT ![p].at = "head", ![p].todo = @ \ {publish[p].item},
                                ![p].item = <<>>]
  /\ UNCHANGED <<object, manifest, mirror, runs, overlapped>>

(* Size, content type, metadata and bytes against the source.              *)
Verify(p) ==
  /\ publish[p].at = "verify"
  /\ IF At(p) = publish[p].item[2]
       THEN publish' = [publish EXCEPT ![p].at = "head", ![p].item = <<>>,
                                       ![p].todo = @ \ {publish[p].item}]
       ELSE publish' = [publish EXCEPT ![p] = [Unstarted EXCEPT !.at = "refused"]]
  /\ UNCHANGED <<object, manifest, mirror, runs, overlapped>>

(* UpsertPreserves: what the run read is not merged in.                    *)
NewManifestSlip(k) == k.source

NewManifest(k) ==
  [a \in Aliases |-> IF k.kind = "upsert" /\ k.source[a] = NoFile
                       THEN k.seen[a] ELSE k.source[a]]

WriteManifest(p) ==
  /\ publish[p].at = "head"
  /\ publish[p].todo = {}
  /\ manifest' = [manifest EXCEPT ![publish[p].bucket] = NewManifest(publish[p])]
  /\ publish' = [publish EXCEPT ![p] = [Unstarted EXCEPT !.at = "done"]]
  /\ UNCHANGED <<object, mirror, runs, overlapped>>

(* A storage call throws or the process dies.                              *)
PublishStops(p) ==
  /\ Publishing(p)
  /\ publish' = [publish EXCEPT ![p] = Unstarted]
  /\ UNCHANGED <<object, manifest, mirror, runs, overlapped>>

-----------------------------------------------------------------------------
(***************************************************************************)
(* mirror                                                                  *)
(***************************************************************************)
BeginMirror(m) ==
  /\ Start(m)
  /\ mirror' = [mirror EXCEPT ![m] = [Resting EXCEPT
       !.at = "list", !.unlisted = Buckets, !.unread = Buckets]]
  /\ UNCHANGED <<object, manifest, publish>>

ListObjects(m, b) ==
  /\ b \in mirror[m].unlisted
  /\ mirror' = [mirror EXCEPT ![m].unlisted = @ \ {b},
       ![m].listed[b] = {f \in Files : object[b][f] # "absent"}]
  /\ UNCHANGED <<object, manifest, publish, runs, overlapped>>

ReadManifest(m, b) ==
  /\ b \in mirror[m].unread \ mirror[m].unlisted
  /\ mirror' = [mirror EXCEPT ![m].unread = @ \ {b}, ![m].read[b] = manifest[b]]
  /\ UNCHANGED <<object, manifest, publish, runs, overlapped>>

Known(k, a) == {k.read[b][a] : b \in Buckets} \ {NoFile}

(* MirrorKeepsAliases: the manifest of the first target is taken for all.  *)
UnionSlip(k) == k.read[1]

Union(k) ==
  [a \in Aliases |-> IF Known(k, a) = {} THEN NoFile ELSE CHOOSE f \in Known(k, a) : TRUE]

(* RefusedOnlyOnConflict: content type and metadata are not copied.        *)
CanonicalSlip(k, f) ==
  IF \A b \in Buckets : f \notin k.listed[b] THEN "absent" ELSE "plain"

(* The first target that lists a key provides its body; the content type   *)
(* and metadata come from the listing (TypeScript) or from a head (Go).    *)
Canonical(k, f) ==
  LET holders == {b \in Buckets : f \in k.listed[b]}
      source == CHOOSE b \in holders : \A c \in holders : b <= c
  IN IF holders = {} THEN "absent"
     ELSE IF object[source][f] \in ContentTypes /\ ListsPlain THEN "plain"
     ELSE object[source][f]

AllRead(k) == k.at = "list" /\ k.unread = {}

Merge(m) ==
  LET k == mirror[m]
  IN /\ AllRead(k)
     /\ \A a \in Aliases : Cardinality(Known(k, a)) <= 1
     /\ \A a \in Aliases : Union(k)[a] # NoFile => Bytes(Canonical(k, Union(k)[a])) = "right"
     /\ mirror' = [mirror EXCEPT ![m] = [Resting EXCEPT
          !.at = "copy", !.merged = Union(k), !.unpublished = Buckets,
          !.files = [f \in Files |-> Canonical(k, f)],
          !.todo = Buckets \X {f \in Files : Canonical(k, f) # "absent"}]]
     /\ UNCHANGED <<object, manifest, publish, runs, overlapped>>

(* Two targets disagree on an alias, or on a key and on its size, or an    *)
(* alias has no file.                                                      *)
RefuseMerge(m) ==
  LET k == mirror[m]
  IN /\ AllRead(k)
     /\ \/ \E a \in Aliases : Cardinality(Known(k, a)) > 1
        \/ \E a \in Aliases : Union(k)[a] # NoFile /\ Bytes(Canonical(k, Union(k)[a])) # "right"
        \/ \E f \in Files, b, c \in Buckets :
             f \in k.listed[b] \cap k.listed[c] /\ Bytes(object[b][f]) # Bytes(object[c][f])
     /\ mirror' = [mirror EXCEPT ![m] = [Resting EXCEPT !.at = "refused"]]
     /\ UNCHANGED <<object, manifest, publish, runs, overlapped>>

(* NothingOverwritten: other bytes under the key are replaced.             *)
CompareSlip(m, b, f) ==
  /\ <<b, f>> \in mirror[m].todo
  /\ mirror' = [mirror EXCEPT ![m].todo = @ \ {<<b, f>>}, ![m].copying =
       IF Bytes(object[b][f]) = Bytes(mirror[m].files[f]) THEN @ ELSE @ \cup {<<b, f>>}]
  /\ UNCHANGED <<object, manifest, publish, runs, overlapped>>

(* Other bytes under the key end the mirroring of this target; what the    *)
(* others have begun goes on (TypeScript) or not (Go).                     *)
Compare(m, b, f) ==
  /\ <<b, f>> \in mirror[m].todo
  /\ LET rest == [mirror[m] EXCEPT !.todo = @ \ {<<b, f>>}] IN
     mirror' = [mirror EXCEPT ![m] =
       IF object[b][f] = "absent" THEN [rest EXCEPT !.copying = rest.copying \cup {<<b, f>>}]
       ELSE IF Bytes(object[b][f]) = Bytes(rest.files[f]) THEN rest
       ELSE [rest EXCEPT !.at = "refused", !.unpublished = rest.unpublished \ {b}]]
  /\ UNCHANGED <<object, manifest, publish, runs, overlapped>>

Copy(m, b, f) ==
  /\ <<b, f>> \in mirror[m].copying
  /\ object' = [object EXCEPT ![b][f] = mirror[m].files[f]]
  /\ mirror' = [mirror EXCEPT ![m].copying = @ \ {<<b, f>>}]
  /\ UNCHANGED <<manifest, publish, runs, overlapped>>

(* The command ends with its last target.                                  *)
TargetDone(k, b) ==
  IF k.at = "copy" /\ k.unpublished = {b} THEN [Resting EXCEPT !.at = "done"]
  ELSE [k EXCEPT !.unpublished = k.unpublished \ {b}]

(* MirrorMerges: the manifest does not wait for the copies.                *)
PublishMergedSlip(m, b) ==
  /\ b \in mirror[m].unpublished
  /\ \A f \in Files : <<b, f>> \notin mirror[m].todo
  /\ manifest' = [manifest EXCEPT ![b] = mirror[m].merged]
  /\ mirror' = [mirror EXCEPT ![m] = TargetDone(mirror[m], b)]
  /\ UNCHANGED <<object, publish, runs, overlapped>>

PublishMerged(m, b) ==
  /\ b \in mirror[m].unpublished
  /\ \A f \in Files : <<b, f>> \notin mirror[m].todo \cup mirror[m].copying
  /\ manifest' = [manifest EXCEPT ![b] = mirror[m].merged]
  /\ mirror' = [mirror EXCEPT ![m] = TargetDone(mirror[m], b)]
  /\ UNCHANGED <<object, publish, runs, overlapped>>

MirrorStops(m) ==
  /\ Mirroring(m)
  /\ mirror' = [mirror EXCEPT ![m] = Resting]
  /\ UNCHANGED <<object, manifest, publish, runs, overlapped>>

-----------------------------------------------------------------------------
Publish(p) ==
  \/ \E kind \in {"sync", "upsert"}, b \in Buckets, source \in Manifests,
        type \in Declared : BeginPublish(p, kind, b, source, type)
  \/ \E item \in Items : Head(p, item)
  \/ Put(p) \/ Verify(p) \/ WriteManifest(p) \/ PublishStops(p)

Mirror(m) ==
  \/ BeginMirror(m) \/ Merge(m) \/ RefuseMerge(m) \/ MirrorStops(m)
  \/ \E b \in Buckets : ListObjects(m, b) \/ ReadManifest(m, b) \/ PublishMerged(m, b)
  \/ \E b \in Buckets, f \in Files : Compare(m, b, f) \/ Copy(m, b, f)

Next ==
  \/ \E p \in Publishers : Publish(p)
  \/ \E m \in Mirrors : Mirror(m)

Spec == Init /\ [][Next]_vars
-----------------------------------------------------------------------------
(***************************************************************************)
(* Properties                                                              *)
(***************************************************************************)

(* Between a comparison or a head and the write that follows another run   *)
(* may store the same file, but then with the same bytes, unless it met    *)
(* other bytes under the key in some bucket.                               *)
Undisturbed ==
  overlapped = {} \/ \A b \in Buckets, f \in Files : object[b][f] # "foreign"

(* Whatever runs die or overlap, an alias in a bucket's manifest leads to  *)
(* the file it was published for: files are written and verified before    *)
(* the manifest that names them, on every path.                            *)
ManifestResolves ==
  Undisturbed =>
    \A b \in Buckets, a \in Aliases :
      manifest[b][a] # NoFile => Bytes(object[b][manifest[b][a]]) = "right"

(* Both comparisons of a mirror, and the head of a publisher, come before  *)
(* the write: what is stored under a key keeps its bytes.                  *)
NothingOverwritten ==
  [][Undisturbed => \A b \in Buckets, f \in Files :
       object[b][f] # "absent" => Bytes(object'[b][f]) = Bytes(object[b][f])]_vars

(* An upsert that no other run overlapped preserves the aliases that it    *)
(* does not publish.                                                       *)
UpsertPreserves ==
  [][\A p \in Publishers \ overlapped :
       publish[p].kind = "upsert" /\ publish[p].at = "head" /\ publish'[p].at = "done"
         => \A a \in Aliases : publish[p].source[a] = NoFile =>
              manifest'[publish[p].bucket][a] = manifest[publish[p].bucket][a]]_vars

(* Nor does a mirror that was alone overwrite an alias by a conflicting one. *)
MirrorKeepsAliases ==
  [][\A m \in Mirrors \ overlapped, b \in Buckets :
       b \in mirror[m].unpublished /\ b \notin mirror'[m].unpublished
         => \A a \in Aliases : manifest[b][a] # NoFile =>
              manifest'[b][a] = manifest[b][a]]_vars

(* After a mirror that was alone and succeeds every target has the same    *)
(* manifest and the same files, whatever runs died or were refused before. *)
MirrorMerges ==
  [][\A m \in Mirrors \ overlapped : mirror[m].at # "done" /\ mirror'[m].at = "done" =>
       \A b, c \in Buckets : /\ manifest'[b] = manifest'[c]
                             /\ \A f \in Files : Bytes(object'[b][f]) = Bytes(object'[c][f])]_vars

(* A sync or upsert is refused only where the key holds other bytes, or    *)
(* the file as it was declared to be of another type: where every          *)
(* publisher declares the same, what was published, or copied from another *)
(* bucket by a mirror, is accepted.                                        *)
RefusedOnlyOnConflict ==
  [][\A p \in Publishers :
       publish[p].at = "verify" /\ publish'[p].at = "refused" =>
         At(p) \in {"foreign"} \cup (ContentTypes \ {publish[p].item[2]})]_vars
-----------------------------------------------------------------------------
(***************************************************************************)
(* The inductive invariant.  Apart from the types it says what each run    *)
(* may rely on between its reads and its writes: a run that was alone on   *)
(* everything it read, any run on what it has verified or compared.        *)
(***************************************************************************)
Alone == \A r \in Running \ overlapped : Running = {r}

(* About to be written: what was found missing.                            *)
Pending(b, f) ==
  \/ \E p \in Publishers :
       publish[p].at = "put" /\ publish[p].bucket = b /\ publish[p].item[1] = f
  \/ \E m \in Mirrors : <<b, f>> \in mirror[m].copying

(* Other bytes under a key, once there, remain in some bucket for good.    *)
ConflictsStay ==
  \A f \in Files :
    \/ \E b \in Buckets : object[b][f] = "foreign"
    \/ \E m \in Mirrors : mirror[m].files[f] = "foreign"
    => \E b \in Buckets : object[b][f] = "foreign" /\ ~Pending(b, f)

(* A publisher is at one of its files, and what it verifies is there.      *)
PublisherAtFile ==
  \A p \in Publishers :
    /\ publish[p].at \in {"put", "verify"} => publish[p].item \in publish[p].todo
    /\ publish[p].at = "verify" => At(p) # "absent"

(* What it has verified, or read in the manifest, resolves.                *)
PublisherVerified ==
  Undisturbed =>
    \A p \in Publishers : Publishing(p) =>
      \A a \in Aliases, f \in Files :
        \/ publish[p].source[a] = f /\ \A item \in publish[p].todo : item[1] # f
        \/ publish[p].seen[a] = f
        => Bytes(object[publish[p].bucket][f]) = "right"

PublisherAlone ==
  \A p \in Publishers \ overlapped : Publishing(p) =>
    /\ publish[p].seen = manifest[publish[p].bucket]
    /\ publish[p].at = "put" => At(p) = "absent"

(* A mirror reads before it compares, and has nothing to copy under a key  *)
(* that no target holds; an alias it merges has a file.                    *)
MirrorInOrder ==
  \A m \in Mirrors :
    /\ mirror[m].at \in {"idle", "list", "done"} =>
         /\ mirror[m].unpublished = {} /\ mirror[m].todo = {} /\ mirror[m].copying = {}
    /\ mirror[m].unread # {} => mirror[m].at = "list"
    /\ mirror[m].unlisted \subseteq mirror[m].unread
    /\ \A b \in Buckets, f \in Files :
         <<b, f>> \in mirror[m].todo \cup mirror[m].copying => mirror[m].files[f] # "absent"
    /\ \A a \in Aliases, f \in Files :
         mirror[m].merged[a] = f => Bytes(mirror[m].files[f]) = "right"

(* What it has compared or copied is there.                                *)
MirrorCompared ==
  Undisturbed =>
    \A m \in Mirrors, f \in Files : \A b \in mirror[m].unpublished :
      /\ <<b, f>> \notin mirror[m].todo \cup mirror[m].copying
      /\ Bytes(mirror[m].files[f]) = "right"
      => Bytes(object[b][f]) = "right"

(* A mirror that is alone: its listings are exact, what it copies is still *)
(* missing, what it publishes leaves no alias out, and a target is done    *)
(* when it has the merged manifest and all files.                          *)
MirrorAlone ==
  \A m \in Mirrors \ overlapped, b \in Buckets : Mirroring(m) =>
    /\ mirror[m].at = "list" =>
         /\ b \notin mirror[m].unlisted =>
              mirror[m].listed[b] = {f \in Files : object[b][f] # "absent"}
         /\ b \notin mirror[m].unread => mirror[m].read[b] = manifest[b]
    /\ \A f \in Files : <<b, f>> \in mirror[m].copying => object[b][f] = "absent"
    /\ b \in mirror[m].unpublished =>
         \A a \in Aliases : manifest[b][a] # NoFile => mirror[m].merged[a] = manifest[b][a]
    /\ mirror[m].at = "copy" =>
         /\ b \notin mirror[m].unpublished =>
              /\ manifest[b] = mirror[m].merged
              /\ \A f \in Files : <<b, f>> \notin mirror[m].todo \cup mirror[m].copying
         /\ \A f \in Files : <<b, f>> \notin mirror[m].todo \cup mirror[m].copying =>
              Bytes(object[b][f]) = Bytes(mirror[m].files[f])

(* Where content types and metadata are copied, nothing lacks them.        *)
NothingPlain ==
  ~ListsPlain =>
    \A f \in Files : /\ \A b \in Buckets : object[b][f] # "plain"
                     /\ \A m \in Mirrors : mirror[m].files[f] # "plain"

AssetsInv ==
  /\ TypeOK
  /\ Alone
  /\ ConflictsStay
  /\ PublisherAtFile /\ PublisherVerified /\ PublisherAlone
  /\ MirrorInOrder /\ MirrorCompared /\ MirrorAlone
  /\ ManifestResolves
  /\ NothingPlain
=============================================================================
