------------------------ MODULE GlobalAssets_proofs ------------------------
(***************************************************************************)
(* Theorems about GlobalAssets, for any number of buckets, aliases, files  *)
(* and runs that overlap and die anywhere: aliases lead to their files,    *)
(* nothing is overwritten, and a run that was alone loses no alias.        *)
(***************************************************************************)
EXTENDS GlobalAssets, TLAPS, FiniteSetTheorems, WellFoundedInduction

(* The sets TypeOK draws the variables from.                               *)
Objects == [Buckets -> [Files -> ObjectStates]]
PublishStates ==
  [at : {"idle", "head", "put", "verify", "done", "refused"},
   kind : {"sync", "upsert"}, bucket : Buckets, source : Manifests,
   seen : Manifests, todo : SUBSET Items, item : Items \cup {<<>>}]
MirrorStates ==
  [at : {"idle", "list", "copy", "done", "refused"},
   unlisted : SUBSET Buckets, unread : SUBSET Buckets,
   listed : [Buckets -> SUBSET Files], read : [Buckets -> Manifests],
   files : [Files -> ObjectStates], merged : Manifests,
   todo : SUBSET (Buckets \X Files), copying : SUBSET (Buckets \X Files),
   unpublished : SUBSET Buckets]

(* The invariant, as far as it is about one run in the state k, beside the *)
(* objects ob and the manifests ma.                                        *)
Publishes(k) == k.at \in {"head", "put", "verify"}
Mirrored(k) == k.at \in {"list", "copy"} \/ k.unpublished # {} \/ k.todo # {} \/ k.copying # {}

AtFile(k, ob) ==
  /\ k.at \in {"put", "verify"} => k.item \in k.todo
  /\ k.at = "verify" => ob[k.bucket][k.item[1]] # "absent"
Verified(k, ob) ==
  Publishes(k) => \A a \in Aliases, f \in Files :
    \/ k.source[a] = f /\ \A item \in k.todo : item[1] # f
    \/ k.seen[a] = f
    => Bytes(ob[k.bucket][f]) = "right"
PublishesAlone(k, ob, ma) ==
  Publishes(k) => /\ k.seen = ma[k.bucket]
                  /\ k.at = "put" => ob[k.bucket][k.item[1]] = "absent"

Missing(k, b, f) == <<b, f>> \in k.todo \cup k.copying
InOrder(k) ==
  /\ k.at \in {"idle", "list", "done"} => k.unpublished = {} /\ k.todo = {} /\ k.copying = {}
  /\ k.unread # {} => k.at = "list"
  /\ k.unlisted \subseteq k.unread
  /\ \A b \in Buckets, f \in Files : Missing(k, b, f) => k.files[f] # "absent"
  /\ \A a \in Aliases, f \in Files : k.merged[a] = f => Bytes(k.files[f]) = "right"
Compared(k, ob) ==
  \A f \in Files : \A b \in k.unpublished :
    ~Missing(k, b, f) /\ Bytes(k.files[f]) = "right" => Bytes(ob[b][f]) = "right"
Listed(k, ob, ma) ==
  k.at = "list" => \A b \in Buckets :
    /\ b \notin k.unlisted => k.listed[b] = {f \in Files : ob[b][f] # "absent"}
    /\ b \notin k.unread => k.read[b] = ma[b]
StillMissing(k, ob) ==
  \A b \in Buckets, f \in Files : <<b, f>> \in k.copying => ob[b][f] = "absent"
Keeps(k, ma) ==
  \A b \in k.unpublished, a \in Aliases : ma[b][a] # NoFile => k.merged[a] = ma[b][a]
Finished(k, ob, ma) ==
  k.at = "copy" => \A b \in Buckets :
    /\ b \notin k.unpublished => ma[b] = k.merged /\ \A f \in Files : ~Missing(k, b, f)
    /\ \A f \in Files : ~Missing(k, b, f) => Bytes(ob[b][f]) = Bytes(k.files[f])
MirrorsAlone(k, ob, ma) ==
  Mirrored(k) => Listed(k, ob, ma) /\ StillMissing(k, ob) /\ Keeps(k, ma) /\ Finished(k, ob, ma)

Resolves(ob, ma) ==
  \A b \in Buckets, a \in Aliases : ma[b][a] # NoFile => Bytes(ob[b][ma[b][a]]) = "right"

LEMMA TypeFacts ==
  TypeOK <=> /\ object \in Objects /\ manifest \in [Buckets -> Manifests]
             /\ publish \in [Publishers -> PublishStates] /\ mirror \in [Mirrors -> MirrorStates]
             /\ runs \in 0..MaxRuns /\ overlapped \subseteq Publishers \cup Mirrors
BY DEF TypeOK, Objects, PublishStates, MirrorStates

LEMMA TypeFactsNext ==
  TypeOK' <=> /\ object' \in Objects /\ manifest' \in [Buckets -> Manifests]
              /\ publish' \in [Publishers -> PublishStates] /\ mirror' \in [Mirrors -> MirrorStates]
              /\ runs' \in 0..MaxRuns /\ overlapped' \subseteq Publishers \cup Mirrors
BY DEF TypeOK, Objects, PublishStates, MirrorStates

(* AssetsInv, run by run.                                                  *)
RunsHold ==
  /\ Alone /\ ConflictsStay /\ NothingPlain
  /\ Undisturbed => Resolves(object, manifest)
  /\ \A p \in Publishers :
       /\ AtFile(publish[p], object)
       /\ Undisturbed => Verified(publish[p], object)
       /\ p \notin overlapped => PublishesAlone(publish[p], object, manifest)
  /\ \A m \in Mirrors :
       /\ InOrder(mirror[m])
       /\ Undisturbed => Compared(mirror[m], object)
       /\ m \notin overlapped => MirrorsAlone(mirror[m], object, manifest)

LEMMA ByRun == TypeOK => (AssetsInv <=> RunsHold)
<1> SUFFICES ASSUME TypeOK PROVE AssetsInv <=> RunsHold
  OBVIOUS
<1>1. ManifestResolves <=> (Undisturbed => Resolves(object, manifest))
  BY DEF ManifestResolves, Resolves
<1>2. PublisherAtFile <=> \A p \in Publishers : AtFile(publish[p], object)
  BY DEF PublisherAtFile, AtFile, At
<1>3. PublisherVerified <=> \A p \in Publishers : Undisturbed => Verified(publish[p], object)
  BY DEF PublisherVerified, Verified, Publishing, Publishes
<1>4. PublisherAlone <=> \A p \in Publishers :
        p \notin overlapped => PublishesAlone(publish[p], object, manifest)
  BY DEF PublisherAlone, PublishesAlone, Publishing, Publishes, At
<1>5. MirrorInOrder <=> \A m \in Mirrors : InOrder(mirror[m])
  BY DEF MirrorInOrder, InOrder, Missing
<1>6. MirrorCompared <=> \A m \in Mirrors : Undisturbed => Compared(mirror[m], object)
  BY DEF MirrorCompared, Compared, Missing
<1>7. MirrorAlone <=> \A m \in Mirrors :
        m \notin overlapped => MirrorsAlone(mirror[m], object, manifest)
  <2>1. \A m \in Mirrors : mirror[m].unpublished \subseteq Buckets
    BY TypeFacts DEF MirrorStates
  <2>2. ASSUME NEW m \in Mirrors
        PROVE  MirrorsAlone(mirror[m], object, manifest) <=>
          \A b \in Buckets : Mirroring(m) =>
            /\ mirror[m].at = "list" =>
                 /\ b \notin mirror[m].unlisted =>
                      mirror[m].listed[b] = {f \in Files : object[b][f] # "absent"}
                 /\ b \notin mirror[m].unread => mirror[m].read[b] = manifest[b]
            /\ \A f \in Files : <<b, f>> \in mirror[m].copying => object[b][f] = "absent"
            /\ b \in mirror[m].unpublished =>
                 \A a \in Aliases : manifest[b][a] # NoFile => mirror[m].merged[a] = manifest[b][a]
            /\ mirror[m].at = "copy" =>
                 /\ b \notin mirror[m].unpublished =>
                      /\ manifest[b] = mirror[m].merged
                      /\ \A f \in Files : <<b, f>> \notin mirror[m].todo \cup mirror[m].copying
                 /\ \A f \in Files : <<b, f>> \notin mirror[m].todo \cup mirror[m].copying =>
                      Bytes(object[b][f]) = Bytes(mirror[m].files[f])
    <3> DEFINE k == mirror[m]
    <3>1. Mirroring(m) <=> Mirrored(k)
      BY DEF Mirroring, Mirrored
    <3>2. Listed(k, object, manifest) <=> \A b \in Buckets : k.at = "list" =>
            /\ b \notin k.unlisted => k.listed[b] = {f \in Files : object[b][f] # "absent"}
            /\ b \notin k.unread => k.read[b] = manifest[b]
      BY DEF Listed
    <3>3. StillMissing(k, object) <=> \A b \in Buckets : \A f \in Files :
            <<b, f>> \in k.copying => object[b][f] = "absent"
      BY DEF StillMissing
    <3>4. Keeps(k, manifest) <=> \A b \in Buckets : b \in k.unpublished =>
            \A a \in Aliases : manifest[b][a] # NoFile => k.merged[a] = manifest[b][a]
      BY <2>1 DEF Keeps
    <3>5. Finished(k, object, manifest) <=> \A b \in Buckets : k.at = "copy" =>
            /\ b \notin k.unpublished =>
                 /\ manifest[b] = k.merged
                 /\ \A f \in Files : <<b, f>> \notin k.todo \cup k.copying
            /\ \A f \in Files : <<b, f>> \notin k.todo \cup k.copying =>
                 Bytes(object[b][f]) = Bytes(k.files[f])
      BY DEF Finished, Missing
    <3> HIDE DEF k
    <3>6. MirrorsAlone(k, object, manifest) <=>
            (Mirrored(k) => /\ Listed(k, object, manifest) /\ StillMissing(k, object)
                            /\ Keeps(k, manifest) /\ Finished(k, object, manifest))
      BY DEF MirrorsAlone
    <3>7. QED
      BY <3>1, <3>2, <3>3, <3>4, <3>5, <3>6, Zenon DEF k
  <2> QED BY <2>2 DEF MirrorAlone
<1> QED
  BY <1>1, <1>2, <1>3, <1>4, <1>5, <1>6, <1>7 DEF AssetsInv, RunsHold

LEMMA ByRunNext == TypeOK' => (AssetsInv' <=> RunsHold')
  BY ByRun, PTL

-----------------------------------------------------------------------------
LEMMA ConstantFacts ==
  /\ NoFile \notin Files /\ 1 \in Buckets /\ Buckets \subseteq Nat /\ IsFiniteSet(Buckets)
  /\ Publishers \cap Mirrors = {} /\ ListsPlain \in BOOLEAN /\ MaxRuns \in Nat
  /\ <<>> \notin Items
<1>1. BucketCount \in Nat \ {0, 1}
  BY AssetsAssumption
<1>2. IsFiniteSet(1..BucketCount)
  BY <1>1, FS_Interval
<1> QED
  BY <1>1, <1>2, AssetsAssumption DEF Buckets, Items

(* What is stored has the right bytes, unless someone else has stored it.  *)
LEMMA BytesFacts ==
  /\ Bytes("absent") = "absent" /\ Bytes("foreign") = "foreign"
  /\ \A o \in ObjectStates \ {"absent", "foreign"} : Bytes(o) = "right"
  /\ \A o \in ObjectStates : Bytes(o) = "right" => o \notin {"absent", "foreign"}
  /\ {"absent", "plain", "foreign"} \cap ContentTypes = {}
  BY AssetsAssumption DEF Bytes, ObjectStates

LEMMA RestingStates ==
  /\ Empty \in Manifests
  /\ Unstarted \in PublishStates /\ Resting \in MirrorStates
  /\ \A ob, ma : AtFile(Unstarted, ob) /\ Verified(Unstarted, ob)
                 /\ PublishesAlone(Unstarted, ob, ma)
  /\ InOrder(Resting) /\ \A ob, ma : Compared(Resting, ob) /\ MirrorsAlone(Resting, ob, ma)
<1>1. Empty \in Manifests
  BY DEF Empty, Manifests
<1>2. Unstarted \in PublishStates
  BY <1>1, ConstantFacts DEF Unstarted, PublishStates
<1>3. Resting \in MirrorStates
  BY <1>1 DEF Resting, MirrorStates, ObjectStates
<1>4. \A ob, ma : AtFile(Unstarted, ob) /\ Verified(Unstarted, ob)
                  /\ PublishesAlone(Unstarted, ob, ma)
  BY DEF Unstarted, AtFile, Verified, PublishesAlone, Publishes
<1>5. InOrder(Resting)
  <2>1. \A a \in Aliases, f \in Files : Resting.merged[a] # f
    BY ConstantFacts DEF Resting, Empty
  <2> QED
    BY <2>1 DEF Resting, InOrder, Missing
<1>6. \A ob, ma : Compared(Resting, ob) /\ MirrorsAlone(Resting, ob, ma)
  BY DEF Resting, Compared, MirrorsAlone, Mirrored
<1> QED
  BY <1>1, <1>2, <1>3, <1>4, <1>5, <1>6

(* What is known of the runs.                                              *)
LEMMA PublisherFacts ==
  ASSUME AssetsInv, NEW p \in Publishers
  PROVE  /\ publish[p] \in PublishStates /\ AtFile(publish[p], object)
         /\ Undisturbed => Verified(publish[p], object)
         /\ p \notin overlapped => PublishesAlone(publish[p], object, manifest)
<1>1. TypeOK
  BY DEF AssetsInv
<1> QED
  BY <1>1, TypeFacts, ByRun DEF RunsHold

LEMMA MirrorFacts ==
  ASSUME AssetsInv, NEW m \in Mirrors
  PROVE  /\ mirror[m] \in MirrorStates /\ InOrder(mirror[m])
         /\ Undisturbed => Compared(mirror[m], object)
         /\ m \notin overlapped => MirrorsAlone(mirror[m], object, manifest)
<1>1. TypeOK
  BY DEF AssetsInv
<1> QED
  BY <1>1, TypeFacts, ByRun DEF RunsHold

LEMMA SharedFacts ==
  ASSUME AssetsInv
  PROVE  /\ object \in Objects /\ manifest \in [Buckets -> Manifests]
         /\ publish \in [Publishers -> PublishStates] /\ mirror \in [Mirrors -> MirrorStates]
         /\ runs \in 0..MaxRuns /\ overlapped \subseteq Publishers \cup Mirrors
         /\ Alone /\ ConflictsStay /\ NothingPlain
         /\ Undisturbed => Resolves(object, manifest)
<1>1. TypeOK
  BY DEF AssetsInv
<1> QED
  BY <1>1, TypeFacts, ByRun DEF RunsHold

LEMMA RunningMeans ==
  /\ \A p \in Publishers : p \in Running <=> Publishes(publish[p])
  /\ \A m \in Mirrors : m \in Running <=> Mirrored(mirror[m])
  /\ \A p \in Publishers : p \in Running' <=> Publishes(publish'[p])
  /\ \A m \in Mirrors : m \in Running' <=> Mirrored(mirror'[m])
  /\ Running \subseteq Publishers \cup Mirrors /\ Running' \subseteq Publishers \cup Mirrors
  BY ConstantFacts DEF Running, Publishing, Publishes, Mirroring, Mirrored

-----------------------------------------------------------------------------
(* Steps of one run r that leave the others as they are.                   *)
Others(r) ==
  /\ publish' \in [Publishers -> PublishStates] /\ mirror' \in [Mirrors -> MirrorStates]
  /\ \A p \in Publishers \ {r} : publish'[p] = publish[p]
  /\ \A m \in Mirrors \ {r} : mirror'[m] = mirror[m]

(* Of what was stored, a step keeps the bytes.                             *)
Calm ==
  /\ object' \in Objects
  /\ \A b \in Buckets, f \in Files : object[b][f] # "absent" => object'[b][f] # "absent"
  /\ Undisturbed => \A b \in Buckets, f \in Files :
       object[b][f] # "absent" => Bytes(object'[b][f]) = Bytes(object[b][f])
  /\ Undisturbed' => Undisturbed
  /\ ConflictsStay' /\ NothingPlain'

(* The runs that a step of r leaves alone, if they are running, are not    *)
(* alone.                                                                  *)
Overlapping(r) ==
  /\ Alone' /\ overlapped \subseteq overlapped'
  /\ overlapped' \subseteq Publishers \cup Mirrors
  /\ \A q \in Running' : q # r => q \in overlapped'

LEMMA RightIsKept ==
  ASSUME Calm, Undisturbed', NEW b \in Buckets, NEW f \in Files,
         Bytes(object[b][f]) = "right"
  PROVE  Bytes(object'[b][f]) = "right"
<1>1. object[b][f] # "absent"
  BY BytesFacts
<1> QED
  BY <1>1 DEF Calm

(* A run that goes on while another one steps.                             *)
LEMMA PublisherKept ==
  ASSUME AssetsInv, Calm, NEW r, Overlapping(r), NEW p \in Publishers, p # r,
         publish'[p] = publish[p]
  PROVE  /\ AtFile(publish'[p], object')
         /\ Undisturbed' => Verified(publish'[p], object')
         /\ p \notin overlapped' => PublishesAlone(publish'[p], object', manifest')
<1> DEFINE k == publish[p]
<1>1. /\ k \in PublishStates /\ AtFile(k, object)
      /\ Undisturbed => Verified(k, object)
  BY PublisherFacts
<1>2. k.bucket \in Buckets /\ k.todo \subseteq Items
  BY <1>1 DEF PublishStates
<1>3. AtFile(k, object')
  BY <1>1, <1>2 DEF AtFile, Calm, Items
<1>4. ASSUME Undisturbed' PROVE Verified(k, object')
  <2>1. Verified(k, object)
    BY <1>1, <1>4 DEF Calm
  <2>2. \A f \in Files : Bytes(object[k.bucket][f]) = "right" => Bytes(object'[k.bucket][f]) = "right"
    BY <1>2, <1>4, RightIsKept
  <2> HIDE DEF k
  <2> QED
    BY <2>1, <2>2 DEF Verified
<1>5. p \notin overlapped' => ~Publishes(publish'[p])
  BY RunningMeans DEF Overlapping
<1> QED
  BY <1>3, <1>4, <1>5 DEF PublishesAlone

LEMMA MirrorKept ==
  ASSUME AssetsInv, Calm, NEW r, Overlapping(r), NEW m \in Mirrors, m # r,
         mirror'[m] = mirror[m]
  PROVE  /\ InOrder(mirror'[m])
         /\ Undisturbed' => Compared(mirror'[m], object')
         /\ m \notin overlapped' => MirrorsAlone(mirror'[m], object', manifest')
<1> DEFINE k == mirror[m]
<1>1. k \in MirrorStates /\ InOrder(k) /\ (Undisturbed => Compared(k, object))
  BY MirrorFacts
<1>2. k.unpublished \subseteq Buckets
  BY <1>1 DEF MirrorStates
<1>3. ASSUME Undisturbed' PROVE Compared(k, object')
  <2>1. Compared(k, object)
    BY <1>1, <1>3 DEF Calm
  <2>2. \A b \in Buckets, f \in Files :
          Bytes(object[b][f]) = "right" => Bytes(object'[b][f]) = "right"
    BY <1>3, RightIsKept
  <2> HIDE DEF k
  <2> QED
    BY <1>2, <2>1, <2>2 DEF Compared
<1>4. m \notin overlapped' => ~Mirrored(mirror'[m])
  BY RunningMeans DEF Overlapping
<1> QED
  BY <1>1, <1>3, <1>4 DEF MirrorsAlone

LEMMA PublisherSteps ==
  ASSUME AssetsInv, NEW p \in Publishers, Others(p), Calm, Overlapping(p),
         manifest' \in [Buckets -> Manifests], runs' \in 0..MaxRuns,
         Undisturbed' => Resolves(object', manifest'),
         AtFile(publish'[p], object'),
         Undisturbed' => Verified(publish'[p], object'),
         p \notin overlapped' => PublishesAlone(publish'[p], object', manifest')
  PROVE  AssetsInv'
<1>1. TypeOK'
  BY TypeFactsNext DEF Others, Calm, Overlapping
<1>2. \A q \in Publishers :
        /\ AtFile(publish'[q], object')
        /\ Undisturbed' => Verified(publish'[q], object')
        /\ q \notin overlapped' => PublishesAlone(publish'[q], object', manifest')
  BY PublisherKept DEF Others
<1>3. \A m \in Mirrors : m # p
  BY ConstantFacts
<1>4. \A m \in Mirrors :
        /\ InOrder(mirror'[m])
        /\ Undisturbed' => Compared(mirror'[m], object')
        /\ m \notin overlapped' => MirrorsAlone(mirror'[m], object', manifest')
  BY <1>3, MirrorKept DEF Others
<1> QED
  BY <1>1, <1>2, <1>4, ByRunNext DEF RunsHold, Calm, Overlapping

LEMMA MirrorSteps ==
  ASSUME AssetsInv, NEW m \in Mirrors, Others(m), Calm, Overlapping(m),
         manifest' \in [Buckets -> Manifests], runs' \in 0..MaxRuns,
         Undisturbed' => Resolves(object', manifest'),
         InOrder(mirror'[m]),
         Undisturbed' => Compared(mirror'[m], object'),
         m \notin overlapped' => MirrorsAlone(mirror'[m], object', manifest')
  PROVE  AssetsInv'
<1>1. TypeOK'
  BY TypeFactsNext DEF Others, Calm, Overlapping
<1>2. \A n \in Mirrors :
        /\ InOrder(mirror'[n])
        /\ Undisturbed' => Compared(mirror'[n], object')
        /\ n \notin overlapped' => MirrorsAlone(mirror'[n], object', manifest')
  BY MirrorKept DEF Others
<1>3. \A p \in Publishers : p # m
  BY ConstantFacts
<1>4. \A p \in Publishers :
        /\ AtFile(publish'[p], object')
        /\ Undisturbed' => Verified(publish'[p], object')
        /\ p \notin overlapped' => PublishesAlone(publish'[p], object', manifest')
  BY <1>3, PublisherKept DEF Others
<1> QED
  BY <1>1, <1>2, <1>4, ByRunNext DEF RunsHold, Calm, Overlapping

-----------------------------------------------------------------------------
(* A run that goes on.                                                     *)
LEMMA Continues ==
  ASSUME AssetsInv, NEW r \in Running, Others(r), overlapped' = overlapped
  PROVE  Overlapping(r)
<1>1. Alone /\ overlapped \subseteq Publishers \cup Mirrors
  BY SharedFacts
<1>2. \A q \in Running' : q \in Running
  BY RunningMeans DEF Others
<1>3. Alone'
  BY <1>1, <1>2 DEF Alone
<1>4. \A q \in Running' : q # r => q \in overlapped
  BY <1>1, <1>2 DEF Alone
<1> QED
  BY <1>1, <1>3, <1>4 DEF Overlapping

(* A run that begins.                                                      *)
LEMMA Starts ==
  ASSUME AssetsInv, NEW r \in Publishers \cup Mirrors, Start(r), Others(r)
  PROVE  Overlapping(r) /\ runs' \in 0..MaxRuns
<1>1. /\ overlapped \subseteq Publishers \cup Mirrors /\ runs \in 0..MaxRuns
      /\ MaxRuns \in Nat
  BY SharedFacts, ConstantFacts
<1>2. \A q \in Running' : q # r => q \in Running
  BY RunningMeans DEF Others
<1>3. runs' \in 0..MaxRuns
  BY <1>1 DEF Start
<1>4. CASE Running = {}
  <2>1. overlapped' = overlapped /\ \A q \in Running' : q = r
    BY <1>2, <1>4 DEF Start
  <2> QED
    BY <1>1, <1>3, <2>1 DEF Overlapping, Alone
<1>5. CASE Running # {}
  <2>1. overlapped' = overlapped \cup Running \cup {r}
    BY <1>5 DEF Start
  <2>2. Running \subseteq Publishers \cup Mirrors
    BY RunningMeans
  <2> QED
    BY <1>1, <1>2, <1>3, <2>1, <2>2 DEF Overlapping, Alone
<1> QED
  BY <1>4, <1>5

(* A conflict that nothing pending can hide stays.                         *)
LEMMA ConflictsKept ==
  ASSUME AssetsInv, overlapped \subseteq overlapped',
         \A f \in Files :
           \/ \E b \in Buckets : object'[b][f] = "foreign"
           \/ \E m \in Mirrors : mirror'[m].files[f] = "foreign"
           => \/ \E b \in Buckets : object[b][f] = "foreign"
              \/ \E m \in Mirrors : mirror[m].files[f] = "foreign",
         \A b \in Buckets, f \in Files :
           object[b][f] = "foreign" /\ ~Pending(b, f)
             => object'[b][f] = "foreign" /\ ~Pending(b, f)'
  PROVE  ConflictsStay' /\ (Undisturbed' => Undisturbed)
<1>1. ConflictsStay
  BY SharedFacts
<1>2. ConflictsStay'
  BY <1>1 DEF ConflictsStay
<1>3. ASSUME NEW b \in Buckets, NEW f \in Files, object[b][f] = "foreign"
      PROVE  \E c \in Buckets : object'[c][f] = "foreign"
  BY <1>1, <1>3 DEF ConflictsStay
<1>4. Undisturbed' => Undisturbed
  BY <1>3 DEF Undisturbed
<1> QED
  BY <1>2, <1>4

LEMMA NothingWritten ==
  ASSUME AssetsInv, object' = object, overlapped \subseteq overlapped',
         \A b \in Buckets, f \in Files : Pending(b, f)' => Pending(b, f) \/ object[b][f] = "absent",
         \A m \in Mirrors, f \in Files :
           \/ mirror'[m].files[f] \in {"absent", mirror[m].files[f]}
           \/ \E b \in Buckets : mirror'[m].files[f] = object[b][f]
           \/ mirror'[m].files[f] = "plain" /\ ListsPlain
  PROVE  Calm
<1>1. ConflictsStay' /\ (Undisturbed' => Undisturbed)
  BY ConflictsKept
<1>2. object \in Objects /\ NothingPlain
  BY SharedFacts
<1>3. NothingPlain'
  BY <1>2 DEF NothingPlain
<1> QED
  BY <1>1, <1>2, <1>3 DEF Calm

LEMMA QuietPublisher ==
  ASSUME AssetsInv, object' = object, overlapped \subseteq overlapped',
         NEW p \in Publishers, Others(p), mirror' = mirror,
         publish'[p].at = "put" => object[publish'[p].bucket][publish'[p].item[1]] = "absent"
  PROVE  Calm
<1>1. ASSUME NEW b \in Buckets, NEW f \in Files, Pending(b, f)', object[b][f] # "absent"
      PROVE  Pending(b, f)
  BY <1>1 DEF Pending, Others
<1> QED
  BY <1>1, NothingWritten

LEMMA QuietMirror ==
  ASSUME AssetsInv, object' = object, overlapped \subseteq overlapped',
         NEW m \in Mirrors, Others(m), publish' = publish,
         \A b \in Buckets, f \in Files : <<b, f>> \in mirror'[m].copying =>
           <<b, f>> \in mirror[m].copying \/ object[b][f] = "absent",
         \A f \in Files :
           \/ mirror'[m].files[f] \in {"absent", mirror[m].files[f]}
           \/ \E b \in Buckets : mirror'[m].files[f] = object[b][f]
           \/ mirror'[m].files[f] = "plain" /\ ListsPlain
  PROVE  Calm
<1>1. ASSUME NEW b \in Buckets, NEW f \in Files, Pending(b, f)', object[b][f] # "absent"
      PROVE  Pending(b, f)
  BY <1>1 DEF Pending, Others
<1>2. \A n \in Mirrors, f \in Files :
        \/ mirror'[n].files[f] \in {"absent", mirror[n].files[f]}
        \/ \E b \in Buckets : mirror'[n].files[f] = object[b][f]
        \/ mirror'[n].files[f] = "plain" /\ ListsPlain
  BY DEF Others
<1> QED
  BY <1>1, <1>2, NothingWritten

(* What a run writes was found missing: nothing is hidden by it.           *)
LEMMA Written ==
  ASSUME AssetsInv, overlapped' = overlapped,
         NEW c \in Buckets, NEW g \in Files, Pending(c, g),
         NEW v \in ObjectStates \ {"absent"}, object' = [object EXCEPT ![c][g] = v],
         v = "foreign" => \E m \in Mirrors : mirror[m].files[g] = "foreign",
         v = "plain" => ListsPlain,
         \A b \in Buckets, f \in Files : Pending(b, f)' => Pending(b, f),
         \A m \in Mirrors : mirror'[m].files = mirror[m].files,
         Undisturbed => object[c][g] = "absent" \/ Bytes(object[c][g]) = Bytes(v)
  PROVE  Calm
<1>1. object \in Objects /\ NothingPlain
  BY SharedFacts
<1>2. /\ object' \in Objects
      /\ \A b \in Buckets, f \in Files :
           object'[b][f] = IF b = c /\ f = g THEN v ELSE object[b][f]
  BY <1>1 DEF Objects
<1>3. ConflictsStay' /\ (Undisturbed' => Undisturbed)
  <2>1. ASSUME NEW b \in Buckets, NEW f \in Files, object[b][f] = "foreign", ~Pending(b, f)
        PROVE  object'[b][f] = "foreign" /\ ~Pending(b, f)'
    BY <1>2, <2>1
  <2>2. ASSUME NEW f \in Files, \E b \in Buckets : object'[b][f] = "foreign"
        PROVE  \/ \E b \in Buckets : object[b][f] = "foreign"
               \/ \E m \in Mirrors : mirror[m].files[f] = "foreign"
    BY <1>2, <2>2
  <2> QED
    BY <2>1, <2>2, ConflictsKept
<1>4. NothingPlain'
  BY <1>1, <1>2 DEF NothingPlain
<1> QED
  BY <1>2, <1>3, <1>4 DEF Calm

LEMMA StillResolves ==
  ASSUME AssetsInv, Calm, manifest' = manifest
  PROVE  /\ manifest' \in [Buckets -> Manifests]
         /\ Undisturbed' => Resolves(object', manifest')
<1>1. manifest \in [Buckets -> Manifests] /\ (Undisturbed => Resolves(object, manifest))
  BY SharedFacts
<1>2. ASSUME Undisturbed', NEW b \in Buckets, NEW a \in Aliases, manifest[b][a] # NoFile
      PROVE  Bytes(object'[b][manifest[b][a]]) = "right"
  <2>1. manifest[b][a] \in Files
    BY <1>1, <1>2 DEF Manifests
  <2>2. Bytes(object[b][manifest[b][a]]) = "right"
    BY <1>1, <1>2 DEF Calm, Resolves
  <2> QED
    BY <1>2, <2>1, <2>2, RightIsKept
<1> QED
  BY <1>1, <1>2 DEF Resolves

(* A step of a publisher that writes nothing.                              *)
LEMMA PublisherReads ==
  ASSUME AssetsInv, NEW p \in Publishers, NEW k \in PublishStates,
         publish' = [publish EXCEPT ![p] = k], UNCHANGED <<object, manifest, mirror>>,
         \/ Publishing(p) /\ UNCHANGED <<runs, overlapped>>
         \/ Start(p),
         k.at = "put" => object[k.bucket][k.item[1]] = "absent",
         AtFile(k, object),
         Undisturbed => Verified(k, object),
         p \notin overlapped => PublishesAlone(k, object, manifest)
  PROVE  AssetsInv'
<1>1. /\ publish \in [Publishers -> PublishStates] /\ mirror \in [Mirrors -> MirrorStates]
      /\ runs \in 0..MaxRuns
  BY SharedFacts
<1>2. publish'[p] = k /\ Others(p)
  BY <1>1 DEF Others
<1>3. Overlapping(p) /\ runs' \in 0..MaxRuns
  <2>1. CASE Start(p)
    BY <1>2, <2>1, Starts
  <2>2. CASE Publishing(p) /\ UNCHANGED <<runs, overlapped>>
    <3>1. p \in Running
      BY <2>2 DEF Running
    <3> QED
      BY <1>1, <1>2, <2>2, <3>1, Continues
  <2> QED
    BY <2>1, <2>2
<1>4. Calm
  BY <1>2, <1>3, QuietPublisher DEF Overlapping
<1>5. /\ manifest' \in [Buckets -> Manifests]
      /\ Undisturbed' => Resolves(object', manifest')
  BY <1>4, StillResolves
<1>6. /\ Undisturbed' => Verified(k, object')
      /\ p \notin overlapped' => PublishesAlone(k, object', manifest')
  BY <1>3, <1>4 DEF Calm, Overlapping
<1> QED
  BY <1>2, <1>3, <1>4, <1>5, <1>6, PublisherSteps

LEMMA BeginPublishKeeps ==
  ASSUME AssetsInv, NEW p \in Publishers, NEW kind \in {"sync", "upsert"}, NEW b \in Buckets,
         NEW source \in Manifests, NEW type \in Declared, BeginPublish(p, kind, b, source, type)
  PROVE  AssetsInv'
<1> DEFINE k == [Unstarted EXCEPT !.at = "head", !.kind = kind, !.bucket = b,
                                  !.source = source, !.seen = manifest[b],
                                  !.todo = {<<source[a], type[a]>> : a \in Aliases} \cap Items]
<1>1. /\ manifest \in [Buckets -> Manifests]
      /\ Undisturbed => Resolves(object, manifest)
  BY SharedFacts
<1>2. manifest[b] \in Manifests
  BY <1>1
<1>3. /\ k \in PublishStates
      /\ k.at = "head" /\ k.bucket = b /\ k.source = source /\ k.seen = manifest[b]
      /\ k.todo = {<<source[a], type[a]>> : a \in Aliases} \cap Items
  BY <1>2, RestingStates DEF Unstarted, PublishStates
<1>4. publish' = [publish EXCEPT ![p] = k] /\ UNCHANGED <<object, manifest, mirror>> /\ Start(p)
  BY DEF BeginPublish
<1> HIDE DEF k
<1>5. AtFile(k, object) /\ PublishesAlone(k, object, manifest)
  BY <1>3 DEF AtFile, PublishesAlone
<1>6. ASSUME Undisturbed PROVE Verified(k, object)
  <2>1. ASSUME NEW a \in Aliases, NEW f \in Files, source[a] = f
        PROVE  <<f, type[a]>> \in k.todo
    <3>1. type[a] \in ContentTypes
      BY AssetsAssumption
    <3> QED
      BY <1>3, <2>1, <3>1 DEF Items
  <2>2. ASSUME NEW a \in Aliases, NEW f \in Files, source[a] = f
        PROVE  \E item \in k.todo : item[1] = f
    <3>1. <<f, type[a]>> \in k.todo /\ <<f, type[a]>>[1] = f
      BY <2>1, <2>2
    <3> QED
      BY <3>1
  <2>3. ASSUME NEW a \in Aliases, NEW f \in Files, manifest[b][a] = f
        PROVE  Bytes(object[b][f]) = "right"
    <3>1. f # NoFile
      BY ConstantFacts
    <3> QED
      BY <1>1, <1>6, <2>3, <3>1 DEF Resolves
  <2> QED
    BY <1>3, <2>2, <2>3 DEF Verified
<1> QED
  BY <1>3, <1>4, <1>5, <1>6, PublisherReads

LEMMA HeadKeeps ==
  ASSUME AssetsInv, NEW p \in Publishers, NEW item \in Items, Head(p, item)
  PROVE  AssetsInv'
<1> DEFINE o == publish[p]
           k == [o EXCEPT !.item = item,
                          !.at = IF object[o.bucket][item[1]] = "absent" THEN "put" ELSE "verify"]
<1>1. /\ o \in PublishStates /\ (Undisturbed => Verified(o, object))
      /\ p \notin overlapped => PublishesAlone(o, object, manifest)
  BY PublisherFacts
<1>2. /\ publish' = [publish EXCEPT ![p] = k]
      /\ UNCHANGED <<object, manifest, mirror, runs, overlapped>>
      /\ o.at = "head" /\ item \in o.todo /\ Publishing(p)
  BY DEF Head, Publishing
<1>3. /\ k \in PublishStates
      /\ k.at = IF object[o.bucket][item[1]] = "absent" THEN "put" ELSE "verify"
      /\ k.item = item /\ k.bucket = o.bucket /\ k.todo = o.todo
      /\ k.source = o.source /\ k.seen = o.seen
  BY <1>1 DEF PublishStates
<1> HIDE DEF k, o
<1>4. AtFile(k, object) /\ (k.at = "put" => object[k.bucket][k.item[1]] = "absent")
  BY <1>2, <1>3 DEF AtFile
<1>5. Undisturbed => Verified(k, object)
  BY <1>1, <1>2, <1>3 DEF Verified, Publishes
<1>6. p \notin overlapped => PublishesAlone(k, object, manifest)
  BY <1>1, <1>2, <1>3 DEF PublishesAlone, Publishes
<1> QED
  BY <1>2, <1>3, <1>4, <1>5, <1>6, PublisherReads

LEMMA VerifyKeeps ==
  ASSUME AssetsInv, NEW p \in Publishers, Verify(p)
  PROVE  AssetsInv'
<1> DEFINE o == publish[p]
           k == IF object[o.bucket][o.item[1]] = o.item[2]
                  THEN [o EXCEPT !.at = "head", !.item = <<>>, !.todo = @ \ {o.item}]
                  ELSE [Unstarted EXCEPT !.at = "refused"]
<1>1. /\ o \in PublishStates /\ AtFile(o, object) /\ (Undisturbed => Verified(o, object))
      /\ p \notin overlapped => PublishesAlone(o, object, manifest)
      /\ publish \in [Publishers -> PublishStates]
  BY PublisherFacts, SharedFacts
<1>2. /\ publish' = [publish EXCEPT ![p] = k]
      /\ UNCHANGED <<object, manifest, mirror, runs, overlapped>>
      /\ o.at = "verify" /\ Publishing(p)
  BY <1>1 DEF Verify, At, Publishing
<1>3. CASE object[o.bucket][o.item[1]] # o.item[2]
  <2>1. k \in PublishStates /\ k.at = "refused"
    BY <1>3, RestingStates DEF Unstarted, PublishStates
  <2> HIDE DEF k
  <2>2. AtFile(k, object) /\ Verified(k, object) /\ PublishesAlone(k, object, manifest)
    BY <2>1 DEF AtFile, Verified, PublishesAlone, Publishes
  <2> QED
    BY <1>2, <2>1, <2>2, PublisherReads
<1>4. CASE object[o.bucket][o.item[1]] = o.item[2]
  <2>1. /\ k \in PublishStates
        /\ k.at = "head" /\ k.bucket = o.bucket /\ k.todo = o.todo \ {o.item}
        /\ k.source = o.source /\ k.seen = o.seen
    BY <1>1, <1>4 DEF PublishStates
  <2> HIDE DEF k, o
  <2>2. AtFile(k, object)
    BY <2>1 DEF AtFile
  <2>3. Undisturbed => Verified(k, object)
    <3>1. o.item \in Items
      BY <1>1, <1>2 DEF PublishStates, AtFile
    <3>2. Bytes(object[o.bucket][o.item[1]]) = "right"
      BY <1>4, <3>1, BytesFacts DEF Items, ObjectStates
    <3> QED
      BY <1>1, <1>2, <2>1, <3>1, <3>2 DEF Verified, Publishes
  <2>4. p \notin overlapped => PublishesAlone(k, object, manifest)
    BY <1>1, <1>2, <2>1 DEF PublishesAlone, Publishes
  <2> QED
    BY <1>2, <2>1, <2>2, <2>3, <2>4, PublisherReads
<1> QED
  BY <1>3, <1>4

LEMMA PublishStopsKeeps ==
  ASSUME AssetsInv, NEW p \in Publishers, PublishStops(p)
  PROVE  AssetsInv'
<1>1. /\ publish' = [publish EXCEPT ![p] = Unstarted] /\ Publishing(p)
      /\ UNCHANGED <<object, manifest, mirror, runs, overlapped>>
  BY DEF PublishStops
<1>2. Unstarted.at # "put"
  BY DEF Unstarted
<1> QED
  BY <1>1, <1>2, RestingStates, PublisherReads

(* A put replaces no other bytes: another run may have stored the file     *)
(* since the head, but then the same one.                                  *)
LEMMA PutIsCalm ==
  ASSUME AssetsInv, NEW p \in Publishers, Put(p)
  PROVE  /\ Calm /\ Others(p)
         /\ publish[p].bucket \in Buckets /\ publish[p].item \in Items
         /\ \A b \in Buckets, f \in Files :
              object'[b][f] = IF b = publish[p].bucket /\ f = publish[p].item[1]
                                THEN publish[p].item[2] ELSE object[b][f]
<1> DEFINE o == publish[p]
           c == o.bucket
           g == o.item[1]
           v == o.item[2]
<1>1. /\ o \in PublishStates /\ AtFile(o, object)
      /\ p \notin overlapped => PublishesAlone(o, object, manifest)
      /\ publish \in [Publishers -> PublishStates] /\ object \in Objects
      /\ mirror \in [Mirrors -> MirrorStates]
  BY PublisherFacts, SharedFacts
<1>2. /\ o.at = "put" /\ object' = [object EXCEPT ![c][g] = v]
      /\ publish' = [publish EXCEPT ![p].at = "verify"]
      /\ UNCHANGED <<manifest, mirror, runs, overlapped>>
  BY DEF Put
<1>3. c \in Buckets /\ o.item \in Items /\ g \in Files /\ v \in ContentTypes
  BY <1>1, <1>2 DEF PublishStates, AtFile, Items
<1>4. publish' \in [Publishers -> PublishStates] /\ Others(p)
  <2>1. [o EXCEPT !.at = "verify"] \in PublishStates
    BY <1>1 DEF PublishStates
  <2> QED
    BY <1>1, <1>2, <2>1 DEF Others
<1>5. Pending(c, g)
  BY <1>2 DEF Pending
<1>6. ASSUME NEW b \in Buckets, NEW f \in Files, Pending(b, f)' PROVE Pending(b, f)
  <2>1. publish'[p].at = "verify" /\ \A q \in Publishers \ {p} : publish'[q] = publish[q]
    BY <1>1, <1>2 DEF PublishStates
  <2> QED
    BY <1>2, <1>6, <2>1 DEF Pending
<1>7. ASSUME Undisturbed
      PROVE  object[c][g] = "absent" \/ Bytes(object[c][g]) = Bytes(v)
  <2>1. CASE overlapped = {}
    BY <1>1, <1>2, <2>1 DEF PublishesAlone, Publishes
  <2>2. CASE \A b \in Buckets, f \in Files : object[b][f] # "foreign"
    BY <1>1, <1>3, <2>2, BytesFacts DEF Objects, ObjectStates
  <2> QED
    BY <1>7, <2>1, <2>2 DEF Undisturbed
<1>8. \A b \in Buckets, f \in Files :
        object'[b][f] = IF b = c /\ f = g THEN v ELSE object[b][f]
  BY <1>1, <1>2 DEF Objects
<1>9. Calm
  <2>1. v \in ObjectStates \ {"absent", "foreign", "plain"}
    BY <1>3, BytesFacts DEF ObjectStates
  <2> QED
    BY <1>2, <1>3, <1>5, <1>6, <1>7, <2>1, Written
<1> QED
  BY <1>3, <1>4, <1>8, <1>9

LEMMA PutKeeps ==
  ASSUME AssetsInv, NEW p \in Publishers, Put(p)
  PROVE  AssetsInv'
<1> DEFINE o == publish[p]
           k == [o EXCEPT !.at = "verify"]
<1>1. /\ o \in PublishStates /\ AtFile(o, object) /\ (Undisturbed => Verified(o, object))
      /\ p \notin overlapped => PublishesAlone(o, object, manifest)
      /\ publish \in [Publishers -> PublishStates] /\ runs \in 0..MaxRuns
  BY PublisherFacts, SharedFacts
<1>2. /\ o.at = "put" /\ publish' = [publish EXCEPT ![p] = k]
      /\ UNCHANGED <<manifest, mirror, runs, overlapped>>
  BY <1>1 DEF Put
<1>3. /\ Calm /\ Others(p) /\ o.bucket \in Buckets /\ o.item \in Items
      /\ \A b \in Buckets, f \in Files :
           object'[b][f] = IF b = o.bucket /\ f = o.item[1] THEN o.item[2] ELSE object[b][f]
  BY PutIsCalm
<1>4. /\ k.at = "verify" /\ k.bucket = o.bucket /\ k.todo = o.todo /\ k.item = o.item
      /\ k.source = o.source /\ k.seen = o.seen
  BY <1>1 DEF PublishStates
<1>5. Overlapping(p)
  <2>1. p \in Running
    BY <1>2 DEF Running, Publishing
  <2> QED
    BY <1>2, <1>3, <2>1, Continues
<1> HIDE DEF k, o
<1>6. publish'[p] = k
  BY <1>1, <1>2
<1>7. AtFile(k, object')
  BY <1>1, <1>2, <1>3, <1>4, BytesFacts DEF AtFile, Items
<1>8. ASSUME Undisturbed' PROVE Verified(k, object')
  <2>1. Verified(o, object)
    BY <1>1, <1>3, <1>8 DEF Calm
  <2>2. \A f \in Files : Bytes(object[o.bucket][f]) = "right" => Bytes(object'[o.bucket][f]) = "right"
    BY <1>3, <1>8, RightIsKept
  <2> QED
    BY <1>2, <1>4, <2>1, <2>2 DEF Verified, Publishes
<1>9. p \notin overlapped' => PublishesAlone(k, object', manifest')
  BY <1>1, <1>2, <1>4 DEF PublishesAlone, Publishes
<1>10. /\ manifest' \in [Buckets -> Manifests]
       /\ Undisturbed' => Resolves(object', manifest')
  BY <1>2, <1>3, StillResolves
<1> QED
  BY <1>1, <1>2, <1>3, <1>5, <1>6, <1>7, <1>8, <1>9, <1>10, PublisherSteps

LEMMA WriteManifestKeeps ==
  ASSUME AssetsInv, NEW p \in Publishers, WriteManifest(p)
  PROVE  AssetsInv'
<1> DEFINE o == publish[p]
           k == [Unstarted EXCEPT !.at = "done"]
           new == NewManifest(o)
<1>1. /\ o \in PublishStates /\ (Undisturbed => Verified(o, object))
      /\ publish \in [Publishers -> PublishStates] /\ mirror \in [Mirrors -> MirrorStates]
      /\ manifest \in [Buckets -> Manifests]
      /\ runs \in 0..MaxRuns /\ (Undisturbed => Resolves(object, manifest))
  BY PublisherFacts, SharedFacts
<1>2. /\ o.at = "head" /\ o.todo = {} /\ publish' = [publish EXCEPT ![p] = k]
      /\ manifest' = [manifest EXCEPT ![o.bucket] = new]
      /\ UNCHANGED <<object, mirror, runs, overlapped>>
  BY DEF WriteManifest
<1>3. k \in PublishStates /\ k.at = "done"
  BY RestingStates DEF Unstarted, PublishStates
<1>4. /\ o.bucket \in Buckets
      /\ new \in Manifests
      /\ \A a \in Aliases : new[a] \in {o.source[a], o.seen[a]}
  BY <1>1 DEF PublishStates, Manifests, NewManifest
<1> HIDE DEF k, new
<1>5. publish'[p] = k /\ Others(p)
  BY <1>1, <1>2, <1>3 DEF Others
<1>6. Overlapping(p)
  <2>1. p \in Running
    BY <1>2 DEF Running, Publishing
  <2> QED
    BY <1>2, <1>5, <2>1, Continues
<1>7. Calm
  BY <1>2, <1>3, <1>5, QuietPublisher
<1>8. AtFile(k, object') /\ Verified(k, object') /\ PublishesAlone(k, object', manifest')
  BY <1>3 DEF AtFile, Verified, PublishesAlone, Publishes
<1>9. ASSUME Undisturbed' PROVE Resolves(object', manifest')
  <2>1. Verified(o, object) /\ Resolves(object, manifest)
    BY <1>1, <1>7, <1>9 DEF Calm
  <2>2. ASSUME NEW a \in Aliases, new[a] # NoFile
        PROVE  Bytes(object[o.bucket][new[a]]) = "right"
    <3>1. new[a] \in Files
      BY <1>4, <2>2 DEF Manifests
    <3> QED
      BY <1>2, <1>4, <2>1, <3>1 DEF Verified, Publishes
  <2> QED
    BY <1>1, <1>2, <1>4, <2>1, <2>2 DEF Resolves
<1>10. manifest' \in [Buckets -> Manifests]
  BY <1>1, <1>2, <1>4
<1> QED
  BY <1>1, <1>2, <1>5, <1>6, <1>7, <1>8, <1>9, <1>10, PublisherSteps

-----------------------------------------------------------------------------
(* A step of a mirror that writes nothing.                                 *)
LEMMA MirrorReads ==
  ASSUME AssetsInv, NEW m \in Mirrors, NEW k \in MirrorStates,
         mirror' = [mirror EXCEPT ![m] = k], UNCHANGED <<object, manifest, publish>>,
         \/ Mirroring(m) /\ UNCHANGED <<runs, overlapped>>
         \/ Start(m),
         \A b \in Buckets, f \in Files : <<b, f>> \in k.copying =>
           <<b, f>> \in mirror[m].copying \/ object[b][f] = "absent",
         \A f \in Files :
           \/ k.files[f] \in {"absent", mirror[m].files[f]}
           \/ \E b \in Buckets : k.files[f] = object[b][f]
           \/ k.files[f] = "plain" /\ ListsPlain,
         InOrder(k),
         Undisturbed => Compared(k, object),
         m \notin overlapped => MirrorsAlone(k, object, manifest)
  PROVE  AssetsInv'
<1>1. /\ publish \in [Publishers -> PublishStates] /\ mirror \in [Mirrors -> MirrorStates]
      /\ runs \in 0..MaxRuns
  BY SharedFacts
<1>2. mirror'[m] = k /\ Others(m)
  BY <1>1 DEF Others
<1>3. Overlapping(m) /\ runs' \in 0..MaxRuns
  <2>1. CASE Start(m)
    BY <1>2, <2>1, Starts
  <2>2. CASE Mirroring(m) /\ UNCHANGED <<runs, overlapped>>
    <3>1. m \in Running
      BY <2>2 DEF Running
    <3> QED
      BY <1>1, <1>2, <2>2, <3>1, Continues
  <2> QED
    BY <2>1, <2>2
<1>4. Calm
  BY <1>2, <1>3, QuietMirror DEF Overlapping
<1>5. /\ manifest' \in [Buckets -> Manifests]
      /\ Undisturbed' => Resolves(object', manifest')
  BY <1>4, StillResolves
<1>6. /\ Undisturbed' => Compared(k, object')
      /\ m \notin overlapped' => MirrorsAlone(k, object', manifest')
  BY <1>3, <1>4 DEF Calm, Overlapping
<1> QED
  BY <1>2, <1>3, <1>4, <1>5, <1>6, MirrorSteps

LEMMA BeginMirrorKeeps ==
  ASSUME AssetsInv, NEW m \in Mirrors, BeginMirror(m)
  PROVE  AssetsInv'
<1> DEFINE k == [Resting EXCEPT !.at = "list", !.unlisted = Buckets, !.unread = Buckets]
<1>1. /\ mirror' = [mirror EXCEPT ![m] = k] /\ UNCHANGED <<object, manifest, publish>>
      /\ Start(m)
  BY DEF BeginMirror
<1>2. /\ k \in MirrorStates
      /\ k.at = "list" /\ k.unlisted = Buckets /\ k.unread = Buckets
      /\ k.unpublished = {} /\ k.todo = {} /\ k.copying = {}
      /\ k.files = [f \in Files |-> "absent"] /\ k.merged = Resting.merged
  BY RestingStates DEF Resting, MirrorStates
<1> HIDE DEF k
<1>3. InOrder(k)
  <2>1. \A a \in Aliases, f \in Files : k.merged[a] # f
    BY <1>2, ConstantFacts DEF Resting, Empty
  <2> QED
    BY <1>2, <2>1 DEF InOrder, Missing
<1>4. Compared(k, object) /\ MirrorsAlone(k, object, manifest)
  BY <1>2 DEF Compared, MirrorsAlone, Listed, StillMissing, Keeps, Finished
<1> QED
  BY <1>1, <1>2, <1>3, <1>4, MirrorReads

(* Two steps of reading: what was read stays true while no other run goes. *)
LEMMA ListObjectsKeeps ==
  ASSUME AssetsInv, NEW m \in Mirrors, NEW b \in Buckets, ListObjects(m, b)
  PROVE  AssetsInv'
<1> DEFINE o == mirror[m]
           there == {f \in Files : object[b][f] # "absent"}
           k == [o EXCEPT !.unlisted = @ \ {b}, !.listed[b] = there]
<1>1. /\ o \in MirrorStates /\ InOrder(o) /\ (Undisturbed => Compared(o, object))
      /\ m \notin overlapped => MirrorsAlone(o, object, manifest)
      /\ mirror \in [Mirrors -> MirrorStates]
  BY MirrorFacts, SharedFacts
<1>2. /\ mirror' = [mirror EXCEPT ![m] = k] /\ b \in o.unlisted
      /\ UNCHANGED <<object, manifest, publish, runs, overlapped>>
  BY <1>1 DEF ListObjects
<1>3. o.at = "list" /\ Mirroring(m)
  BY <1>1, <1>2 DEF InOrder, Mirroring
<1>4. /\ k \in MirrorStates
      /\ k.at = o.at /\ k.unlisted = o.unlisted \ {b} /\ k.unread = o.unread /\ k.read = o.read
      /\ \A c \in Buckets : k.listed[c] = IF c = b THEN there ELSE o.listed[c]
      /\ k.unpublished = o.unpublished /\ k.todo = o.todo /\ k.copying = o.copying
      /\ k.files = o.files /\ k.merged = o.merged
  BY <1>1 DEF MirrorStates
<1> HIDE DEF k, o
<1>5. InOrder(k)
  BY <1>1, <1>4 DEF InOrder, Missing
<1>6. Undisturbed => Compared(k, object)
  BY <1>1, <1>4 DEF Compared, Missing
<1>7. ASSUME m \notin overlapped PROVE MirrorsAlone(k, object, manifest)
  <2>1. Listed(o, object, manifest) /\ StillMissing(o, object) /\ Keeps(o, manifest)
    BY <1>1, <1>3, <1>7 DEF MirrorsAlone, Mirrored
  <2>2. Listed(k, object, manifest)
    BY <1>3, <1>4, <2>1 DEF Listed
  <2> QED
    BY <1>3, <1>4, <2>1, <2>2 DEF MirrorsAlone, StillMissing, Keeps, Finished
<1> QED
  BY <1>2, <1>3, <1>4, <1>5, <1>6, <1>7, MirrorReads DEF o

LEMMA ReadManifestKeeps ==
  ASSUME AssetsInv, NEW m \in Mirrors, NEW b \in Buckets, ReadManifest(m, b)
  PROVE  AssetsInv'
<1> DEFINE o == mirror[m]
           k == [o EXCEPT !.unread = @ \ {b}, !.read[b] = manifest[b]]
<1>1. /\ o \in MirrorStates /\ InOrder(o) /\ (Undisturbed => Compared(o, object))
      /\ m \notin overlapped => MirrorsAlone(o, object, manifest)
      /\ mirror \in [Mirrors -> MirrorStates] /\ manifest \in [Buckets -> Manifests]
  BY MirrorFacts, SharedFacts
<1>2. /\ mirror' = [mirror EXCEPT ![m] = k] /\ b \in o.unread /\ b \notin o.unlisted
      /\ UNCHANGED <<object, manifest, publish, runs, overlapped>>
  BY <1>1 DEF ReadManifest
<1>3. o.at = "list" /\ Mirroring(m)
  BY <1>1, <1>2 DEF InOrder, Mirroring
<1>4. /\ k \in MirrorStates
      /\ k.at = o.at /\ k.unlisted = o.unlisted /\ k.unread = o.unread \ {b}
      /\ k.listed = o.listed
      /\ \A c \in Buckets : k.read[c] = IF c = b THEN manifest[b] ELSE o.read[c]
      /\ k.unpublished = o.unpublished /\ k.todo = o.todo /\ k.copying = o.copying
      /\ k.files = o.files /\ k.merged = o.merged
  BY <1>1 DEF MirrorStates
<1> HIDE DEF k, o
<1>5. InOrder(k)
  BY <1>1, <1>2, <1>4 DEF InOrder, Missing
<1>6. Undisturbed => Compared(k, object)
  BY <1>1, <1>4 DEF Compared, Missing
<1>7. ASSUME m \notin overlapped PROVE MirrorsAlone(k, object, manifest)
  <2>1. Listed(o, object, manifest) /\ StillMissing(o, object) /\ Keeps(o, manifest)
    BY <1>1, <1>3, <1>7 DEF MirrorsAlone, Mirrored
  <2>2. Listed(k, object, manifest)
    BY <1>3, <1>4, <2>1 DEF Listed
  <2> QED
    BY <1>3, <1>4, <2>1, <2>2 DEF MirrorsAlone, StillMissing, Keeps, Finished
<1> QED
  BY <1>2, <1>3, <1>4, <1>5, <1>6, <1>7, MirrorReads DEF o

-----------------------------------------------------------------------------
(* The first target that lists a key.                                      *)
LEMMA LeastBucket ==
  ASSUME NEW S \in SUBSET Buckets, S # {}
  PROVE  \E b \in S : \A c \in S : b <= c
<1>1. IsWellFoundedOn({x \in Nat \X Nat : x[1] < x[2]}, Nat)
  BY NatLessThanWellFounded DEF OpToRel
<1>2. S \subseteq Nat
  BY ConstantFacts
<1>3. PICK b \in S : \A c \in S : ~ (<<c, b>> \in {x \in Nat \X Nat : x[1] < x[2]})
  BY <1>1, <1>2, WFMin
<1>4. ASSUME NEW c \in S PROVE b <= c
  <2>1. b \in Nat /\ c \in Nat /\ <<c, b>> \in Nat \X Nat
    BY <1>2
  <2>2. ~ (c < b)
    BY <1>3, <2>1
  <2> QED BY <2>1, <2>2
<1> QED BY <1>4

LEMMA CanonicalFacts ==
  ASSUME object \in Objects, NEW o \in MirrorStates, NEW f \in Files
  PROVE  /\ Canonical(o, f) \in ObjectStates
         /\ \/ Canonical(o, f) = "absent"
            \/ \E b \in Buckets : Canonical(o, f) = object[b][f]
            \/ Canonical(o, f) = "plain" /\ ListsPlain
         /\ (\A b \in Buckets : o.listed[b] = {g \in Files : object[b][g] # "absent"})
              => (Canonical(o, f) = "absent" => \A b \in Buckets : object[b][f] = "absent")
<1> DEFINE holders == {b \in Buckets : f \in o.listed[b]}
           source == CHOOSE b \in holders : \A c \in holders : b <= c
<1>1. Canonical(o, f) = IF holders = {} THEN "absent"
                        ELSE IF object[source][f] \in ContentTypes /\ ListsPlain THEN "plain"
                        ELSE object[source][f]
  BY DEF Canonical
<1>2. holders # {} => source \in holders
  BY LeastBucket
<1>3. source \in holders => source \in Buckets /\ f \in o.listed[source]
  OBVIOUS
<1>4. holders = {} => \A b \in Buckets : f \notin o.listed[b]
  OBVIOUS
<1> HIDE DEF holders, source
<1>5. \A b \in Buckets : object[b][f] \in ObjectStates
  BY DEF Objects
<1>6. "absent" \in ObjectStates /\ "plain" \in ObjectStates
  BY DEF ObjectStates
<1> QED
  BY <1>1, <1>2, <1>3, <1>4, <1>5, <1>6

LEMMA UnionFacts ==
  ASSUME NEW o \in MirrorStates
  PROVE  /\ Union(o) \in Manifests
         /\ \A a \in Aliases, b \in Buckets :
              Cardinality(Known(o, a)) <= 1 /\ o.read[b][a] # NoFile
                => Union(o)[a] = o.read[b][a]
<1>1. \A a \in Aliases : Known(o, a) \subseteq Files
  BY DEF MirrorStates, Manifests, Known
<1>2. \A a \in Aliases :
        Union(o)[a] = IF Known(o, a) = {} THEN NoFile ELSE CHOOSE f \in Known(o, a) : TRUE
  BY DEF Union
<1>3. Union(o) \in Manifests
  BY <1>1 DEF Union, Manifests
<1>4. ASSUME NEW a \in Aliases, Cardinality(Known(o, a)) <= 1,
             NEW b \in Buckets, o.read[b][a] # NoFile
      PROVE  Union(o)[a] = o.read[b][a]
  <2>1. o.read[b][a] \in Known(o, a)
    BY <1>4 DEF Known
  <2>2. Union(o)[a] \in Known(o, a)
    BY <1>2, <2>1
  <2>3. IsFiniteSet(Known(o, a))
    <3> DEFINE T == {o.read[c][a] : c \in Buckets}
               g == [c \in Buckets |-> o.read[c][a]]
    <3>1. IsFiniteSet(T)
      <4>1. g \in Surjection(Buckets, T)
        BY DEF Surjection
      <4> HIDE DEF g, T
      <4> QED
        BY <4>1, ConstantFacts, FS_Surjection
    <3> QED
      BY <3>1, FS_Subset DEF Known
  <2>4. ASSUME Union(o)[a] # o.read[b][a] PROVE FALSE
    <3> DEFINE pair == {Union(o)[a], o.read[b][a]}
    <3>1. pair \subseteq Known(o, a)
      BY <2>1, <2>2
    <3>2. Cardinality(pair) = 2 /\ IsFiniteSet(pair)
      <4>1. Cardinality({o.read[b][a]}) = 1 /\ IsFiniteSet({o.read[b][a]})
        BY FS_Singleton
      <4>2. Union(o)[a] \notin {o.read[b][a]}
        BY <2>4
      <4>3. Cardinality({o.read[b][a]} \cup {Union(o)[a]}) = 2
            /\ IsFiniteSet({o.read[b][a]} \cup {Union(o)[a]})
        BY <4>1, <4>2, FS_AddElement
      <4>4. pair = {o.read[b][a]} \cup {Union(o)[a]}
        OBVIOUS
      <4> QED
        BY <4>3, <4>4
    <3>3. Cardinality(pair) <= Cardinality(Known(o, a)) /\ Cardinality(Known(o, a)) \in Nat
      BY <2>3, <3>1, FS_Subset, FS_CardinalityType
    <3> QED
      BY <1>4, <3>2, <3>3
  <2> QED
    BY <2>4
<1> QED
  BY <1>3, <1>4

LEMMA MergeKeeps ==
  ASSUME AssetsInv, NEW m \in Mirrors, Merge(m)
  PROVE  AssetsInv'
<1> DEFINE o == mirror[m]
           k == [Resting EXCEPT
                          !.at = "copy", !.merged = Union(o), !.unpublished = Buckets,
                          !.files = [f \in Files |-> Canonical(o, f)],
                          !.todo = Buckets \X {f \in Files : Canonical(o, f) # "absent"}]
<1>1. /\ o \in MirrorStates /\ InOrder(o)
      /\ m \notin overlapped => MirrorsAlone(o, object, manifest)
      /\ mirror \in [Mirrors -> MirrorStates] /\ object \in Objects
  BY MirrorFacts, SharedFacts
<1>2. /\ AllRead(o) /\ mirror' = [mirror EXCEPT ![m] = k]
      /\ \A a \in Aliases : Cardinality(Known(o, a)) <= 1
      /\ \A a \in Aliases : Union(o)[a] # NoFile => Bytes(Canonical(o, Union(o)[a])) = "right"
      /\ UNCHANGED <<object, manifest, publish, runs, overlapped>>
  BY <1>1 DEF Merge
<1>3. /\ o.at = "list" /\ o.unread = {} /\ o.unlisted = {} /\ o.copying = {} /\ Mirroring(m)
  BY <1>1, <1>2 DEF InOrder, Mirroring, AllRead
<1>4. /\ k.at = "copy" /\ k.merged = Union(o) /\ k.unpublished = Buckets
      /\ k.unlisted = {} /\ k.unread = {} /\ k.copying = {}
      /\ \A f \in Files : k.files[f] = Canonical(o, f)
      /\ \A b \in Buckets, f \in Files : <<b, f>> \in k.todo <=> Canonical(o, f) # "absent"
  BY DEF Resting
<1>5. k \in MirrorStates
  <2>1. [f \in Files |-> Canonical(o, f)] \in [Files -> ObjectStates]
    BY <1>1, CanonicalFacts
  <2>2. Union(o) \in Manifests
    BY <1>1, UnionFacts
  <2>3. Buckets \X {f \in Files : Canonical(o, f) # "absent"} \in SUBSET (Buckets \X Files)
    OBVIOUS
  <2> QED
    BY <2>1, <2>2, <2>3, RestingStates DEF Resting, MirrorStates
<1> HIDE DEF k, o
<1>6. InOrder(k)
  <2>1. \A b \in Buckets, f \in Files : Missing(k, b, f) => k.files[f] # "absent"
    BY <1>4 DEF Missing
  <2>2. \A a \in Aliases, f \in Files : k.merged[a] = f => Bytes(k.files[f]) = "right"
    BY <1>2, <1>4, ConstantFacts
  <2> QED
    BY <1>4, <2>1, <2>2 DEF InOrder
<1>7. Compared(k, object)
  BY <1>4, BytesFacts DEF Compared, Missing
<1>8. ASSUME m \notin overlapped PROVE MirrorsAlone(k, object, manifest)
  <2>1. /\ \A b \in Buckets : o.listed[b] = {g \in Files : object[b][g] # "absent"}
        /\ \A b \in Buckets : o.read[b] = manifest[b]
    BY <1>1, <1>3, <1>8 DEF MirrorsAlone, Mirrored, Listed
  <2>2. Keeps(k, manifest)
    <3>1. ASSUME NEW b \in Buckets, NEW a \in Aliases, manifest[b][a] # NoFile
          PROVE  k.merged[a] = manifest[b][a]
      BY <1>1, <1>2, <1>4, <2>1, <3>1, UnionFacts
    <3> QED
      BY <1>4, <3>1 DEF Keeps
  <2>3. Finished(k, object, manifest)
    <3>1. ASSUME NEW b \in Buckets, NEW f \in Files, ~Missing(k, b, f)
          PROVE  Bytes(object[b][f]) = Bytes(k.files[f])
      <4>1. Canonical(o, f) = "absent"
        BY <1>4, <3>1 DEF Missing
      <4> QED
        BY <1>1, <1>4, <2>1, <4>1, CanonicalFacts
    <3> QED
      BY <1>4, <3>1 DEF Finished
  <2> QED
    BY <1>4, <2>2, <2>3 DEF MirrorsAlone, Listed, StillMissing
<1>9. \A f \in Files :
        \/ k.files[f] \in {"absent", mirror[m].files[f]}
        \/ \E b \in Buckets : k.files[f] = object[b][f]
        \/ k.files[f] = "plain" /\ ListsPlain
  BY <1>1, <1>4, CanonicalFacts
<1> QED
  BY <1>2, <1>3, <1>4, <1>5, <1>6, <1>7, <1>8, <1>9, MirrorReads

(* A mirror that has ended, in whichever way.                              *)
LEMMA Ended ==
  ASSUME NEW at \in {"idle", "done", "refused"}, NEW k, k = [Resting EXCEPT !.at = at]
  PROVE  /\ k \in MirrorStates /\ k.copying = {} /\ \A f \in Files : k.files[f] = "absent"
         /\ InOrder(k) /\ \A ob, ma : Compared(k, ob) /\ MirrorsAlone(k, ob, ma)
<1>1. /\ k \in MirrorStates /\ k.at = at /\ k.unlisted = {} /\ k.unread = {}
      /\ k.unpublished = {} /\ k.todo = {} /\ k.copying = {}
      /\ k.files = [f \in Files |-> "absent"] /\ k.merged = Empty
  BY RestingStates DEF Resting, MirrorStates
<1>2. InOrder(k)
  BY <1>1, ConstantFacts DEF InOrder, Missing, Empty
<1>3. \A ob, ma : Compared(k, ob) /\ MirrorsAlone(k, ob, ma)
  BY <1>1 DEF Compared, MirrorsAlone, Mirrored
<1> QED
  BY <1>1, <1>2, <1>3

LEMMA RefuseMergeKeeps ==
  ASSUME AssetsInv, NEW m \in Mirrors, RefuseMerge(m)
  PROVE  AssetsInv'
<1>1. PICK k : k = [Resting EXCEPT !.at = "refused"]
  OBVIOUS
<1>2. /\ mirror' = [mirror EXCEPT ![m] = k] /\ Mirroring(m)
      /\ UNCHANGED <<object, manifest, publish, runs, overlapped>>
  BY <1>1 DEF RefuseMerge, AllRead, Mirroring
<1>3. /\ k \in MirrorStates /\ k.copying = {} /\ \A f \in Files : k.files[f] = "absent"
      /\ InOrder(k) /\ Compared(k, object) /\ MirrorsAlone(k, object, manifest)
  BY <1>1, Ended
<1> QED
  BY <1>2, <1>3, MirrorReads

LEMMA MirrorStopsKeeps ==
  ASSUME AssetsInv, NEW m \in Mirrors, MirrorStops(m)
  PROVE  AssetsInv'
<1>1. PICK k : k = [Resting EXCEPT !.at = "idle"]
  OBVIOUS
<1>2. k = Resting
  BY <1>1 DEF Resting
<1>3. /\ mirror' = [mirror EXCEPT ![m] = k] /\ Mirroring(m)
      /\ UNCHANGED <<object, manifest, publish, runs, overlapped>>
  BY <1>2 DEF MirrorStops
<1>4. /\ k \in MirrorStates /\ k.copying = {} /\ \A f \in Files : k.files[f] = "absent"
      /\ InOrder(k) /\ Compared(k, object) /\ MirrorsAlone(k, object, manifest)
  BY <1>1, Ended
<1> QED
  BY <1>3, <1>4, MirrorReads

LEMMA CompareKeeps ==
  ASSUME AssetsInv, NEW m \in Mirrors, NEW b \in Buckets, NEW f \in Files, Compare(m, b, f)
  PROVE  AssetsInv'
<1> DEFINE o == mirror[m]
           rest == [o EXCEPT !.todo = @ \ {<<b, f>>}]
           k == IF object[b][f] = "absent" THEN [rest EXCEPT !.copying = @ \cup {<<b, f>>}]
                ELSE IF Bytes(object[b][f]) = Bytes(rest.files[f]) THEN rest
                ELSE [rest EXCEPT !.at = "refused", !.unpublished = @ \ {b}]
<1>1. /\ o \in MirrorStates /\ InOrder(o) /\ (Undisturbed => Compared(o, object))
      /\ m \notin overlapped => MirrorsAlone(o, object, manifest)
      /\ mirror \in [Mirrors -> MirrorStates]
  BY MirrorFacts, SharedFacts
<1>2. /\ mirror' = [mirror EXCEPT ![m] = k] /\ <<b, f>> \in o.todo
      /\ UNCHANGED <<object, manifest, publish, runs, overlapped>>
  BY DEF Compare
<1>3. /\ Mirroring(m) /\ Mirrored(o)
      /\ o.at \notin {"idle", "list", "done"} /\ o.unread = {} /\ o.unlisted = {}
  BY <1>1, <1>2 DEF InOrder, Mirroring, Mirrored
<1>4. /\ k \in MirrorStates
      /\ k.unlisted = o.unlisted /\ k.unread = o.unread
      /\ k.files = o.files /\ k.merged = o.merged /\ k.todo = o.todo \ {<<b, f>>}
      /\ \/ /\ object[b][f] = "absent"
            /\ k.at = o.at /\ k.unpublished = o.unpublished
            /\ k.copying = o.copying \cup {<<b, f>>}
         \/ /\ Bytes(object[b][f]) = Bytes(o.files[f])
            /\ k.at = o.at /\ k.unpublished = o.unpublished
            /\ k.copying = o.copying
         \/ /\ k.at = "refused" /\ k.unpublished = o.unpublished \ {b}
            /\ k.copying = o.copying
  <2>1. <<b, f>> \in Buckets \X Files
    OBVIOUS
  <2>2. /\ rest \in MirrorStates /\ rest.at = o.at
        /\ rest.unlisted = o.unlisted /\ rest.unread = o.unread
        /\ rest.files = o.files /\ rest.merged = o.merged /\ rest.todo = o.todo \ {<<b, f>>}
        /\ rest.unpublished = o.unpublished /\ rest.copying = o.copying
    BY <1>1 DEF MirrorStates
  <2> HIDE DEF rest, o
  <2>3. CASE object[b][f] = "absent"
    BY <2>1, <2>2, <2>3 DEF MirrorStates
  <2>4. CASE object[b][f] # "absent" /\ Bytes(object[b][f]) = Bytes(rest.files[f])
    BY <2>2, <2>4
  <2>5. CASE object[b][f] # "absent" /\ Bytes(object[b][f]) # Bytes(rest.files[f])
    BY <2>2, <2>5 DEF MirrorStates
  <2> QED
    BY <2>3, <2>4, <2>5
<1> HIDE DEF k, o, rest
<1>5. /\ \A c \in Buckets, g \in Files : Missing(k, c, g) => Missing(o, c, g)
      /\ \A c \in Buckets, g \in Files :
           Missing(o, c, g) /\ ~Missing(k, c, g) => c = b /\ g = f
  BY <1>2, <1>4 DEF Missing
<1>6. InOrder(k)
  <2>1. k.at \notin {"idle", "list", "done"}
    BY <1>3, <1>4
  <2> QED
    BY <1>1, <1>3, <1>4, <1>5, <2>1 DEF InOrder
<1>7. ASSUME Undisturbed PROVE Compared(k, object)
  <2>1. Compared(o, object) /\ o.unpublished \subseteq Buckets
    BY <1>1, <1>7 DEF MirrorStates
  <2>2. SUFFICES ASSUME NEW g \in Files, NEW c \in k.unpublished,
                        ~Missing(k, c, g), Bytes(k.files[g]) = "right"
                 PROVE  Bytes(object[c][g]) = "right"
    BY DEF Compared
  <2>3. c \in o.unpublished /\ c \in Buckets /\ Bytes(o.files[g]) = "right"
    BY <1>4, <2>1, <2>2
  <2>4. CASE ~Missing(o, c, g)
    BY <2>1, <2>3, <2>4 DEF Compared
  <2>5. CASE Missing(o, c, g)
    <3>1. c = b /\ g = f
      BY <1>5, <2>2, <2>3, <2>5
    <3>2. <<b, f>> \notin k.copying /\ b \in k.unpublished
      BY <2>2, <3>1 DEF Missing
    <3> QED
      BY <1>4, <2>3, <3>1, <3>2
  <2> QED
    BY <2>4, <2>5
<1>8. ASSUME m \notin overlapped PROVE MirrorsAlone(k, object, manifest)
  <2>1. StillMissing(o, object) /\ Keeps(o, manifest) /\ Finished(o, object, manifest)
    BY <1>1, <1>3, <1>8 DEF MirrorsAlone
  <2>2. Listed(k, object, manifest)
    BY <1>3, <1>4 DEF Listed
  <2>3. StillMissing(k, object)
    BY <1>4, <2>1 DEF StillMissing
  <2>4. Keeps(k, manifest)
    BY <1>4, <2>1 DEF Keeps
  <2>5. Finished(k, object, manifest)
    <3> SUFFICES ASSUME k.at = "copy", NEW c \in Buckets
                 PROVE  /\ c \notin k.unpublished =>
                             manifest[c] = k.merged /\ \A g \in Files : ~Missing(k, c, g)
                        /\ \A g \in Files : ~Missing(k, c, g) =>
                             Bytes(object[c][g]) = Bytes(k.files[g])
      BY DEF Finished
    <3>1. o.at = "copy" /\ k.unpublished = o.unpublished
      BY <1>4
    <3>2. c \notin k.unpublished =>
            manifest[c] = k.merged /\ \A g \in Files : ~Missing(k, c, g)
      BY <1>4, <1>5, <2>1, <3>1 DEF Finished
    <3>3. ASSUME NEW g \in Files, ~Missing(k, c, g) PROVE Bytes(object[c][g]) = Bytes(k.files[g])
      <4>1. CASE ~Missing(o, c, g)
        BY <1>4, <2>1, <3>1, <4>1 DEF Finished
      <4>2. CASE Missing(o, c, g)
        <5>1. c = b /\ g = f /\ <<b, f>> \notin k.copying
          BY <1>5, <3>3, <4>2 DEF Missing
        <5> QED
          BY <1>4, <5>1
      <4> QED
        BY <4>1, <4>2
    <3> QED
      BY <3>2, <3>3
  <2> QED
    BY <2>2, <2>3, <2>4, <2>5 DEF MirrorsAlone
<1>9. \A c \in Buckets, g \in Files : <<c, g>> \in k.copying =>
        <<c, g>> \in mirror[m].copying \/ object[c][g] = "absent"
  BY <1>4 DEF o
<1> QED
  BY <1>2, <1>3, <1>4, <1>6, <1>7, <1>8, <1>9, MirrorReads DEF o

-----------------------------------------------------------------------------
(* A copy replaces no other bytes, unless runs overlap and there were some *)
(* in another bucket.                                                      *)
LEMMA CopyIsCalm ==
  ASSUME AssetsInv, NEW m \in Mirrors, NEW b \in Buckets, NEW f \in Files, Copy(m, b, f)
  PROVE  /\ Calm /\ Others(m)
         /\ \A c \in Buckets, g \in Files :
              object'[c][g] = IF c = b /\ g = f THEN mirror[m].files[f] ELSE object[c][g]
<1> DEFINE o == mirror[m]
           v == o.files[f]
           k == [o EXCEPT !.copying = @ \ {<<b, f>>}]
<1>1. /\ o \in MirrorStates /\ InOrder(o)
      /\ m \notin overlapped => MirrorsAlone(o, object, manifest)
      /\ mirror \in [Mirrors -> MirrorStates] /\ publish \in [Publishers -> PublishStates]
      /\ object \in Objects /\ ConflictsStay /\ NothingPlain
  BY MirrorFacts, SharedFacts
<1>2. /\ <<b, f>> \in o.copying /\ object' = [object EXCEPT ![b][f] = v]
      /\ mirror' = [mirror EXCEPT ![m] = k]
      /\ UNCHANGED <<manifest, publish, runs, overlapped>>
  BY <1>1 DEF Copy
<1>3. /\ k \in MirrorStates /\ k.copying = o.copying \ {<<b, f>>} /\ k.files = o.files
  BY <1>1 DEF MirrorStates
<1>4. v \in ObjectStates \ {"absent"} /\ (v = "plain" => ListsPlain)
  BY <1>1, <1>2, ConstantFacts DEF MirrorStates, InOrder, Missing, NothingPlain
<1> HIDE DEF k
<1>5. /\ \A n \in Mirrors : mirror'[n] = IF n = m THEN k ELSE mirror[n]
      /\ Others(m)
  BY <1>1, <1>2, <1>3 DEF Others
<1>6. Pending(b, f)
  BY <1>2 DEF Pending
<1>7. ASSUME NEW c \in Buckets, NEW g \in Files, Pending(c, g)' PROVE Pending(c, g)
  <2>1. \A n \in Mirrors : mirror'[n].copying \subseteq mirror[n].copying
    BY <1>3, <1>5
  <2> QED
    BY <1>2, <1>7, <2>1 DEF Pending
<1>8. ASSUME Undisturbed
      PROVE  object[b][f] = "absent" \/ Bytes(object[b][f]) = Bytes(v)
  <2>1. CASE overlapped = {}
    BY <1>1, <1>2, <2>1 DEF MirrorsAlone, Mirrored, StillMissing
  <2>2. CASE \A c \in Buckets, g \in Files : object[c][g] # "foreign"
    <3>1. v # "foreign"
      BY <1>1, <2>2 DEF ConflictsStay
    <3>2. object[b][f] \in ObjectStates \ {"foreign"}
      BY <1>1, <2>2 DEF Objects
    <3> QED
      BY <1>4, <3>1, <3>2 DEF ObjectStates, Bytes
  <2> QED
    BY <1>8, <2>1, <2>2 DEF Undisturbed
<1>9. \A c \in Buckets, g \in Files :
        object'[c][g] = IF c = b /\ g = f THEN v ELSE object[c][g]
  BY <1>1, <1>2 DEF Objects
<1>10. Calm
  <2>1. \A n \in Mirrors : mirror'[n].files = mirror[n].files
    BY <1>3, <1>5
  <2> QED
    BY <1>2, <1>4, <1>6, <1>7, <1>8, <2>1, Written
<1> QED
  BY <1>5, <1>9, <1>10

LEMMA CopyKeeps ==
  ASSUME AssetsInv, NEW m \in Mirrors, NEW b \in Buckets, NEW f \in Files, Copy(m, b, f)
  PROVE  AssetsInv'
<1> DEFINE o == mirror[m]
           k == [o EXCEPT !.copying = @ \ {<<b, f>>}]
<1>1. /\ o \in MirrorStates /\ InOrder(o) /\ (Undisturbed => Compared(o, object))
      /\ m \notin overlapped => MirrorsAlone(o, object, manifest)
      /\ mirror \in [Mirrors -> MirrorStates] /\ runs \in 0..MaxRuns
  BY MirrorFacts, SharedFacts
<1>2. /\ <<b, f>> \in o.copying /\ mirror' = [mirror EXCEPT ![m] = k]
      /\ UNCHANGED <<manifest, publish, runs, overlapped>>
  BY <1>1 DEF Copy
<1>3. /\ Calm /\ Others(m)
      /\ \A c \in Buckets, g \in Files :
           object'[c][g] = IF c = b /\ g = f THEN o.files[f] ELSE object[c][g]
  BY CopyIsCalm
<1>4. /\ k.at = o.at /\ k.unlisted = o.unlisted /\ k.unread = o.unread
      /\ k.listed = o.listed /\ k.read = o.read
      /\ k.unpublished = o.unpublished /\ k.todo = o.todo /\ k.files = o.files
      /\ k.copying = o.copying \ {<<b, f>>} /\ k.merged = o.merged
  BY <1>1 DEF MirrorStates
<1>5. mirror'[m] = k
  BY <1>1, <1>2
<1>6. m \in Running /\ Mirrored(o) /\ o.at \notin {"idle", "list", "done"}
  BY <1>1, <1>2, RunningMeans DEF Mirrored, InOrder
<1> HIDE DEF k, o
<1>7. Overlapping(m)
  BY <1>2, <1>3, <1>6, Continues
<1>8. /\ \A c \in Buckets, g \in Files : Missing(k, c, g) => Missing(o, c, g)
      /\ \A c \in Buckets, g \in Files :
           Missing(o, c, g) /\ ~Missing(k, c, g) => c = b /\ g = f
  BY <1>4 DEF Missing
<1>9. InOrder(k)
  BY <1>1, <1>4, <1>6, <1>8 DEF InOrder
<1>10. ASSUME Undisturbed' PROVE Compared(k, object')
  <2>1. Compared(o, object) /\ o.unpublished \subseteq Buckets
    BY <1>1, <1>3, <1>10 DEF MirrorStates, Calm
  <2>2. SUFFICES ASSUME NEW g \in Files, NEW c \in k.unpublished,
                        ~Missing(k, c, g), Bytes(k.files[g]) = "right"
                 PROVE  Bytes(object'[c][g]) = "right"
    BY DEF Compared
  <2>3. c \in o.unpublished /\ c \in Buckets /\ Bytes(o.files[g]) = "right"
    BY <1>4, <2>1, <2>2
  <2>4. CASE ~Missing(o, c, g)
    <3>1. Bytes(object[c][g]) = "right"
      BY <2>1, <2>3, <2>4 DEF Compared
    <3> QED
      BY <1>3, <1>10, <2>3, <3>1, RightIsKept
  <2>5. CASE Missing(o, c, g)
    BY <1>3, <1>8, <2>2, <2>3, <2>5
  <2> QED
    BY <2>4, <2>5
<1>11. ASSUME m \notin overlapped' PROVE MirrorsAlone(k, object', manifest')
  <2>1. StillMissing(o, object) /\ Keeps(o, manifest) /\ Finished(o, object, manifest)
    BY <1>1, <1>2, <1>6, <1>11 DEF MirrorsAlone
  <2>2. Listed(k, object', manifest')
    BY <1>4, <1>6 DEF Listed
  <2>3. StillMissing(k, object')
    BY <1>3, <1>4, <2>1 DEF StillMissing
  <2>4. Keeps(k, manifest')
    BY <1>2, <1>4, <2>1 DEF Keeps
  <2>5. Finished(k, object', manifest')
    <3> SUFFICES ASSUME k.at = "copy", NEW c \in Buckets
                 PROVE  /\ c \notin k.unpublished =>
                             manifest[c] = k.merged /\ \A g \in Files : ~Missing(k, c, g)
                        /\ \A g \in Files : ~Missing(k, c, g) =>
                             Bytes(object'[c][g]) = Bytes(k.files[g])
      BY <1>2 DEF Finished
    <3>1. c \notin k.unpublished =>
            manifest[c] = k.merged /\ \A g \in Files : ~Missing(k, c, g)
      BY <1>4, <1>8, <2>1 DEF Finished
    <3>2. ASSUME NEW g \in Files, ~Missing(k, c, g) PROVE Bytes(object'[c][g]) = Bytes(k.files[g])
      BY <1>3, <1>4, <1>8, <2>1, <3>2 DEF Finished
    <3> QED
      BY <3>1, <3>2
  <2> QED
    BY <2>2, <2>3, <2>4, <2>5 DEF MirrorsAlone
<1>12. /\ manifest' \in [Buckets -> Manifests]
       /\ Undisturbed' => Resolves(object', manifest')
  BY <1>2, <1>3, StillResolves
<1> QED
  BY <1>1, <1>2, <1>3, <1>5, <1>7, <1>9, <1>10, <1>11, <1>12, MirrorSteps

LEMMA PublishMergedKeeps ==
  ASSUME AssetsInv, NEW m \in Mirrors, NEW b \in Buckets, PublishMerged(m, b)
  PROVE  AssetsInv'
<1> DEFINE o == mirror[m]
           ended == [Resting EXCEPT !.at = "done"]
           on == [o EXCEPT !.unpublished = o.unpublished \ {b}]
           k == IF o.at = "copy" /\ o.unpublished = {b} THEN ended ELSE on
<1>1. /\ o \in MirrorStates /\ InOrder(o) /\ (Undisturbed => Compared(o, object))
      /\ m \notin overlapped => MirrorsAlone(o, object, manifest)
      /\ mirror \in [Mirrors -> MirrorStates] /\ publish \in [Publishers -> PublishStates]
      /\ object \in Objects /\ manifest \in [Buckets -> Manifests] /\ runs \in 0..MaxRuns
      /\ Undisturbed => Resolves(object, manifest)
  BY MirrorFacts, SharedFacts
<1>2. /\ b \in o.unpublished /\ \A f \in Files : ~Missing(o, b, f)
      /\ manifest' = [manifest EXCEPT ![b] = o.merged]
      /\ mirror' = [mirror EXCEPT ![m] = k]
      /\ UNCHANGED <<object, publish, runs, overlapped>>
  <2>1. b \in o.unpublished /\ \A f \in Files : ~Missing(o, b, f)
    BY DEF PublishMerged, Missing
  <2>2. /\ manifest' = [manifest EXCEPT ![b] = o.merged]
        /\ UNCHANGED <<object, publish, runs, overlapped>>
    BY DEF PublishMerged
  <2>3. mirror' = [mirror EXCEPT ![m] = k]
    BY DEF PublishMerged, TargetDone
  <2> QED
    BY <2>1, <2>2, <2>3
<1>3. /\ ended \in MirrorStates /\ ended.copying = {}
      /\ \A f \in Files : ended.files[f] = "absent"
      /\ InOrder(ended) /\ \A ob, ma : Compared(ended, ob) /\ MirrorsAlone(ended, ob, ma)
  BY Ended
<1>4. /\ on \in MirrorStates
      /\ on.at = o.at /\ on.unlisted = o.unlisted /\ on.unread = o.unread
      /\ on.listed = o.listed /\ on.read = o.read
      /\ on.unpublished = o.unpublished \ {b} /\ on.todo = o.todo /\ on.files = o.files
      /\ on.copying = o.copying /\ on.merged = o.merged
  BY <1>1 DEF MirrorStates
<1>5. k \in {ended, on}
  OBVIOUS
<1>6. m \in Running /\ Mirrored(o) /\ o.at \notin {"idle", "list", "done"}
  BY <1>1, <1>2, RunningMeans DEF Mirrored, InOrder
<1>7. o.merged \in Manifests /\ o.unpublished \subseteq Buckets
  BY <1>1 DEF MirrorStates
<1> HIDE DEF k, on, ended, o
<1>8. mirror'[m] = k /\ Others(m)
  BY <1>1, <1>2, <1>3, <1>4, <1>5 DEF Others
<1>9. Overlapping(m)
  BY <1>2, <1>6, <1>8, Continues
<1>10. \A a \in Buckets : manifest'[a] = IF a = b THEN o.merged ELSE manifest[a]
  BY <1>1, <1>2
<1>11. \A x \in {ended, on} : InOrder(x)
  <2>1. \A c \in Buckets, g \in Files : Missing(on, c, g) <=> Missing(o, c, g)
    BY <1>4 DEF Missing
  <2>2. InOrder(on)
    BY <1>1, <1>4, <1>6, <2>1 DEF InOrder
  <2> QED
    BY <1>3, <2>2
<1>12. ASSUME Undisturbed PROVE Compared(on, object)
  BY <1>1, <1>4, <1>12 DEF Compared, Missing
<1>13. ASSUME m \notin overlapped PROVE MirrorsAlone(on, object, manifest')
  <2>1. StillMissing(o, object) /\ Keeps(o, manifest) /\ Finished(o, object, manifest)
    BY <1>1, <1>6, <1>13 DEF MirrorsAlone
  <2>2. Listed(on, object, manifest')
    BY <1>4, <1>6 DEF Listed
  <2>3. StillMissing(on, object)
    BY <1>4, <2>1 DEF StillMissing
  <2>4. Keeps(on, manifest')
    BY <1>4, <1>7, <1>10, <2>1 DEF Keeps
  <2>5. Finished(on, object, manifest')
    <3>1. \A c \in Buckets, g \in Files : Missing(on, c, g) <=> Missing(o, c, g)
      BY <1>4 DEF Missing
    <3> QED
      BY <1>2, <1>4, <1>10, <2>1, <3>1 DEF Finished
  <2> QED
    BY <2>2, <2>3, <2>4, <2>5 DEF MirrorsAlone
<1>14. Calm
  <2>1. \A x \in {ended, on} :
          /\ \A c \in Buckets, g \in Files : <<c, g>> \in x.copying => <<c, g>> \in o.copying
          /\ \A g \in Files : x.files[g] \in {"absent", o.files[g]}
    BY <1>3, <1>4
  <2> QED
    BY <1>2, <1>5, <1>8, <2>1, QuietMirror DEF o
<1>15. ASSUME Undisturbed' PROVE Resolves(object', manifest')
  <2>1. Compared(o, object) /\ Resolves(object, manifest)
    BY <1>1, <1>14, <1>15 DEF Calm
  <2>2. ASSUME NEW a \in Aliases, o.merged[a] # NoFile
        PROVE  Bytes(object[b][o.merged[a]]) = "right"
    <3>1. o.merged[a] \in Files
      BY <1>7, <2>2 DEF Manifests
    <3>2. Bytes(o.files[o.merged[a]]) = "right"
      BY <1>1, <3>1 DEF InOrder
    <3> QED
      BY <1>2, <2>1, <3>1, <3>2 DEF Compared
  <2> QED
    BY <1>2, <1>10, <2>1, <2>2 DEF Resolves
<1>16. manifest' \in [Buckets -> Manifests]
  BY <1>1, <1>2, <1>7
<1>17. /\ Undisturbed' => Compared(k, object')
       /\ m \notin overlapped' => MirrorsAlone(k, object', manifest')
  <2>1. Undisturbed' => Undisturbed
    BY <1>14 DEF Calm
  <2> QED
    BY <1>2, <1>3, <1>5, <1>12, <1>13, <2>1
<1> QED
  BY <1>1, <1>2, <1>5, <1>8, <1>9, <1>11, <1>14, <1>15, <1>16, <1>17, MirrorSteps

-----------------------------------------------------------------------------
LEMMA AssetsInit == Init => AssetsInv
<1> SUFFICES ASSUME Init PROVE AssetsInv
  OBVIOUS
<1>1. /\ publish = [p \in Publishers |-> Unstarted] /\ mirror = [m \in Mirrors |-> Resting]
      /\ runs = 0 /\ overlapped = {} /\ manifest = [b \in Buckets |-> Empty]
  BY DEF Init
<1>2. /\ object \in Objects
      /\ \A b \in Buckets, f \in Files : object[b][f] \in {"foreign", "absent"}
  BY DEF Init, Objects, ObjectStates
<1>3. TypeOK
  BY <1>1, <1>2, RestingStates, ConstantFacts, TypeFacts
<1>4. /\ Resting.at = "idle" /\ Resting.copying = {} /\ Unstarted.at = "idle"
      /\ \A f \in Files : Resting.files[f] = "absent"
      /\ ~Mirrored(Resting) /\ ~Publishes(Unstarted)
  BY DEF Resting, Unstarted, Mirrored, Publishes
<1>5. Alone
  BY <1>1, <1>4, RunningMeans DEF Alone
<1>6. \A b \in Buckets, f \in Files : ~Pending(b, f)
  BY <1>1, <1>4 DEF Pending
<1>7. ConflictsStay /\ NothingPlain
  BY <1>1, <1>2, <1>4, <1>6 DEF ConflictsStay, NothingPlain
<1>8. Resolves(object, manifest)
  BY <1>1 DEF Resolves, Empty
<1> QED
  BY <1>1, <1>3, <1>5, <1>7, <1>8, RestingStates, ByRun DEF RunsHold

LEMMA AssetsUnchanged ==
  ASSUME AssetsInv, UNCHANGED vars
  PROVE  AssetsInv'
<1>1. UNCHANGED <<object, manifest, publish, mirror, runs, overlapped>>
  BY DEF vars
<1>2. TypeOK'
  BY <1>1 DEF AssetsInv, TypeOK
<1>3. Running' = Running /\ \A b, f : Pending(b, f)' = Pending(b, f) /\ Undisturbed' = Undisturbed
  BY <1>1 DEF Running, Publishing, Mirroring, Pending, Undisturbed
<1>4. TypeOK /\ RunsHold
  BY ByRun DEF AssetsInv
<1>5. Alone' /\ ConflictsStay' /\ NothingPlain'
  BY <1>1, <1>3, <1>4 DEF RunsHold, Alone, ConflictsStay, NothingPlain
<1>6. RunsHold'
  BY <1>1, <1>3, <1>4, <1>5 DEF RunsHold
<1> QED
  BY <1>2, <1>6, ByRunNext

LEMMA AssetsStep == AssetsInv /\ [Next]_vars => AssetsInv'
<1> SUFFICES ASSUME AssetsInv, [Next]_vars PROVE AssetsInv'
  OBVIOUS
<1>1. ASSUME NEW p \in Publishers, Publish(p) PROVE AssetsInv'
  BY <1>1, BeginPublishKeeps, HeadKeeps, PutKeeps, VerifyKeeps, WriteManifestKeeps,
     PublishStopsKeeps DEF Publish
<1>2. ASSUME NEW m \in Mirrors, Mirror(m) PROVE AssetsInv'
  BY <1>2, BeginMirrorKeeps, ListObjectsKeeps, ReadManifestKeeps, MergeKeeps, RefuseMergeKeeps,
     CompareKeeps, CopyKeeps, PublishMergedKeeps, MirrorStopsKeeps DEF Mirror
<1> QED
  BY <1>1, <1>2, AssetsUnchanged DEF Next

(* The invariant holds in every state, however runs overlap and die.       *)
THEOREM AssetsInvariance == Spec => []AssetsInv
  BY AssetsInit, AssetsStep, PTL DEF Spec

(* An alias in a bucket's manifest always leads to its file.               *)
THEOREM AliasesAlwaysResolve == Spec => []ManifestResolves
<1>1. AssetsInv => ManifestResolves
  BY DEF AssetsInv
<1> QED
  BY <1>1, AssetsInvariance, PTL

-----------------------------------------------------------------------------
(* Only Put and Copy touch the objects, and both are calm.                 *)
LEMMA BytesKept ==
  ASSUME AssetsInv, Undisturbed, [Next]_vars,
         NEW b \in Buckets, NEW f \in Files, object[b][f] # "absent"
  PROVE  Bytes(object'[b][f]) = Bytes(object[b][f])
<1>1. CASE object' = object
  BY <1>1
<1>2. CASE \E p \in Publishers : Put(p)
  BY <1>2, PutIsCalm DEF Calm
<1>3. CASE \E m \in Mirrors, c \in Buckets, g \in Files : Copy(m, c, g)
  BY <1>3, CopyIsCalm DEF Calm
<1>4. \/ object' = object
      \/ \E p \in Publishers : Put(p)
      \/ \E m \in Mirrors, c \in Buckets, g \in Files : Copy(m, c, g)
  <2>1. ASSUME NEW p \in Publishers, Publish(p) PROVE Put(p) \/ object' = object
    BY <2>1 DEF Publish, BeginPublish, Head, Verify, WriteManifest, PublishStops
  <2>2. ASSUME NEW m \in Mirrors, Mirror(m)
        PROVE  object' = object \/ \E c \in Buckets, g \in Files : Copy(m, c, g)
    BY <2>2 DEF Mirror, BeginMirror, ListObjects, ReadManifest, Merge, RefuseMerge, Compare,
                PublishMerged, MirrorStops
  <2> QED
    BY <2>1, <2>2 DEF Next, vars
<1> QED
  BY <1>1, <1>2, <1>3, <1>4

(* What is stored under a key is never replaced by other bytes.            *)
THEOREM StoredBytesStay == Spec => NothingOverwritten
<1>1. AssetsInv /\ [Next]_vars =>
        [Undisturbed => \A b \in Buckets, f \in Files :
           object[b][f] # "absent" => Bytes(object'[b][f]) = Bytes(object[b][f])]_vars
  BY BytesKept
<1> QED
  BY <1>1, AssetsInvariance, PTL DEF Spec, NothingOverwritten

-----------------------------------------------------------------------------
(* The steps that the other properties are about.                          *)
LEMMA PublisherEnds ==
  ASSUME AssetsInv, [Next]_vars, NEW p \in Publishers,
         publish[p].at # publish'[p].at
  PROVE  Publish(p)
<1>1. publish' # publish
  OBVIOUS
<1>2. publish \in [Publishers -> PublishStates]
  BY SharedFacts
<1>3. ASSUME NEW m \in Mirrors, Mirror(m) PROVE publish' = publish
  BY <1>3 DEF Mirror, BeginMirror, ListObjects, ReadManifest, Merge, RefuseMerge, Compare, Copy,
              PublishMerged, MirrorStops
<1>4. ASSUME NEW q \in Publishers, q # p, Publish(q) PROVE publish'[p] = publish[p]
  BY <1>2, <1>4 DEF Publish, BeginPublish, Head, Put, Verify, WriteManifest, PublishStops
<1> QED
  BY <1>1, <1>3, <1>4 DEF Next, vars

LEMMA MirrorGoesOn ==
  ASSUME AssetsInv, [Next]_vars, NEW m \in Mirrors, mirror'[m] # mirror[m]
  PROVE  Mirror(m)
<1>1. mirror' # mirror
  OBVIOUS
<1>2. mirror \in [Mirrors -> MirrorStates]
  BY SharedFacts
<1>3. ASSUME NEW p \in Publishers, Publish(p) PROVE mirror' = mirror
  BY <1>3 DEF Publish, BeginPublish, Head, Put, Verify, WriteManifest, PublishStops
<1>4. ASSUME NEW n \in Mirrors, n # m, Mirror(n) PROVE mirror'[m] = mirror[m]
  BY <1>2, <1>4 DEF Mirror, BeginMirror, ListObjects, ReadManifest, Merge, RefuseMerge, Compare,
                    Copy, PublishMerged, MirrorStops
<1> QED
  BY <1>1, <1>3, <1>4 DEF Next, vars

(* An upsert that no other run overlapped keeps the aliases that it does   *)
(* not publish: the manifest it writes starts from the one that is there.  *)
LEMMA UpsertKeepsAlias ==
  ASSUME AssetsInv, [Next]_vars, NEW p \in Publishers \ overlapped,
         publish[p].kind = "upsert", publish[p].at = "head", publish'[p].at = "done",
         NEW a \in Aliases, publish[p].source[a] = NoFile
  PROVE  manifest'[publish[p].bucket][a] = manifest[publish[p].bucket][a]
<1> DEFINE o == publish[p]
<1>1. /\ o \in PublishStates /\ PublishesAlone(o, object, manifest)
      /\ publish \in [Publishers -> PublishStates] /\ manifest \in [Buckets -> Manifests]
  BY PublisherFacts, SharedFacts
<1>2. Publish(p)
  BY PublisherEnds
<1>3. WriteManifest(p)
  <2>1. ASSUME NEW kind \in {"sync", "upsert"}, NEW b \in Buckets, NEW source \in Manifests,
               NEW type \in Declared, BeginPublish(p, kind, b, source, type)
        PROVE  FALSE
    BY <1>1, <2>1 DEF BeginPublish, Unstarted
  <2>2. ASSUME NEW item \in Items, Head(p, item) PROVE FALSE
    BY <1>1, <2>2 DEF Head, PublishStates
  <2>3. ~Put(p) /\ ~Verify(p)
    BY DEF Put, Verify
  <2>4. ~PublishStops(p)
    BY <1>1 DEF PublishStops, Unstarted
  <2> QED
    BY <1>2, <2>1, <2>2, <2>3, <2>4 DEF Publish
<1>4. o.bucket \in Buckets /\ o.seen = manifest[o.bucket]
  BY <1>1 DEF PublishStates, PublishesAlone, Publishes
<1>5. manifest'[o.bucket] = NewManifest(o)
  BY <1>1, <1>3, <1>4 DEF WriteManifest
<1>6. NewManifest(o)[a] = o.seen[a]
  BY DEF NewManifest
<1> QED
  BY <1>4, <1>5, <1>6

(* An upsert that was alone merges into the manifest as it still is:       *)
(* NewManifest keeps the aliases without a file of its own.                *)
THEOREM UpsertsPreserve == Spec => UpsertPreserves
<1>1. AssetsInv /\ [Next]_vars =>
        [\A p \in Publishers \ overlapped :
           publish[p].kind = "upsert" /\ publish[p].at = "head" /\ publish'[p].at = "done"
             => \A a \in Aliases : publish[p].source[a] = NoFile =>
                  manifest'[publish[p].bucket][a] = manifest[publish[p].bucket][a]]_vars
  BY UpsertKeepsAlias
<1> QED
  BY <1>1, AssetsInvariance, PTL DEF Spec, UpsertPreserves

(* A mirror that no other run overlapped has read every alias that is      *)
(* there when it publishes.                                                *)
LEMMA MirrorKeepsAlias ==
  ASSUME AssetsInv, [Next]_vars, NEW m \in Mirrors \ overlapped, NEW b \in Buckets,
         b \in mirror[m].unpublished, b \notin mirror'[m].unpublished,
         NEW a \in Aliases, manifest[b][a] # NoFile
  PROVE  manifest'[b][a] = manifest[b][a]
<1> DEFINE o == mirror[m]
<1>1. /\ MirrorsAlone(o, object, manifest)
      /\ mirror \in [Mirrors -> MirrorStates] /\ manifest \in [Buckets -> Manifests]
  BY MirrorFacts, SharedFacts
<1>2. Mirror(m)
  BY MirrorGoesOn
<1>3. o.merged[a] = manifest[b][a]
  BY <1>1 DEF MirrorsAlone, Mirrored, Keeps
<1>4. CASE manifest' = manifest
  BY <1>4
<1>5. CASE \E c \in Buckets : PublishMerged(m, c)
  BY <1>1, <1>3, <1>5 DEF PublishMerged
<1>6. manifest' = manifest \/ \E c \in Buckets : PublishMerged(m, c)
  BY <1>2 DEF Mirror, BeginMirror, ListObjects, ReadManifest, Merge, RefuseMerge, Compare, Copy,
              MirrorStops
<1> QED
  BY <1>4, <1>5, <1>6

(* A mirror that was alone publishes every alias that a target has, with   *)
(* the file it leads to there.                                             *)
THEOREM MirrorsKeepAliases == Spec => MirrorKeepsAliases
<1>1. AssetsInv /\ [Next]_vars =>
        [\A m \in Mirrors \ overlapped, b \in Buckets :
           b \in mirror[m].unpublished /\ b \notin mirror'[m].unpublished
             => \A a \in Aliases : manifest[b][a] # NoFile =>
                  manifest'[b][a] = manifest[b][a]]_vars
  BY MirrorKeepsAlias
<1> QED
  BY <1>1, AssetsInvariance, PTL DEF Spec, MirrorKeepsAliases

(* It is done when the last target is, and then each has everything.       *)
LEMMA MirrorIsDone ==
  ASSUME AssetsInv, [Next]_vars, NEW m \in Mirrors \ overlapped,
         mirror[m].at # "done", mirror'[m].at = "done",
         NEW b \in Buckets
  PROVE  /\ manifest'[b] = mirror[m].merged
         /\ \A f \in Files : Bytes(object'[b][f]) = Bytes(mirror[m].files[f])
<1> DEFINE o == mirror[m]
<1>1. /\ o \in MirrorStates /\ MirrorsAlone(o, object, manifest)
      /\ mirror \in [Mirrors -> MirrorStates] /\ manifest \in [Buckets -> Manifests]
  BY MirrorFacts, SharedFacts
<1>2. Mirror(m)
  BY MirrorGoesOn
<1>3. PICK c \in Buckets : PublishMerged(m, c)
  <2>1. ~BeginMirror(m) /\ ~MirrorStops(m)
    <3>1. Resting.at = "idle"
          /\ [Resting EXCEPT !.at = "list", !.unlisted = Buckets, !.unread = Buckets].at = "list"
      BY DEF Resting
    <3>2. BeginMirror(m) => mirror'[m] = [Resting EXCEPT
            !.at = "list", !.unlisted = Buckets, !.unread = Buckets]
      BY <1>1 DEF BeginMirror
    <3>3. MirrorStops(m) => mirror'[m] = Resting
      BY <1>1 DEF MirrorStops
    <3> QED
      BY <3>1, <3>2, <3>3
  <2>2. ~Merge(m) /\ ~RefuseMerge(m)
    <3>1. ASSUME Merge(m) PROVE mirror'[m].at = "copy"
      <4> DEFINE k == [Resting EXCEPT
                         !.at = "copy", !.merged = Union(o), !.unpublished = Buckets,
                         !.files = [f \in Files |-> Canonical(o, f)],
                         !.todo = Buckets \X {f \in Files : Canonical(o, f) # "absent"}]
      <4>1. mirror' = [mirror EXCEPT ![m] = k]
        BY <1>1, <3>1 DEF Merge
      <4>2. k.at = "copy"
        BY DEF Resting
      <4> HIDE DEF k
      <4> QED
        BY <1>1, <4>1, <4>2
    <3>2. RefuseMerge(m) => mirror'[m] = [Resting EXCEPT !.at = "refused"]
      BY <1>1 DEF RefuseMerge
    <3> QED
      BY <3>1, <3>2 DEF Resting
  <2>3. ASSUME NEW c \in Buckets PROVE ~ListObjects(m, c) /\ ~ReadManifest(m, c)
    BY <1>1 DEF ListObjects, ReadManifest, MirrorStates
  <2>4. ASSUME NEW c \in Buckets, NEW f \in Files PROVE ~Compare(m, c, f) /\ ~Copy(m, c, f)
    <3>1. ASSUME Compare(m, c, f) PROVE mirror'[m].at \in {o.at, "refused"}
      <4> DEFINE rest == [o EXCEPT !.todo = @ \ {<<c, f>>}]
      <4>1. rest \in MirrorStates /\ rest.at = o.at
        BY <1>1 DEF MirrorStates
      <4>2. mirror'[m] \in {rest, [rest EXCEPT !.copying = rest.copying \cup {<<c, f>>}],
                            [rest EXCEPT !.at = "refused", !.unpublished = rest.unpublished \ {c}]}
        BY <1>1, <3>1 DEF Compare
      <4> HIDE DEF rest
      <4> QED
        BY <4>1, <4>2 DEF MirrorStates
    <3>2. Copy(m, c, f) => mirror'[m].at = o.at
      BY <1>1 DEF Copy, MirrorStates
    <3> QED
      BY <3>1, <3>2
  <2> QED
    BY <1>2, <2>1, <2>2, <2>3, <2>4 DEF Mirror
<1>4. o.at = "copy" /\ o.unpublished = {c}
  <2>1. [o EXCEPT !.unpublished = @ \ {c}].at = o.at
    BY <1>1 DEF MirrorStates
  <2> QED
    BY <1>1, <1>3, <2>1 DEF PublishMerged, TargetDone
<1>5. /\ \A f \in Files : ~Missing(o, c, f)
      /\ manifest' = [manifest EXCEPT ![c] = o.merged] /\ object' = object
  BY <1>3 DEF PublishMerged, Missing
<1>6. Finished(o, object, manifest)
  BY <1>1, <1>4 DEF MirrorsAlone, Mirrored
<1>7. \A d \in Buckets : d # c => manifest[d] = o.merged /\ \A f \in Files : ~Missing(o, d, f)
  BY <1>4, <1>6 DEF Finished
<1>8. manifest'[b] = o.merged
  BY <1>1, <1>5, <1>7
<1>9. \A f \in Files : Bytes(object[b][f]) = Bytes(o.files[f])
  BY <1>4, <1>5, <1>6, <1>7 DEF Finished
<1> QED
  BY <1>5, <1>8, <1>9

(* When a mirror that was alone succeeds, the targets are the same: each   *)
(* has the merged manifest and every file that any of them had.            *)
THEOREM MirrorsMerge == Spec => MirrorMerges
<1>1. AssetsInv /\ [Next]_vars =>
        [\A m \in Mirrors \ overlapped : mirror[m].at # "done" /\ mirror'[m].at = "done" =>
           \A b, c \in Buckets : /\ manifest'[b] = manifest'[c]
                                 /\ \A f \in Files : Bytes(object'[b][f]) = Bytes(object'[c][f])]_vars
  BY MirrorIsDone
<1> QED
  BY <1>1, AssetsInvariance, PTL DEF Spec, MirrorMerges

(* Where listings have content types and metadata, or heads are read for   *)
(* them, a publisher refuses nothing for what a mirror has made of it.     *)
LEMMA RefusedOnConflict ==
  ASSUME AssetsInv, ~ListsPlain, [Next]_vars, NEW p \in Publishers,
         publish[p].at = "verify", publish'[p].at = "refused"
  PROVE  At(p) \in {"foreign"} \cup (ContentTypes \ {publish[p].item[2]})
<1> DEFINE o == publish[p]
<1>1. /\ o \in PublishStates /\ AtFile(o, object)
      /\ publish \in [Publishers -> PublishStates] /\ object \in Objects /\ NothingPlain
  BY PublisherFacts, SharedFacts
<1>2. Publish(p)
  BY PublisherEnds
<1>3. o.bucket \in Buckets /\ o.item[1] \in Files /\ At(p) # "absent"
  BY <1>1 DEF PublishStates, AtFile, Items, At
<1>4. At(p) # o.item[2]
  <2>1. ASSUME NEW kind \in {"sync", "upsert"}, NEW b \in Buckets, NEW source \in Manifests,
               NEW type \in Declared, BeginPublish(p, kind, b, source, type)
        PROVE  FALSE
    BY <1>1, <2>1 DEF BeginPublish, Unstarted
  <2>2. ASSUME NEW item \in Items, Head(p, item) PROVE FALSE
    BY <2>2 DEF Head
  <2>3. ~Put(p) /\ ~WriteManifest(p)
    BY DEF Put, WriteManifest
  <2>4. ~PublishStops(p)
    BY <1>1 DEF PublishStops, Unstarted
  <2>5. Verify(p)
    BY <1>2, <2>1, <2>2, <2>3, <2>4 DEF Publish
  <2>6. [o EXCEPT !.at = "head", !.item = <<>>, !.todo = @ \ {o.item}].at = "head"
    BY <1>1 DEF PublishStates
  <2> QED
    BY <1>1, <2>5, <2>6 DEF Verify
<1>5. At(p) \in ObjectStates /\ At(p) # "plain"
  BY <1>1, <1>3 DEF Objects, NothingPlain, At
<1> QED
  BY <1>3, <1>4, <1>5 DEF ObjectStates

(* Where a mirror copies content types and metadata as well, a publisher   *)
(* is refused by nothing but other bytes under its key or a file that was  *)
(* declared to be of another type; with the bundled listings, which lack   *)
(* them, it is not so (writeGlobalAssetEntries).                           *)
THEOREM RefusalsAreConflicts ==
  ASSUME ~ListsPlain
  PROVE  Spec => RefusedOnlyOnConflict
<1>1. AssetsInv /\ [Next]_vars =>
        [\A p \in Publishers :
           publish[p].at = "verify" /\ publish'[p].at = "refused" =>
             At(p) \in {"foreign"} \cup (ContentTypes \ {publish[p].item[2]})]_vars
  BY RefusedOnConflict
<1> QED
  BY <1>1, AssetsInvariance, PTL DEF Spec, RefusedOnlyOnConflict

=============================================================================
