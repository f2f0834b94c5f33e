--------------------------- MODULE MCUploadClient ---------------------------
EXTENDS UploadClient

CONSTANTS s1, s2, s3, s4, s5, c1, c2
=============================================================================
