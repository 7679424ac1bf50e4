----------------------------- MODULE MCAttempt -----------------------------
\* A small instance of Attempt for TLC: limits of a few units, and one object for
\* each side of each limit.
EXTENDS Attempt

Object(size, type, image, pixels, edge, face) ==
  [size |-> size, contentType |-> type, image |-> image, pixels |-> pixels,
   edge |-> edge, face |-> face]

SmallObjects ==
  { Object(2, "image/jpeg", TRUE, 4, 3, TRUE),    \* at the upload limit, resized
    Object(1, "", TRUE, 1, 1, FALSE),             \* fits the box, no face
    Object(1, "image/png", TRUE, 5, 3, TRUE),     \* too many pixels
    Object(1, "application/octet-stream", FALSE, 1, 1, FALSE),
    Object(0, "image/jpeg", FALSE, 0, 0, FALSE),  \* empty
    Object(3, "text/plain", TRUE, 4, 3, TRUE),    \* at the decoder's limit
    Object(4, "image/jpeg", TRUE, 4, 3, TRUE) }   \* beyond it

SmallUploadRequests ==
  [contentType : {"image/jpeg", "text/plain"}, size : {0, 2, 3}]

SmallUploadIDs == {"issued", "other_upload", "foreign", "undecodable"}
=============================================================================
