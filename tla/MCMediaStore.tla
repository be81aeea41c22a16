---------------------------- MODULE MCMediaStore ----------------------------
(* The media store with one upload.  Uploads share nothing but the cleanup   *)
(* task and the receiver: their files have fresh names.                      *)
EXTENDS MediaStore

CONSTANT u1

OneUpload == {u1}
=============================================================================
