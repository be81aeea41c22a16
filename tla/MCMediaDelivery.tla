-------------------------- MODULE MCMediaDelivery --------------------------
(* One upload of up to two files, and another action before or after it.    *)
EXTENDS MediaDelivery

CONSTANT u1

MCUploads == {u1}
=============================================================================
