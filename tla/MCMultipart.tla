---------------------------- MODULE MCMultipart ----------------------------
(* Two request handlers and two uploads at the store over the parts of one  *)
(* output.                                                                  *)
EXTENDS MultipartUpload
=============================================================================
