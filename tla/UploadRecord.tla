---------------------------- MODULE UploadRecord ----------------------------
(***************************************************************************)
(* The journal's evidence of one upload, of an output (journal/uploads.rs)  *)
(* or of a log segment (journal/logs.rs).  Each field is written before the *)
(* call that depends on it and never replaced: the content declared (its    *)
(* digest), the server's upload, the object version to finalize and the     *)
(* artifact it became.  0 stands for none.                                  *)
(***************************************************************************)
EXTENDS JournalRecord

Undeclared == [content |-> 0, upload |-> 0, version |-> 0, artifact |-> 0]

(* validate_outputs, validate_logs: evidence never runs ahead of itself.    *)
ValidUpload(u) ==
    /\ u.upload # 0 => u.content # 0
    /\ u.version # 0 => u.upload # 0
    /\ u.artifact # 0 => u.version # 0

(* A name is declared once, with one content; not after the completion.     *)
DeclareUpload(u, content, sealed) ==
    IF u.content # 0 THEN Again(u, u.content = content)
    ELSE IF sealed THEN Refused(u)
    ELSE Done([u EXCEPT !.content = content])

RecordGrant(u, upload, sealed) ==
    IF u.content = 0 THEN Refused(u)
    ELSE IF u.upload # 0 THEN Again(u, u.upload = upload)
    ELSE IF sealed THEN Refused(u)
    ELSE Done([u EXCEPT !.upload = upload])

(* The version observed by the PUT is saved before it is verified.          *)
PinVersion(u, version, sealed) ==
    IF u.version # 0 THEN Again(u, u.version = version)
    ELSE IF sealed \/ u.upload = 0 THEN Refused(u)
    ELSE Done([u EXCEPT !.version = version])

RecordArtifact(u, version, artifact) ==
    IF u.version = 0 \/ u.version # version THEN Refused(u)
    ELSE IF u.artifact # 0 THEN Again(u, u.artifact = artifact)
    ELSE Done([u EXCEPT !.artifact = artifact])
=============================================================================
