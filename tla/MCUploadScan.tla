---------------------------- MODULE MCUploadScan ----------------------------
(* Small instances of UploadScan: every job is an uploaded artifact.       *)
EXTENDS UploadScan

CONSTANTS j1, j2, w1, w2, org, inst

TwoEach == [lane \in Lanes |-> 2]
AllUploads == [j \in Jobs |-> "upload"]
OnePayer == [j \in Jobs |-> org]
Linked == [j \in Jobs |-> inst]
=============================================================================
