--------------------------- MODULE MCTenantStore ---------------------------
(* Constant values for model checking TenantStore. *)
EXTENDS TenantStore, TLC

CONSTANTS w1, w2, t1, t2, p1, c1, c2, u1

TwoWorkers == {w1, w2}
OneTenant == {t1}
TwoTenants == {t1, t2}
OnePath == {p1}
OneContent == {c1}
TwoContents == {c1, c2}
OneUpload == {u1}

MCSize == c1 :> 1 @@ c2 :> 2
OneSize == c1 :> 1

ClaimedOne == {1}

AllOps == {"create_file", "delete_file", "get_file", "create_upload",
           "replace_chunk", "finalize_upload"}
NoDelete == AllOps \ {"delete_file"}
AllWrites == AllOps \ {"get_file"}
PutDelete == {"create_file", "delete_file"}

AllButFill == FailingStep \ {"fill_blob"}
NoSteps == {}

Workers == Permutations(Worker)
=============================================================================
