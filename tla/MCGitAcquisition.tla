--------------------------- MODULE MCGitAcquisition ---------------------------
(***************************************************************************)
(* Two calls on one repository ID, for two remotes and two refs; the       *)
(* second remote lacks the ref dev; the commit bad holds a symbolic link.  *)
(***************************************************************************)
EXTENDS GitAcquisition

CONSTANTS c1, c2, r1, r2, main, dev, a, b, bad

MCCalls == {c1, c2}
MCRemotes == {r1, r2}
MCRefs == {main, dev}
MCCommits == {a, b, bad}
MCUnacceptable == {bad}

MCInitialHeads ==
    {[r \in MCRemotes |-> [f \in MCRefs |->
        IF f = main THEN a ELSE IF r = r1 THEN b ELSE NoCommit]]}
===============================================================================
