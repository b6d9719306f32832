------------------------------- MODULE MCJobs -------------------------------
(* Small instances of Jobs.  UFM reports every state in lower case or with *)
(* a capital letter, the spellings the tests of ufmclient use, and a       *)
(* failure also with a word nobody foresaw.                                *)
EXTENDS Jobs, TLC

MCWords == [running   |-> {"running", "Running"},
            completed |-> {"completed", "Completed"},
            failed    |-> {"failed", "Failed", "FAILED"},
            aborted   |-> {"aborted", "Aborted"}]

(* One spelling of each, where two requests interleave with the waiter.    *)
MCFewWords == [running   |-> {"running"}, completed |-> {"Completed"},
               failed    |-> {"failed", "FAILED"}, aborted |-> {"Aborted"}]

MCSymmetry == Permutations(JobIds) \cup Permutations(Callers)
=============================================================================
