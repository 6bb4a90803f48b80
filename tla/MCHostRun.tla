------------------------------ MODULE MCHostRun ------------------------------
(* Model checking of module HostRun: the jobs.                             *)
EXTENDS HostRun

S(mode, content, retries, cont) ==
  [mode |-> mode, content |-> content, retries |-> retries, cont |-> cont,
   sudo |-> FALSE]

\* Every mode, with what surrounds it in a job: retries, continue_on_error
\* before a step that needs the connection, uploads, two reconnects.
MCJobs ==
  {<<S("plain", FALSE, 1, TRUE),
     [S("plain", TRUE, 1, FALSE) EXCEPT !.sudo = TRUE]>>,
   <<S("reboot", FALSE, 1, TRUE), S("plain", FALSE, 0, FALSE)>>,
   <<S("disconnect", FALSE, 1, TRUE), S("reboot", FALSE, 0, FALSE)>>,
   <<S("disconnect", TRUE, 0, FALSE), S("forget", FALSE, 1, FALSE)>>}

MCUploadJobs == {<<S("disconnect", TRUE, 0, FALSE)>>}

=============================================================================
