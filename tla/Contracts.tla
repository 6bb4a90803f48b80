------------------------------ MODULE Contracts ------------------------------
(***************************************************************************)
(* What one part of the system expects of another, where they are modelled *)
(* by different modules: of one remote command (asked by HostRun, answered *)
(* by Exec), of one dial (asked by HostRun through Dialing, answered by    *)
(* Connect) and of one host's goroutine (asked by Runner, answered by      *)
(* HostRun).  The caller's module takes any of the outcomes given here in  *)
(* one step; the callee's module is proved to have no other.               *)
(*                                                                         *)
(* Of the failure categories, CONNECTION_TIMEOUT stands here for all that  *)
(* Retryable accepts, AUTH_FAILED for the authentication and host key      *)
(* categories, DNS_FAILURE for the other lasting ones.                     *)
(***************************************************************************)

\* What runHost leaves in h.Status.
HostStatuses(cancelled) ==
  {"SUCCESS", "FAILED"} \cup (IF cancelled THEN {"CANCELLED"} ELSE {})

\* Everything Exec can give on a connection that is usable (open, and the peer
\* answers) or not.  ran: the command was executed on the remote host; conn: Exec
\* left the connection as it was, found it lost, or closed it.  Opening the
\* channel can fail or take too long, with or without the command having been
\* started; then started is FALSE, and the timeout and Ctrl+C close the
\* connection.  A started command ends with the expected exit code or another
\* one, without one, or by timeout or Ctrl+C; a connection lost meanwhile shows
\* up as a missing exit code or as SESSION_FAILED, which also is what a command
\* gives that ends well without having read all its input.
ExecResults(usable, cancelled) ==
  LET fatal == {"COMMAND_TIMEOUT"} \cup (IF cancelled THEN {"CANCELLED"} ELSE {})
  IN [cat : {"SESSION_FAILED"}, exit : {"none"}, started : {FALSE}, ran : {FALSE},
      conn : {"kept"}]
     \cup [cat : fatal, exit : {"none"}, started : {FALSE}, ran : {FALSE},
           conn : {"closed"}]
     \cup IF ~usable THEN {} ELSE
          [cat : {"SESSION_FAILED"}, exit : {"none"}, started : {FALSE},
           ran : {TRUE}, conn : {"lost"}]
          \cup [cat : fatal, exit : {"none"}, started : {FALSE}, ran : {TRUE},
                conn : {"closed"}]
          \cup [cat : {"nil"}, exit : {"ok", "bad"}, started : {TRUE}, ran : {TRUE},
                conn : {"kept"}]
          \cup [cat : {"nil", "SESSION_FAILED"}, exit : {"none"}, started : {TRUE},
                ran : {TRUE}, conn : {"kept", "lost"}]
          \cup [cat : fatal, exit : {"none"}, started : {TRUE}, ran : {TRUE},
                conn : {"kept"}]

\* A ctx that ends while another host dials the bastion gives a bare error, and
\* AsFailure makes it INTERNAL_ERROR.
Unclassified(cancelled, expired) ==
  IF cancelled \/ expired THEN {"INTERNAL_ERROR"} ELSE {}

\* What Dial can fail with, directly or through a bastion, whether or not the host
\* itself is up, with a ctx that was cancelled or whose deadline has passed.  A
\* refused login or host key may come even then: another host's, from the
\* bastion's dial, or a known_hosts file that cannot be read.
DialFailures(cancelled, expired) ==
  {"CONNECTION_TIMEOUT", "DNS_FAILURE", "AUTH_FAILED"}
  \cup (IF cancelled THEN {"CANCELLED"} ELSE {})
  \cup Unclassified(cancelled, expired)

\* Category.Retryable, of the categories a dial has.
Retryable(cat) == cat = "CONNECTION_TIMEOUT"

=============================================================================
