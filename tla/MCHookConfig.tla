---------------------------- MODULE MCHookConfig ----------------------------
(* Small instances of HookConfig for TLC. *)
EXTENDS HookConfig

CommandHook ==
    [type |-> "command", timeout |-> 0, retries |-> 0, backoff |-> 0,
     command |-> "program", http |-> "none"]

HttpHook == [CommandHook EXCEPT !.type = "http", !.command = "none", !.http = "loopback"]

\* Every way to be bad, and numbers at their defaults and beside them.
GoodAndBad ==
    {CommandHook, HttpHook}
    \cup {[CommandHook EXCEPT !.retries = n] : n \in {-1, 1, 2}}
    \cup {[HttpHook EXCEPT !.timeout = n] : n \in {-1, 1}}
    \cup {[HttpHook EXCEPT !.backoff = n] : n \in {-1, 2}}
    \cup {[CommandHook EXCEPT !.command = s] : s \in {"none", "blank"}}
    \cup {[HttpHook EXCEPT !.http = s] : s \in {"none", "blank", "remote"}}
    \cup {[CommandHook EXCEPT !.type = "other"], [CommandHook EXCEPT !.http = "loopback"],
          [HttpHook EXCEPT !.command = "program"]}

=============================================================================
