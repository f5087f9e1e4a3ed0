------------------------------ MODULE MCFiles ------------------------------
(* Instances of Files for TLC. *)
EXTENDS Files

\* States that differ only in what the image holds are one: fds, counts and
\* pipes depend on no more of it than on which tasks have a program.
FdView ==
  <<ring, current_task, next_pid, state, ppid, exit_code,
    {t \in Pid : prog[t] = NULL}, fileVars>>
============================================================================
