------------------------- MODULE MC_SessionManager --------------------------
(* Small instances of SessionManager for TLC. *)
EXTENDS SessionManager, TLC

\* Every database statement of the manager.
DbSteps ==
  {"n_row", "n_event", "s_read", "s_mark", "s_install", "r_read", "r_mark", "r_event",
   "a_read", "a_record", "a_reactivate", "d_read", "d_mark", "d_event", "d_remove", "d_row",
   "c_read", "c_mark", "c_event", "c_remove", "f_read", "f_mark", "f_event"}

\* ... and the socket the acknowledgement is sent on.
AllSteps == DbSteps \cup {"a_register"}

NoSteps == {}
AckOnly == {"a_register"}

\* The steps of sockets and TTL tasks whose failures end differently.
ClientSteps == {"a_record", "a_reactivate", "a_register", "d_read", "d_event", "d_row", "c_mark"}

Interchangeable == Permutations(Sockets) \cup Permutations(Requests) \cup Permutations(Timers)
=============================================================================
