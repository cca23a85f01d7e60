-------------------------------- MODULE MCDriver ------------------------------
(***************************************************************************)
(* Programs for TLC: which calls each caller makes, in any order and as    *)
(* often as it likes.                                                      *)
(***************************************************************************)
EXTENDS DriverRaces

Of(c, f, t, k) == [caller |-> c, fn |-> f, arg |-> t, hart |-> k]

\* The 64-bit value with these words.
Words(h, l) == [w \in Halves |-> IF w = 1 THEN h ELSE l]

\* A main program that arms hart 0 relative to now, beside another hart that
\* arms its own timer and reads the time both ways.
Cooperating ==
  {Of("main", "mtimer_set_raw_time_cmp", d, 0) : d \in {Words(0, 2), Words(1, 1)}}
  \cup {Of("other", "clint_set_timercmp", Words(0, 1), 1),
        Of("other", "mtimer_get_raw_time", Zeros, 0),
        Of("other", "clint_get_timer", Zeros, 0)}

\* A main program that replaces hart 0's deadline beside another hart that sets MTIME,
\* sends itself software interrupts and reads the deadline that is being replaced.
TimerSet ==
  {Of("main", "clint_set_timercmp", d, 0) : d \in {Words(0, 1), Words(1, 0), Words(1, 2)}}
  \cup {Of("main", "clint_get_msip", Zeros, 0)}
  \cup {Of("other", "clint_set_timer", d, 0) : d \in {Words(0, 2), Words(1, 0)}}
  \cup {Of("other", "clint_set_msip", Words(0, v), 1) : v \in {1, 2}}
  \cup {Of("other", "clint_get_timer", Zeros, 0), Of("other", "clint_get_timercmp", Zeros, 0)}

OneReader == {Of("main", "clint_get_timer", Zeros, 0)}
===============================================================================
