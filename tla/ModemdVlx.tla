----------------------------- MODULE ModemdVlx ------------------------------
(***************************************************************************)
(* modemd's supervision of a modem that runs as a guest of the hypervisor  *)
(* (apps/modemd/modemd_vlx.c).  detect_vlx_modem reads the modem's assert  *)
(* pipe, tells the clients, and reloads a modem that has gone down;        *)
(* vlx_reset_thread writes the reset command to an asserted modem.  They   *)
(* meet on two condition variables that are waited for without a           *)
(* predicate, so a signal reaches only a thread that already waits.        *)
(* Reads that fail or hold no "Assert" are retried and change nothing; the *)
(* services stopped and started around a reload are left out.              *)
(***************************************************************************)
EXTENDS Naturals

CONSTANTS Environments, \* the values of env
          MaxAsserts, MaxDowns,     \* bounds on asserts, and on modems that go down
          MaxRetry                  \* by themselves; writes retried (5 in the code)

VARIABLES modem,        \* "run", "assert", "ending" (the pipe has ended) or "down" (and
                        \* the status is "not started")
          msg,          \* "Assert" is in the pipe
          is_assert, d, \* detect_vlx_modem
          r, retry_times,   \* vlx_reset_thread
          told,         \* what the clients were told last
          asserts, downs,
          env           \* never changes: what may happen,
                        \* faults: "open", opening a pipe may fail; "spurious", waits may
                        \* return unsignalled; "lag", the pipe may end before the guest's
                        \* status says "not started"; "slow", the reset thread may need
                        \* longer than a sleep of the detector to get to its next wait;
                        \* "dies", a modem that has asserted may go down by itself,
                        \* resets: the values persist.sys.sprd.modemreset may have
vars == <<modem, msg, is_assert, d, r, retry_times, told, asserts, downs, env>>

Init ==
    /\ modem = "run" /\ msg = FALSE /\ is_assert = FALSE /\ d = "read"
    /\ r = "start" /\ retry_times = 0 /\ told = "alive" /\ asserts = 0 /\ downs = 0
    /\ env \in Environments

Ended == modem \in {"ending", "down"}
\* The states a modem that stops may be seen in at once.
Stops == IF "lag" \in env.faults THEN {"ending", "down"} ELSE {"down"}
OpenResults == IF "open" \in env.faults THEN BOOLEAN ELSE {TRUE}

-----------------------------------------------------------------------------
(* The modem *)

Assert ==
    /\ modem = "run" /\ asserts < MaxAsserts /\ asserts' = asserts + 1
    /\ modem' = "assert" /\ msg' = TRUE
    /\ UNCHANGED <<is_assert, d, r, retry_times, told, downs, env>>

GoDown ==
    /\ modem = "run" \/ (modem = "assert" /\ "dies" \in env.faults)
    /\ downs < MaxDowns /\ downs' = downs + 1 /\ modem' \in Stops
    /\ UNCHANGED <<msg, is_assert, d, r, retry_times, told, asserts, env>>

NotStarted ==
    /\ modem = "ending" /\ modem' = "down"
    /\ UNCHANGED <<msg, is_assert, d, r, retry_times, told, asserts, downs, env>>

-----------------------------------------------------------------------------
(* Condition variables *)

\* Mutant: the signal is missing.
NotSignalled(c) == UNCHANGED r
\* pthread_cond_signal: a thread that waits goes on; otherwise nothing happens.
Signal(c) == r' = IF r # c THEN r ELSE IF c = "read_cond" THEN "test" ELSE "reopen"

\* The detector's sleeps of 2 s and 20 s; only a retry (11 s each) outlasts one.
SleepOver == "slow" \in env.faults \/ r \in {"read_cond", "reset_cond", "retry", "exit"}

SpuriousWakeup ==
    /\ "spurious" \in env.faults
    /\ \E c \in {"read_cond", "reset_cond"} : r = c /\ Signal(c)
    /\ UNCHANGED <<modem, msg, is_assert, d, retry_times, told, asserts, downs, env>>

-----------------------------------------------------------------------------
(* detect_vlx_modem *)

ReadAssert ==
    /\ d = "read" /\ msg /\ msg' = FALSE /\ is_assert' = TRUE /\ told' = "assert"
    /\ d' = "sleep2"
    /\ UNCHANGED <<modem, r, retry_times, asserts, downs, env>>

SignalAssert ==
    /\ d = "sleep2" /\ SleepOver /\ Signal("read_cond") /\ d' = "read"
    /\ UNCHANGED <<modem, msg, is_assert, retry_times, told, asserts, downs, env>>

ReadEnd ==
    /\ d = "read" /\ ~msg /\ Ended /\ d' = "load"
    /\ IF is_assert THEN UNCHANGED r ELSE Signal("read_cond")
    /\ UNCHANGED <<modem, msg, is_assert, retry_times, told, asserts, downs, env>>

\* load_vlx_modem_img, up to its sleep: nothing if the "guest seems started".
Load ==
    /\ d = "load"
    /\ IF modem = "down" THEN modem' = "run" /\ d' = "sleep20"
                         ELSE d' = "reopen" /\ UNCHANGED modem
    /\ UNCHANGED <<msg, is_assert, r, retry_times, told, asserts, downs, env>>

TellAlive == IF is_assert THEN "alive" ELSE told

Loaded ==
    /\ d = "sleep20" /\ SleepOver /\ Signal("reset_cond") /\ told' = TellAlive
    /\ d' = "reopen"
    /\ UNCHANGED <<modem, msg, is_assert, retry_times, asserts, downs, env>>

\* is_assert is cleared whether or not the modem was loaded; a pipe that cannot be
\* opened ends the process.
Reopen ==
    /\ d = "reopen" /\ is_assert' = FALSE
    /\ \E ok \in OpenResults :
         IF ok THEN d' = "read" /\ UNCHANGED r ELSE d' = "exit" /\ r' = "exit"
    /\ UNCHANGED <<modem, msg, retry_times, told, asserts, downs, env>>

detect_vlx_modem == ReadAssert \/ SignalAssert \/ ReadEnd \/ Load \/ Loaded \/ Reopen

-----------------------------------------------------------------------------
(* vlx_reset_thread *)

\* Without the property the thread ends; a pipe that cannot be opened ends the process.
Start ==
    /\ r = "start"
    /\ \E is_reset \in env.resets, ok \in OpenResults :
         /\ r' = IF is_reset # 0 /\ ok THEN "loop" ELSE "exit"
         /\ d' = IF is_reset # 0 /\ ~ok THEN "exit" ELSE d
    /\ UNCHANGED <<modem, msg, is_assert, retry_times, told, asserts, downs, env>>

WaitRead ==
    /\ r = "loop" /\ r' = "read_cond"
    /\ UNCHANGED <<modem, msg, is_assert, d, retry_times, told, asserts, downs, env>>

\* is_assert is read without a lock.
Test ==
    /\ r = "test" /\ retry_times' = 0 /\ r' = IF is_assert THEN "write" ELSE "close"
    /\ UNCHANGED <<modem, msg, is_assert, d, told, asserts, downs, env>>

GiveUp(n) == n > MaxRetry

Written == "close"

\* The write fails on a pipe whose other side is down.
WriteReset ==
    /\ r = "write"
    /\ IF Ended THEN r' = "retry" /\ UNCHANGED modem
                ELSE r' = Written /\ modem' \in Stops
    /\ UNCHANGED <<msg, is_assert, d, retry_times, told, asserts, downs, env>>

\* Its sleeps and the reopening of the pipe.
Retry ==
    /\ r = "retry" /\ \E ok \in OpenResults :
         IF ok THEN /\ retry_times' = retry_times + 1
                    /\ r' = IF GiveUp(retry_times + 1) THEN "loop" ELSE "write"
               ELSE r' = "exit" /\ UNCHANGED retry_times
    /\ UNCHANGED <<modem, msg, is_assert, d, told, asserts, downs, env>>

WaitReset ==
    /\ r = "close" /\ r' = "reset_cond"
    /\ UNCHANGED <<modem, msg, is_assert, d, retry_times, told, asserts, downs, env>>

\* A pipe that cannot be reopened ends the thread, and only it.
ReopenReset ==
    /\ r = "reopen" /\ \E ok \in OpenResults : r' = IF ok THEN "loop" ELSE "exit"
    /\ UNCHANGED <<modem, msg, is_assert, d, retry_times, told, asserts, downs, env>>

vlx_reset_thread ==
    Start \/ WaitRead \/ Test \/ WriteReset \/ Retry \/ WaitReset \/ ReopenReset

Next == Assert \/ GoDown \/ NotStarted \/ SpuriousWakeup
        \/ detect_vlx_modem \/ vlx_reset_thread

Spec == Init /\ [][Next]_vars
-----------------------------------------------------------------------------

\* A modem that has asserted or gone down, and one that runs: from the one to the
\* other is what detect_vlx_modem promises, whose signals find the reset thread
\* waiting.  Clients that were told of an assert are then told that it is alive, if
\* its status is "not started" as soon as the pipe has ended (load_vlx_modem_img).
Failed ==
    /\ env.faults \subseteq {"lag"} /\ env.resets = {1}
    /\ modem # "run" \/ (env.faults = {} /\ told = "assert")
Runs == modem = "run" /\ (env.faults = {} => told = "alive")
=============================================================================
