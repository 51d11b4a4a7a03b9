------------------------------ MODULE Mfserial ------------------------------
(***************************************************************************)
(* mfserial bridges a UART and an AT port of the modem.  It forks: the     *)
(* parent's reader thread forwards what the modem sends to the UART, the   *)
(* child reads the UART and forwards AT commands, or starts a shell on the *)
(* UART.  uart_mutex is not shared between processes: the child owns the   *)
(* copy that fork made of it, in the state it was in.                      *)
(***************************************************************************)
EXTENDS Naturals, Sequences

CONSTANTS
    Tries,         \* reads of the AT port before "runing" is looked at again
    MaxLines,      \* lines the user types
    MaxUnsolicited,\* texts the modem sends of its own accord
    MaxFails       \* failed reads, of either port

VARIABLES
    main,       \* the parent's main thread
    reader,     \* mux_reader_thread
    child,      \* the child process
    running,    \* main's variable "status", at which "runing" points
    cnt, text,  \* of the reader: tries left, the text it has read
    parentLock, \* who holds the parent's uart_mutex
    childLock,  \* who holds the child's uart_mutex
    line,       \* the line the child has read
    uartIn, uartOut,  \* the UART: lines typed, texts shown
    atOut, atIn,      \* the AT port: commands to the modem, texts from it
    sent,       \* all the modem has sent
    typed, unsolicited, fails,
    early       \* never changes: the modem may send before the fork

readerVars == <<reader, cnt, text, parentLock, uartOut>>
childVars == <<child, childLock, line>>
bounds == <<typed, unsolicited, fails, early>>
vars == <<main, running, readerVars, childVars, uartIn, atOut, atIn, sent, bounds>>

Commands == {"known", "unknown"}
Lines == Commands \cup {"sh", "exit", "other"}

Init ==
    /\ main = "fork" /\ reader = "check" /\ child = "none" /\ running = TRUE
    /\ cnt = 0 /\ text = "none" /\ line = "none"
    /\ parentLock = "free" /\ childLock = "free"
    /\ uartIn = <<>> /\ uartOut = <<>> /\ atOut = <<>> /\ atIn = <<>> /\ sent = <<>>
    /\ typed = 0 /\ unsolicited = 0 /\ fails = 0 /\ early \in BOOLEAN

-----------------------------------------------------------------------------
(* main, after it has opened the devices and created the reader *)

\* The child's mutex is a copy: a holder in the parent is no thread of the child.
Fork ==
    /\ main = "fork" /\ main' = "wait"
    /\ child' = "lock" /\ childLock' = IF parentLock = "free" THEN "free" ELSE "nobody"
    /\ UNCHANGED <<running, readerVars, line, uartIn, atOut, atIn, sent, bounds>>

\* waitpid returns: fork has failed, or the child is dead.
Waitpid ==
    /\ main = "fork" \/ (main = "wait" /\ child = "dead")
    /\ main' = "join" /\ running' = FALSE
    /\ UNCHANGED <<readerVars, childVars, uartIn, atOut, atIn, sent, bounds>>

Exit ==
    /\ main = "join" /\ reader = "done" /\ main' = "exit"
    /\ UNCHANGED <<running, readerVars, childVars, uartIn, atOut, atIn, sent, bounds>>

-----------------------------------------------------------------------------
(* mux_reader_thread *)

ReaderCheck ==
    /\ reader = "check"
    /\ IF running THEN reader' = "read" /\ cnt' = Tries ELSE reader' = "done" /\ cnt' = cnt
    /\ UNCHANGED <<main, running, text, parentLock, uartOut, childVars, uartIn, atOut, atIn, sent,
                   bounds>>

ReaderRead ==
    /\ reader = "read" /\ atIn # <<>>
    /\ text' = Head(atIn) /\ atIn' = Tail(atIn) /\ cnt' = cnt - 1 /\ reader' = "lock"
    /\ UNCHANGED <<main, running, parentLock, uartOut, childVars, uartIn, atOut, sent, bounds>>

ReaderReadFails ==
    /\ reader = "read" /\ fails < MaxFails /\ fails' = fails + 1
    /\ cnt' = cnt - 1 /\ reader' = IF cnt = 1 THEN "check" ELSE "read"
    /\ UNCHANGED <<main, running, text, parentLock, uartOut, childVars, uartIn, atOut, atIn, sent,
                   typed, unsolicited, early>>

\* send_data_to_uart
ReaderLock ==
    /\ reader = "lock" /\ parentLock = "free" /\ parentLock' = "reader" /\ reader' = "write"
    /\ UNCHANGED <<main, running, cnt, text, uartOut, childVars, uartIn, atOut, atIn, sent, bounds>>

\* cnt is not negative inside the loop: the text is always forwarded.
Shown == IF cnt >= 0 THEN text ELSE "ERROR"

ReaderWrite ==
    /\ reader = "write" /\ uartOut' = Append(uartOut, Shown)
    /\ parentLock' = "free" /\ reader' = "check"
    /\ UNCHANGED <<main, running, cnt, text, childVars, uartIn, atOut, atIn, sent, bounds>>

Reader == ReaderCheck \/ ReaderRead \/ ReaderLock \/ ReaderWrite

-----------------------------------------------------------------------------
(* The child *)

ChildLock ==
    /\ child = "lock" /\ childLock = "free" /\ childLock' = "child" /\ child' = "read"
    /\ UNCHANGED <<main, running, readerVars, line, uartIn, atOut, atIn, sent, bounds>>

ChildRead ==
    /\ child = "read" /\ uartIn # <<>>
    /\ line' = Head(uartIn) /\ uartIn' = Tail(uartIn) /\ childLock' = "free"
    /\ child' = CASE line' = "sh" -> "shell" [] line' \in Commands -> "send" [] OTHER -> "lock"
    /\ UNCHANGED <<main, running, readerVars, atOut, atIn, sent, bounds>>

\* The buffer was cleared: nothing is done for a failed read.
ChildReadFails ==
    /\ child = "read" /\ fails < MaxFails /\ fails' = fails + 1
    /\ line' = "none" /\ childLock' = "free" /\ child' = "lock"
    /\ UNCHANGED <<main, running, readerVars, uartIn, atOut, atIn, sent, typed, unsolicited, early>>

\* system("/system/bin/sh"): until it ends, the shell reads the UART.
ChildShell ==
    /\ child = "shell" /\ uartIn # <<>> /\ uartIn' = Tail(uartIn)
    /\ child' = IF Head(uartIn) = "exit" THEN "lock" ELSE "shell"
    /\ UNCHANGED <<main, running, readerVars, childLock, line, atOut, atIn, sent, bounds>>

ChildSend ==
    /\ child = "send" /\ atOut' = Append(atOut, line) /\ child' = "lock"
    /\ UNCHANGED <<main, running, readerVars, childLock, line, uartIn, atIn, sent, bounds>>

Child == ChildLock \/ ChildRead \/ ChildShell \/ ChildSend

-----------------------------------------------------------------------------
(* The user, the modem, and a signal that kills the child *)

Type ==
    /\ typed < MaxLines /\ typed' = typed + 1
    /\ \E l \in Lines : uartIn' = Append(uartIn, l)
    /\ UNCHANGED <<main, running, readerVars, childVars, atOut, atIn, sent, unsolicited, fails,
                   early>>

Send(t) == atIn' = Append(atIn, t) /\ sent' = Append(sent, t)

\* A command the modem does not know gets no answer.
ModemAnswers ==
    /\ atOut # <<>> /\ atOut' = Tail(atOut)
    /\ IF Head(atOut) = "known" THEN Send("answer") ELSE UNCHANGED <<atIn, sent>>
    /\ UNCHANGED <<main, running, readerVars, childVars, uartIn, bounds>>

ModemSends ==
    /\ early \/ main # "fork"
    /\ unsolicited < MaxUnsolicited /\ unsolicited' = unsolicited + 1 /\ Send("unsolicited")
    /\ UNCHANGED <<main, running, readerVars, childVars, uartIn, atOut, typed, fails,
                   early>>

ChildKilled ==
    /\ child \notin {"none", "dead"} /\ child' = "dead"
    /\ UNCHANGED <<main, running, readerVars, childLock, line, uartIn, atOut, atIn, sent, bounds>>

-----------------------------------------------------------------------------
Main == Fork \/ Waitpid \/ Exit

Next ==
    \/ Main
    \/ Reader \/ ReaderReadFails \/ Child \/ ChildReadFails
    \/ Type \/ ModemAnswers \/ ModemSends \/ ChildKilled

Spec == Init /\ [][Next]_vars

\* The UART shows what the modem sent, each text once and in order, through
\* failed reads and while the daemon shuts down (mux_reader_thread).
Shows == sent = uartOut \o (IF reader \in {"lock", "write"} THEN <<text>> ELSE <<>>) \o atIn

\* "sh" is typed and the shell is started (main's loop in the child): from the one
\* to the other, if the modem was quiet until the fork.
ShellDue == ~early /\ main = "wait" /\ uartIn # <<>> /\ Head(uartIn) = "sh"
ShellOpen == child \in {"shell", "dead"}
=============================================================================
