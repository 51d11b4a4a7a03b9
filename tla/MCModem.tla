------------------------------ MODULE MCModem -------------------------------
(***************************************************************************)
(* The programs around the modem that share no state, in one model:        *)
(* modemd's client table and its supervision of a SIPC and of a            *)
(* virtualised modem, modem_control with its packets, and mfserial.  A     *)
(* behaviour is one of a single part; the other parts stay in an initial   *)
(* state.                                                                  *)
(***************************************************************************)
EXTENDS Integers, Sequences

CONSTANTS Threads, MAX_CLIENT_NUM, Clients, MaxFd,          \* ModemdClients
          MaxFailures, MaxResets,                           \* ModemdSipc
          MaxAsserts, MaxDowns, MaxRetry,                   \* ModemdVlx
          Images, MaxNacks, MaxCrashes, MaxLineChanges,     \* ModemControl
          Bytes, MaxLen, MaxNoise,                          \* HdlcPacket
          Tries, MaxLines, MaxUnsolicited, MaxFails         \* Mfserial

VARIABLES part,
          client_fd, conn, peer, n, clients_i, clients_pc, slot, due, informed,
          sipc_modem, how, assert_dev, wdtirq, rfds, sipc_state, phs, sock, blocked,
          sipc_pc, sipc_is_assert, sipc_told, failures, resets, sipc_env,
          vlx_modem, msg, vlx_is_assert, d, r, retry_times, vlx_told, asserts, downs, vlx_env,
          alive, reset, modem, modem_state, flash_less_flag, files, path, pc, i, ret, sent,
          told, monitor, nacks, crashes, lines, env,
          src, hdlc_i, wire, dest, status, hdlc_pc,
          main, reader, child, running, cnt, text, parentLock, childLock, line, uartIn,
          uartOut, atOut, atIn, at_sent, typed, unsolicited, fails, early

clientsVars == <<client_fd, conn, peer, n, clients_i, clients_pc, slot, due, informed>>
sipcVars == <<sipc_modem, how, assert_dev, wdtirq, rfds, sipc_state, phs, sock, blocked,
              sipc_pc, sipc_is_assert, sipc_told, failures, resets, sipc_env>>
vlxVars == <<vlx_modem, msg, vlx_is_assert, d, r, retry_times, vlx_told, asserts, downs, vlx_env>>
controlVars == <<alive, reset, modem, modem_state, flash_less_flag, files, path, pc, i, ret,
                 sent, told, monitor, nacks, crashes, lines, env>>
hdlcVars == <<src, hdlc_i, wire, dest, status, hdlc_pc>>
mfserialVars == <<main, reader, child, running, cnt, text, parentLock, childLock, line, uartIn,
                  uartOut, atOut, atIn, at_sent, typed, unsolicited, fails, early>>
mcVars == <<part, clientsVars, sipcVars, vlxVars, controlVars, hdlcVars, mfserialVars>>

-----------------------------------------------------------------------------
(* What may happen: everything the code does not exclude, and the restricted *)
(* environments in which more holds.                                         *)

CalmSipc == [failures |-> {"assert", "silent"}, faults |-> {}, resets |-> {TRUE}]
SipcEnvironments ==
    {[failures |-> {"assert", "hang", "silent"},
      faults   |-> {"late", "both", "open", "announce"}, resets |-> BOOLEAN],
     [failures |-> {"assert", "hang"}, faults |-> {"late", "announce"}, resets |-> BOOLEAN],
     CalmSipc}

CalmVlx == [faults |-> {}, resets |-> {1}]
VlxEnvironments ==
    {[faults |-> {"open", "spurious", "lag", "slow", "dies"}, resets |-> {0, 1}],
     [faults |-> {"lag", "open"}, resets |-> {0, 1}],
     [faults |-> {"lag"}, resets |-> {1}],
     CalmVlx}

FileConditions ==
    {[origin |-> "good", bak |-> "missing"], [origin |-> "bad", bak |-> "good"],
     [origin |-> "missing", bak |-> "bad"], [origin |-> "bad", bak |-> "missing"]}
CalmControl == [faults |-> {}, reset |-> TRUE]
ControlEnvironments ==
    {[faults |-> {"exec", "dead", "early", "line"}, reset |-> FALSE],
     [faults |-> {"open", "exec", "dead", "early", "line"}, reset |-> TRUE],
     CalmControl}

Table == INSTANCE ModemdClients WITH i <- clients_i, pc <- clients_pc
Sipc == INSTANCE ModemdSipc WITH
          Environments <- SipcEnvironments, modem <- sipc_modem, modem_state <- sipc_state,
          pc <- sipc_pc, is_assert <- sipc_is_assert, told <- sipc_told, env <- sipc_env
Vlx == INSTANCE ModemdVlx WITH
          Environments <- VlxEnvironments, modem <- vlx_modem, is_assert <- vlx_is_assert,
          told <- vlx_told, env <- vlx_env
Control == INSTANCE ModemControl WITH
          Conditions <- FileConditions, Environments <- ControlEnvironments,
          MaxLines <- MaxLineChanges
Hdlc == INSTANCE HdlcPacket WITH i <- hdlc_i, pc <- hdlc_pc
Serial == INSTANCE Mfserial WITH sent <- at_sent

-----------------------------------------------------------------------------
Parts == {"clients", "sipc", "vlx", "control", "hdlc", "mfserial"}

\* The parts that do not run are in one of their initial states.
MCInit ==
    /\ part \in Parts
    /\ Table!Init
    /\ Sipc!Init /\ (part # "sipc" => sipc_env = CalmSipc)
    /\ Vlx!Init /\ (part # "vlx" => vlx_env = CalmVlx)
    /\ Control!Init /\ (part # "control" => env = CalmControl /\ alive /\ \A k \in 1..Images :
                            files[k].origin = "good")
    /\ Hdlc!Init /\ (part # "hdlc" => src = <<0>>)
    /\ Serial!Init /\ (part # "mfserial" => ~early)

ClientsStep(A) == /\ part = "clients" /\ A
                  /\ UNCHANGED <<part, sipcVars, vlxVars, controlVars, hdlcVars, mfserialVars>>
SipcStep(A) == /\ part = "sipc" /\ A
               /\ UNCHANGED <<part, clientsVars, vlxVars, controlVars, hdlcVars, mfserialVars>>
VlxStep(A) == /\ part = "vlx" /\ A
              /\ UNCHANGED <<part, clientsVars, sipcVars, controlVars, hdlcVars, mfserialVars>>
ControlStep(A) == /\ part = "control" /\ A
                  /\ UNCHANGED <<part, clientsVars, sipcVars, vlxVars, hdlcVars, mfserialVars>>
HdlcStep(A) == /\ part = "hdlc" /\ A
               /\ UNCHANGED <<part, clientsVars, sipcVars, vlxVars, controlVars, mfserialVars>>
SerialStep(A) == /\ part = "mfserial" /\ A
                 /\ UNCHANGED <<part, clientsVars, sipcVars, vlxVars, controlVars, hdlcVars>>

MCNext ==
    \/ ClientsStep(Table!Next) \/ SipcStep(Sipc!Next) \/ VlxStep(Vlx!Next)
    \/ ControlStep(Control!Next) \/ HdlcStep(Hdlc!Next) \/ SerialStep(Serial!Next)

\* modemd: both threads of a supervision are scheduled, the phone server reports
\* a modem that no longer answers, the status of a guest that stops follows.
\* modem_control: the process runs, and a modem that executes its images raises
\* its line.  mfserial: its threads and its child are scheduled, and the modem
\* answers.  Nothing is assumed of failures, faults, clients or typing.
MCSpec ==
    /\ MCInit /\ [][MCNext]_mcVars
    /\ WF_mcVars(SipcStep(Sipc!Step("d")) \/ VlxStep(Vlx!detect_vlx_modem)
                   \/ ControlStep(Control!Poll) \/ SerialStep(Serial!Main))
    /\ WF_mcVars(SipcStep(Sipc!Step("b")) \/ VlxStep(Vlx!vlx_reset_thread)
                   \/ ControlStep(Control!modem_boot) \/ SerialStep(Serial!Reader))
    /\ WF_mcVars(SipcStep(Sipc!Report) \/ VlxStep(Vlx!NotStarted)
                   \/ ControlStep(Control!Rise) \/ SerialStep(Serial!Child))
    /\ WF_mcVars(SerialStep(Serial!ModemAnswers))

-----------------------------------------------------------------------------
\* Connected clients stay in client_fd although descriptors are reused, and every
\* client that was entered and is there is informed (modemd_listenaccept_thread,
\* loop_info_sockclients).
AllInformed == Table!Kept /\ Table!AllInformed

\* What modem_state says of the modem is so: detect_modem_blocked does not wait for
\* one that is ready, and after load_sipc_modem_img ready means started, and the
\* clients told.
ReadyKnown == Sipc!NoLostWakeup /\ Sipc!ReadyAfterReload

\* What modem_control says of the modem is so: modem_boot returns only when the
\* modem has all its images, and clients and monitor know what it believes of the
\* modem (process_modem_state_message).
BootedComplete == Control!BootedComplete /\ Control!ToldState

\* What is sent arrives: a packet without 0x7D before its end comes back from the
\* frame, which holds no flag (translate_packet, untranslate_packet), and the UART
\* shows each text of the modem once and in order (mux_reader_thread).
Transparent == Hdlc!Delimited /\ Hdlc!RoundTripPlain /\ Serial!Shows

\* Each daemon serves: after a failure the modem runs again, with the phone server
\* watched and the clients told (detect_sipc_modem and detect_modem_blocked,
\* detect_vlx_modem), a boot ends with a modem that was seen alive (modem_boot), and
\* "sh" starts the shell (mfserial's child).
Recovers ==
    \/ Sipc!Failed \/ Vlx!Failed \/ Control!Booting
    \/ part = "mfserial" /\ Serial!ShellDue
    ~>
    \/ part = "sipc" /\ Sipc!Runs
    \/ part = "vlx" /\ Vlx!Runs
    \/ part = "control" /\ Control!Runs
    \/ part = "mfserial" /\ Serial!ShellOpen
=============================================================================
