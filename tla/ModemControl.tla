---------------------------- MODULE ModemControl ----------------------------
(***************************************************************************)
(* modem_control (apps/modem_control/main.c, modem_boot.c): a loop that    *)
(* polls the modem's alive and reset lines, tells clients and the monitor, *)
(* and boots the modem: connect to its ROM, download the loader (FDL),     *)
(* connect to the loader, switch to SPI, download the images, execute.     *)
(* An exchange of one message and its answer is one step, the loop over    *)
(* the packets of an image included; packets are HdlcPacket's subject.     *)
(***************************************************************************)
EXTENDS Naturals, Sequences

CONSTANTS Images,         \* how many images follow the loader
          Conditions,     \* what the two files of an image may be, origin and bak:
                          \* "good", "bad" or "missing"
          Environments,   \* the values of env
          MaxNacks, MaxCrashes, MaxLines    \* bounds on refusals, crashes and
                                            \* changes of the reset line

VARIABLES alive, reset,   \* the modem's lines, as the driver reports them
          modem,          \* what the modem executes
          modem_state, flash_less_flag,
          files,          \* the two files of every image: good, bad or missing
          path,           \* download_image_info: the file chosen
          pc, i, ret,     \* modem_boot: its step, its image, its result
          sent,           \* what the modem was sent since its last reset
          told, monitor,  \* what clients and the monitor were told last
          nacks, crashes, lines,
          env             \* never changes: what may happen,
                          \* faults: "open", no UART; "exec", the last answer is a NACK;
                          \* "dead", the loader dies before it is connected to; "early",
                          \* the modem asserts before it was seen alive; "line", the
                          \* reset line changes,
                          \* reset: persist.sys.sprd.modemreset is 1
cp == <<alive, reset, modem>>
boot == <<pc, i, ret, sent>>
seen == <<modem_state, flash_less_flag, told, monitor>>
const == <<files, path, env>>
bounds == <<nacks, crashes, lines>>
vars == <<cp, boot, seen, const, bounds>>

Index == 1..Images

-----------------------------------------------------------------------------
(* get_modem_images_info: the backup is used if it is good and the file is not *)

Choose(f) == IF f.origin # "good" /\ f.bak = "good" THEN f.bak ELSE f.origin

Init ==
    /\ alive \in BOOLEAN /\ reset = FALSE /\ modem = IF alive THEN "run" ELSE "off"
    /\ modem_state = "INIT" /\ flash_less_flag = 255
    /\ files \in [Index -> Conditions]
    /\ path = [k \in Index |-> Choose(files[k])]
    /\ pc = "poll" /\ i = 1 /\ ret = TRUE /\ sent = <<>>
    /\ told = "none" /\ monitor = "up"
    /\ nacks = 0 /\ crashes = 0 /\ lines = 0 /\ env \in Environments

-----------------------------------------------------------------------------
(* The modem and its lines *)

Rise ==
    /\ modem = "run" /\ ~alive /\ alive' = TRUE
    /\ UNCHANGED <<reset, modem, boot, seen, const, bounds>>

Crash ==
    /\ modem = "run" /\ alive /\ crashes < MaxCrashes /\ crashes' = crashes + 1
    /\ modem_state = "ALIVE" \/ "early" \in env.faults
    /\ modem' = "off" /\ alive' = FALSE
    /\ UNCHANGED <<reset, boot, seen, const, nacks, lines>>

ResetLine ==
    /\ "line" \in env.faults /\ lines < MaxLines /\ lines' = lines + 1 /\ reset' = ~reset
    /\ UNCHANGED <<alive, modem, boot, seen, const, nacks, crashes>>

-----------------------------------------------------------------------------
(* process_modem_state_message, on the lines read *)

FirstAlive == alive /\ flash_less_flag \in {255, 1}
FlashLess ==
    flash_less_flag' = CASE flash_less_flag = 255 -> (IF alive THEN 0 ELSE 1)
                         [] flash_less_flag = 1 /\ alive -> 2
                         [] OTHER -> flash_less_flag

Signal(sig) == monitor' = IF FirstAlive THEN monitor ELSE sig
Broadcast(message) == told' = message

InInit ==
    /\ modem_state = "INIT"
    /\ IF reset THEN UNCHANGED <<modem_state, monitor>>
       ELSE IF alive THEN modem_state' = "ALIVE" /\ Signal("up")
       ELSE modem_state' = "BOOT" /\ UNCHANGED monitor
    /\ UNCHANGED told

InAssert ==
    /\ modem_state = "ASSERT"
    /\ IF reset THEN modem_state' = "BOOT" /\ monitor' = "down"
                ELSE UNCHANGED <<modem_state, monitor>>
    /\ UNCHANGED told

Booted == ~reset /\ alive

InBootComp ==
    /\ modem_state = "BOOTCOMP"
    /\ IF Booted
         THEN modem_state' = "ALIVE" /\ Broadcast("alive") /\ Signal("up")
         ELSE UNCHANGED <<modem_state, told, monitor>>

InAlive ==
    /\ modem_state = "ALIVE"
    /\ IF alive THEN UNCHANGED told ELSE Broadcast("assert")
    /\ IF reset \/ env.reset
         THEN modem_state' = "BOOT" /\ Signal("down")
         ELSE modem_state' = (IF alive THEN "ALIVE" ELSE "ASSERT") /\ UNCHANGED monitor

\* One turn of main's loop; a boot begins in the turn that decides on it.
Poll ==
    /\ pc = "poll" /\ FlashLess
    /\ InInit \/ InAssert \/ InBootComp \/ InAlive
    /\ pc' = IF modem_state' = "BOOT" THEN "reboot" ELSE "poll"
    /\ UNCHANGED <<cp, i, ret, sent, const, bounds>>

-----------------------------------------------------------------------------
(* modem_boot *)

\* modem_boot has returned, whatever its result.
Leave == pc' = "poll" /\ modem_state' = "BOOTCOMP"
Stay(l) == pc' = l /\ UNCHANGED modem_state
Nack == nacks < MaxNacks /\ nacks' = nacks + 1
Others == <<reset, flash_less_flag, told, monitor, const, crashes, lines>>

\* The UART is opened; try_to_connect_modem resets the modem until it answers.
ConnectRom ==
    /\ pc = "reboot"
    /\ \/ "open" \in env.faults /\ Leave /\ UNCHANGED <<alive, modem, sent>>
       \/ Stay("connect") /\ alive' = FALSE /\ modem' = "rom" /\ sent' = <<>>
    /\ UNCHANGED <<i, ret, nacks, Others>>

\* send_connect_message; refused, the modem is reset again.
SendConnect ==
    /\ pc = "connect"
    /\ \/ Stay("fdl") /\ UNCHANGED nacks
       \/ Nack /\ Stay("reboot")
    /\ UNCHANGED <<alive, modem, i, ret, sent, Others>>

\* download_fdl: a refused message starts the boot anew.
DownloadFdl ==
    /\ pc = "fdl"
    /\ \/ Stay("loader") /\ modem' = "fdl" /\ UNCHANGED nacks
       \/ Nack /\ Stay("reboot") /\ UNCHANGED modem
    /\ UNCHANGED <<alive, i, ret, sent, Others>>

\* try_to_connect_modem with boot_status 1 resets nothing: a loader that has died
\* is waited for for ever.  Then the switch to SPI, whose answer is ignored.
ConnectLoader ==
    /\ pc = "loader"
    /\ \/ modem = "fdl" /\ Stay("image") /\ modem' = "spi" /\ i' = 1 /\ ret' = TRUE
       \/ /\ "dead" \in env.faults /\ modem = "fdl" /\ Stay("loader")
          /\ modem' = "off" /\ UNCHANGED <<i, ret>>
    /\ UNCHANGED <<alive, sent, nacks, Others>>

\* download_image: a file that cannot be opened counts as sent.
DownloadImage ==
    /\ pc = "image" /\ i <= Images
    /\ \/ /\ path[i] = "missing" /\ i' = i + 1 /\ Stay("image")
          /\ sent' = Append(sent, "missing") /\ UNCHANGED <<ret, nacks>>
       \/ /\ path[i] # "missing" /\ i' = i + 1 /\ Stay("image")
          /\ sent' = Append(sent, path[i]) /\ UNCHANGED <<ret, nacks>>
       \/ /\ path[i] # "missing" /\ Nack /\ ret' = FALSE
          /\ Stay("exec") /\ UNCHANGED <<i, sent>>
    /\ UNCHANGED <<alive, modem, Others>>

LastImage ==
    /\ pc = "image" /\ i > Images /\ Stay("exec")
    /\ UNCHANGED <<alive, modem, i, ret, sent, nacks, Others>>

\* Mutant: the result of the images is not looked at.
FinishedAnyway == Leave
\* The images' result decides, send_exec_message's does not.
Finished == IF ret THEN Leave ELSE Stay("reboot")

\* send_exec_message, after a failed image too.
SendExec ==
    /\ pc = "exec" /\ Finished
    /\ modem' = "run" \/ ("exec" \in env.faults /\ modem' = "off")
    /\ UNCHANGED <<alive, i, ret, sent, nacks, Others>>

modem_boot ==
    \/ ConnectRom \/ SendConnect \/ DownloadFdl \/ ConnectLoader
    \/ DownloadImage \/ LastImage \/ SendExec

Next == Rise \/ Crash \/ ResetLine \/ Poll \/ modem_boot

Spec == Init /\ [][Next]_vars

-----------------------------------------------------------------------------

\* When modem_boot has returned from an open UART, the modem was sent all images
\* since its last reset, and a good copy of each that has one, however many
\* messages it refused.
BootedComplete ==
    "open" \notin env.faults /\ modem_state = "BOOTCOMP" =>
        /\ Len(sent) = Images
        /\ \A k \in Index : "good" \in {files[k].origin, files[k].bak} => sent[k] = "good"

\* Clients and the monitor were last told what the daemon believes of the modem.
ToldState ==
    /\ modem_state = "ALIVE" => told # "assert" /\ monitor = "up"
    /\ modem_state = "ASSERT" => told = "assert" /\ monitor = "up"

\* A boot, after an assert or not, and a modem that was seen alive: from the one
\* to the other is what main and modem_boot promise, if the loader and the images
\* run and the reset line is quiet.
Booting == env.faults = {} /\ modem_state = "BOOT"
Runs == modem_state = "ALIVE"
=============================================================================
