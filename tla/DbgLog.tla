------------------------------- MODULE DbgLog -------------------------------
(***************************************************************************)
(* The debug log of a telnet session (log/dbg_log.c).  Any task appends a  *)
(* message to g_stDbgLogMsgBuff; the network task hands what is there to   *)
(* lwIP, in pieces of Chunk bytes, and starts the buffer again when it is  *)
(* empty.                                                                  *)
(*                                                                         *)
(* A message is appended with the scheduler locked, but the room for it is *)
(* looked at before, and DbgLogSendPeriodHandler locks it only around      *)
(* tcp_write.  A task of higher priority than the network task may log     *)
(* between any two steps of that one; a task of lower priority may be held *)
(* up between its look at the room and its message.  Nothing bounds a      *)
(* message: one that runs past szMsg overwrites what the linker put there, *)
(* which is none of the variables here.                                    *)
(***************************************************************************)
EXTENDS Integers, FiniteSets

CONSTANTS
    High, Low,  \* tasks of higher and of lower priority than the network task
    Size,       \* bytes of szMsg (5120)
    Reserve,    \* room asked for before a message (1500)
    Chunk,      \* bytes sent at a time (1024)
    MaxLen,     \* bound: bytes of a message
    MaxBytes    \* bound: bytes logged in a session, those of the last messages
                \* that are not yet appended included

Tasks == High \cup Low

\* offset and sndpos are unsigned short.
Word == 65536

ASSUME DbgLogAssumption ==
    /\ {Size, Reserve, Chunk, MaxLen, MaxBytes} \subseteq Nat \ {0}
    /\ IsFiniteSet(Tasks) /\ High \cap Low = {}
    /\ Reserve <= Size /\ Size < Word

VARIABLES
    offset, sndpos, szMsg,  \* g_stDbgLogMsgBuff
    debugOn,    \* g_dwNetDbgType and g_ucTelnetDbgFlg let messages through
    connected,  \* g_PCB_Telnet_p is an established connection, and not NULL
    logging,    \* tasks that have found room and not yet appended
    netPc, len, \* DbgLogSendPeriodHandler
    \* history, of the session
    since,      \* bytes that others logged since a task in logging found room
    in, out,    \* bytes logged, bytes handed to lwIP
    raced,      \* a message came while the handler was emptying the buffer
    overrun     \* a message ran past the end of szMsg

buffer  == <<offset, sndpos, szMsg>>
session == <<debugOn, connected>>
history == <<since, in, out, raced, overrun>>
vars    == <<buffer, session, logging, netPc, len, history>>

TypeOK ==
    /\ offset \in 0..(Word - 1) /\ sndpos \in 0..(Word - 1) /\ len \in 0..(Word - 1)
    /\ szMsg \in [0..(Size - 1) -> 0..MaxBytes]
    /\ debugOn \in BOOLEAN /\ connected \in BOOLEAN
    /\ raced \in BOOLEAN /\ overrun \in BOOLEAN
    /\ logging \subseteq Tasks /\ since \in [Tasks -> 0..MaxBytes]
    /\ netPc \in {"idle", "compare", "zero_sndpos", "zero_offset", "test", "take", "send"}
    /\ in \in 0..MaxBytes /\ out \in 0..MaxBytes

Init ==
    /\ offset = 0 /\ sndpos = 0 /\ szMsg = [i \in 0..(Size - 1) |-> 0]
    /\ debugOn = FALSE /\ connected = FALSE
    /\ logging = {} /\ since = [t \in Tasks |-> 0]
    /\ netPc = "idle" /\ len = 0
    /\ in = 0 /\ out = 0 /\ raced = FALSE /\ overrun = FALSE

\* A task of higher priority is in the middle of DbgLog.
HighLogs == logging \cap High # {}

-----------------------------------------------------------------------------
(* DbgLog                                                                  *)

MayRun(t) == t \in High \/ (netPc = "idle" /\ ~HighLogs)

\* Mutant: any room will do.
RoomAny == offset # Size

\* sizeof is unsigned and so is the difference: past the end there is always room.
Room == offset > Size \/ Size - offset >= Reserve

FindRoom(t) ==
    /\ MayRun(t) /\ t \notin logging
    /\ debugOn /\ Room
    /\ in + (Cardinality(logging) + 1) * MaxLen <= MaxBytes
    /\ logging' = logging \cup {t}
    /\ UNCHANGED <<buffer, session, netPc, len, history>>

\* Where the message goes: an empty buffer starts again.
From == IF offset = sndpos THEN 0 ELSE offset

\* szMsg with a message of n bytes, and the NUL that sprintf ends it with.
Written(n) ==
    [i \in 0..(Size - 1) |->
        IF i \in From..(From + n - 1) THEN in + 1 + i - From
        ELSE IF i = From + n THEN 0
        ELSE szMsg[i]]

\* The others that have found room have n bytes less of it.
Overtaken(t, n) == [u \in Tasks |-> IF u \in logging \ {t} THEN since[u] + n ELSE 0]

\* Mutant: the buffer starts again, and the handler is not told.
AppendKeepsSndpos(t, n) ==
    /\ MayRun(t) /\ t \in logging
    /\ logging' = logging \ {t} /\ since' = Overtaken(t, n)
    /\ szMsg' = Written(n)
    /\ offset' = (From + n) % Word
    /\ in' = in + n
    /\ raced' = (raced \/ netPc \in {"zero_sndpos", "zero_offset"})
    /\ overrun' = (overrun \/ From + n >= Size)
    /\ UNCHANGED <<sndpos, session, netPc, len, out>>

\* The room is not looked at again.
Append(t, n) ==
    /\ MayRun(t) /\ t \in logging
    /\ logging' = logging \ {t} /\ since' = Overtaken(t, n)
    /\ szMsg' = Written(n)
    /\ offset' = (From + n) % Word
    /\ sndpos' = IF offset = sndpos THEN 0 ELSE sndpos
    /\ in' = in + n
    /\ raced' = (raced \/ netPc \in {"zero_sndpos", "zero_offset"})
    /\ overrun' = (overrun \/ From + n >= Size)
    /\ UNCHANGED <<session, netPc, len, out>>

Log(t) == FindRoom(t) \/ \E n \in 1..MaxLen : Append(t, n)

-----------------------------------------------------------------------------
(* DbgLogSendPeriodHandler, called by Net_Periodic_Task                    *)

Goes(from, to) == netPc = from /\ ~HighLogs /\ netPc' = to

\* Called when 100 ms have passed or Chunk bytes are waiting: sooner or later.
SendPeriod ==
    /\ Goes("idle", "compare") /\ connected
    /\ UNCHANGED <<buffer, session, logging, len, history>>

\* Mutant: the buffer is emptied while there is something to send.
CompareNot ==
    /\ Goes("compare", IF offset > sndpos THEN "zero_sndpos" ELSE "test")
    /\ UNCHANGED <<buffer, session, logging, len, history>>

Compare ==
    /\ Goes("compare", IF offset = sndpos THEN "zero_sndpos" ELSE "test")
    /\ UNCHANGED <<buffer, session, logging, len, history>>

ZeroSndpos ==
    /\ Goes("zero_sndpos", "zero_offset")
    /\ sndpos' = 0
    /\ UNCHANGED <<offset, szMsg, session, logging, len, history>>

ZeroOffset ==
    /\ Goes("zero_offset", "test")
    /\ offset' = 0
    /\ UNCHANGED <<sndpos, szMsg, session, logging, len, history>>

\* Mutant: a piece is sent when almost as much is waiting.
TestSoon ==
    /\ Goes("test", IF offset - sndpos >= Chunk - 1 THEN "send" ELSE "take")
    /\ len' = IF offset - sndpos >= Chunk - 1 THEN Chunk ELSE len
    /\ UNCHANGED <<buffer, session, logging, history>>

Test ==
    /\ Goes("test", IF offset - sndpos >= Chunk THEN "send" ELSE "take")
    /\ len' = IF offset - sndpos >= Chunk THEN Chunk ELSE len
    /\ UNCHANGED <<buffer, session, logging, history>>

\* len is an unsigned short too.
Take ==
    /\ Goes("take", IF offset = sndpos THEN "idle" ELSE "send")
    /\ len' = (offset - sndpos) % Word
    /\ UNCHANGED <<buffer, session, logging, history>>

\* The loop goes on after a full piece.
Loop == IF len = Chunk THEN "compare" ELSE "idle"

\* What is sent after an overrun may lie past szMsg, and is not followed.
SendOk ==
    /\ Goes("send", Loop) /\ connected
    /\ out' = IF overrun THEN out ELSE szMsg[sndpos + len - 1]
    /\ sndpos' = (sndpos + len) % Word
    /\ UNCHANGED <<offset, szMsg, session, logging, len, since, in, raced, overrun>>

\* tcp_write fails, as it does without a pcb: the connection is aborted, the
\* log switched off, and the length that was not sent added all the same.
SendFails ==
    /\ Goes("send", Loop)
    /\ offset' = 0 /\ sndpos' = len
    /\ connected' = FALSE /\ debugOn' = FALSE
    /\ UNCHANGED <<szMsg, logging, len, history>>

Handler == \/ Compare \/ ZeroSndpos \/ ZeroOffset \/ Test \/ Take
           \/ SendOk \/ SendFails

-----------------------------------------------------------------------------
(* The session, in Network_Handle: with the scheduler locked               *)

telnet_accept ==
    /\ netPc = "idle" /\ ~HighLogs
    /\ connected' = TRUE /\ debugOn' = FALSE
    /\ offset' = 0 /\ sndpos' = 0 /\ szMsg' = [i \in 0..(Size - 1) |-> 0]
    /\ since' = [t \in Tasks |-> 0]
    /\ in' = 0 /\ out' = 0 /\ raced' = FALSE /\ overrun' = FALSE
    /\ UNCHANGED <<logging, netPc, len>>

\* The commands that choose what is logged.
DebugCommand ==
    /\ netPc = "idle" /\ ~HighLogs /\ connected
    /\ debugOn' \in BOOLEAN
    /\ UNCHANGED <<buffer, connected, logging, netPc, len, history>>

\* The exit command and the timeouts, of any connection whose poll still comes.
telnet_close ==
    /\ netPc = "idle" /\ ~HighLogs
    /\ connected' = FALSE /\ debugOn' = FALSE
    /\ UNCHANGED <<buffer, logging, netPc, len, history>>

\* The other end closes the connection, or lwIP gives it up: nobody switches the
\* log off, and tasks go on filling the buffer until the next session.
telnet_conn_err ==
    /\ netPc = "idle" /\ ~HighLogs /\ connected
    /\ connected' = FALSE
    /\ UNCHANGED <<buffer, debugOn, logging, netPc, len, history>>

Session == telnet_accept \/ DebugCommand \/ telnet_close \/ telnet_conn_err

-----------------------------------------------------------------------------

Next == (\E t \in Tasks : Log(t)) \/ SendPeriod \/ Handler \/ Session

Spec == Init /\ [][Next]_vars

\* The network task comes round every 2 ms and DbgLog ends.
FairSpec ==
    /\ Spec
    /\ WF_vars(SendPeriod) /\ WF_vars(Handler)
    /\ WF_vars(\E t \in High : \E n \in 1..MaxLen : Append(t, n))

-----------------------------------------------------------------------------
(* Properties                                                              *)

\* The room is looked at outside the lock, and the length of a message not at
\* all.  One that begins to run past the end of szMsg, its NUL included, is for that
\* longer than the room asked for, together with what others logged since the
\* look.
BufferHolds ==
    [][~overrun /\ overrun' =>
          \E t \in logging \ logging' : since[t] + (in' - in) >= Reserve]_vars

Emptying == netPc \in {"zero_sndpos", "zero_offset"}

\* Waiting messages are whole and in order: no task overwrites what the handler
\* is about to send, and the handler sends nothing twice.  Without a race of the
\* two while the handler empties the buffer, none is lost either.  (After an
\* overrun, not before the next session.)
UnsentIntact ==
    /\ TypeOK
    /\ connected /\ ~Emptying /\ ~overrun =>
        /\ sndpos <= offset
        /\ \A i \in sndpos..(offset - 1) : szMsg[i] = in - (offset - 1 - i)
        /\ ~raced => out + offset - sndpos = in

\* The handler hands nothing to lwIP that is not waiting, even if a message
\* comes between its two looks at the length.
LengthWaits == netPc = "send" /\ connected /\ ~overrun => len \in 1..(offset - sndpos)

\* What is logged is sent, unless the connection is lost, a race of the two
\* loses it or a message ran past the end.
LoggedIsSent ==
    \A k \in 1..MaxBytes :
        in >= k ~> out >= k \/ raced \/ overrun \/ ~connected \/ in < k

=============================================================================
