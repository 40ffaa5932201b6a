---------------------------- MODULE DbgLogProofs ----------------------------
(***************************************************************************)
(* Theorems of DbgLog, for any tasks, messages and sizes of the buffer: a  *)
(* message runs past its end only if it is longer than the room asked for, *)
(* together with what others logged since; until one does, what waits is   *)
(* whole and in order, and only what waits is handed to lwIP.              *)
(***************************************************************************)
EXTENDS DbgLog, FiniteSetTheorems, TLAPS

(***************************************************************************)
(* The invariant.                                                          *)
(***************************************************************************)

\* Bytes that the tasks about to append may still log.
Claimed == Cardinality(logging) * MaxLen

\* A task that found room still has it, less what the others have logged.
RoomKept ==
    /\ ~overrun => offset < Size
    /\ ~overrun => \A t \in logging : offset + Reserve <= Size + since[t]
    /\ \A t \in Tasks : since[t] <= in
    /\ in + Claimed <= MaxBytes

\* The bytes of m from position s up to o are the last ones before number k.
LastBytes(m, s, o, k) ==
    s <= o /\ \A i \in s..(o - 1) : m[i] = k - (o - 1 - i)

\* m with a message of n bytes at position f, numbered from k + 1, and its NUL.
Extended(m, f, n, k) ==
    [i \in 0..(Size - 1) |->
        IF i \in f..(f + n - 1) THEN k + 1 + i - f ELSE IF i = f + n THEN 0 ELSE m[i]]

\* The bytes from sndpos up to offset are the last ones logged.
WaitingBytes == LastBytes(szMsg, sndpos, offset, in)

\* Where the handler is in emptying the buffer, and what it then knows.
Emptied ==
    connected /\ ~overrun =>
        /\ netPc # "zero_offset" =>
              WaitingBytes /\ (~raced => out + offset - sndpos = in)
        /\ netPc = "zero_sndpos" /\ ~raced => offset = sndpos
        /\ netPc = "zero_offset" => sndpos = 0 /\ (~raced => out = in)

IInv == TypeOK /\ RoomKept /\ Emptied /\ LengthWaits

(***************************************************************************)
(* Lemmas.                                                                 *)
(***************************************************************************)

\* The constants are numbers, and the buffer is shorter than a word.
LEMMA Constants ==
    /\ Size \in Nat /\ Reserve \in Nat /\ Chunk \in Nat /\ MaxLen \in Nat /\ MaxBytes \in Nat
    /\ Chunk > 0 /\ MaxLen > 0 /\ Size > 0
    /\ Reserve <= Size /\ Size < Word /\ Word \in Nat
BY DbgLogAssumption DEF Word

\* A length that fits in an unsigned short is the same in one.
LEMMA Words ==
    ASSUME NEW a \in Int, NEW w \in Nat, w > 0
    PROVE  a % w \in 0..(w - 1) /\ (a \in Nat /\ a < w => a % w = a)
<1>1. a % w \in 0..(w - 1)
    OBVIOUS
<1>2. ASSUME a \in Nat, a < w PROVE a % w = a
    BY <1>2
<1>3. QED
    BY <1>1, <1>2

\* One task more, one message more.
LEMMA Product ==
    ASSUME NEW k \in Nat, NEW m \in Nat
    PROVE  k * m \in Nat /\ (k + 1) * m = k * m + m
OBVIOUS

\* The tasks that are about to append can be counted.
LEMMA Counted ==
    ASSUME NEW S \in SUBSET Tasks
    PROVE  IsFiniteSet(S) /\ Cardinality(S) \in Nat
BY DbgLogAssumption, FS_Subset, FS_CardinalityType

\* A message of n bytes behind what waits, or at the start if nothing waits.
LEMMA Appended ==
    ASSUME NEW m, NEW s \in Nat, NEW o \in Nat, NEW k \in Nat, NEW n \in Nat, NEW f \in Nat,
           f = IF o = s THEN 0 ELSE o, f + n <= Size,
           LastBytes(m, s, o, k)
    PROVE  LastBytes(Extended(m, f, n, k), IF o = s THEN 0 ELSE s, f + n, k + n)
<1> DEFINE m2 == Extended(m, f, n, k)
           s2 == IF o = s THEN 0 ELSE s
<1>1. s2 \in Nat /\ s2 <= f + n /\ s <= o
    BY DEF LastBytes
<1>2. ASSUME NEW i \in s2..(f + n - 1)
      PROVE  m2[i] = k + n - (f + n - 1 - i)
    <2>1. i \in 0..(Size - 1) /\ i \in Nat /\ s2 <= i /\ i <= f + n - 1
        BY <1>1, Constants
    <2>2. CASE i \in f..(f + n - 1)
        BY <2>1, <2>2 DEF Extended
    <2>3. CASE i \notin f..(f + n - 1)
        <3>1. i < f /\ f = o /\ s2 = s
            BY <2>1, <2>3
        <3>2. m2[i] = m[i] /\ m[i] = k - (o - 1 - i)
            BY <2>1, <2>3, <3>1 DEF LastBytes, Extended
        <3>3. QED
            BY <2>1, <3>1, <3>2
    <2>4. QED
        BY <2>2, <2>3
<1>3. QED
    BY <1>1, <1>2 DEF LastBytes

(***************************************************************************)
(* The induction.                                                          *)
(***************************************************************************)

\* The first state satisfies the invariant.
LEMMA InitIInv == Init => IInv
<1> SUFFICES ASSUME Init PROVE IInv
    OBVIOUS
<1>1. TypeOK
    <2>1. szMsg \in [0..(Size - 1) -> 0..MaxBytes]
        BY Constants DEF Init
    <2>2. /\ offset \in 0..(Word - 1) /\ sndpos \in 0..(Word - 1) /\ len \in 0..(Word - 1)
          /\ in \in 0..MaxBytes /\ out \in 0..MaxBytes
        BY Constants DEF Init, Word
    <2>3. QED
        BY <2>1, <2>2 DEF Init, TypeOK
<1>2. RoomKept
    <2>1. Claimed = 0
        BY FS_EmptySet, Constants DEF Init, Claimed
    <2>2. QED
        BY <2>1, Constants, DbgLogAssumption DEF Init, RoomKept
<1>3. Emptied /\ LengthWaits
    BY DEF Init, Emptied, LengthWaits, WaitingBytes, LastBytes
<1>4. QED
    BY <1>1, <1>2, <1>3 DEF IInv

\* The facts about the buffer that every step starts from.
LEMMA Typed ==
    ASSUME IInv
    PROVE  /\ offset \in Nat /\ sndpos \in Nat /\ len \in Nat /\ in \in Nat /\ out \in Nat
           /\ szMsg \in [0..(Size - 1) -> 0..MaxBytes]
           /\ Claimed \in Nat
           /\ IsFiniteSet(logging) /\ logging \in SUBSET Tasks
           /\ \A t \in Tasks : since[t] \in Nat /\ since[t] <= in
           /\ (~overrun => offset < Size) /\ in <= MaxBytes /\ out <= MaxBytes
<1>1. logging \in SUBSET Tasks /\ \A t \in Tasks : since[t] \in Nat /\ since[t] <= in
    BY DEF IInv, TypeOK, RoomKept
<1>2. IsFiniteSet(logging) /\ Claimed \in Nat
    BY <1>1, Counted, Product, Constants DEF Claimed
<1>3. /\ offset \in Nat /\ sndpos \in Nat /\ len \in Nat /\ in \in Nat /\ out \in Nat
      /\ szMsg \in [0..(Size - 1) -> 0..MaxBytes] /\ out <= MaxBytes
    BY Constants DEF IInv, TypeOK
<1>4. (~overrun => offset < Size) /\ in <= MaxBytes
    BY <1>2, <1>3, Constants DEF IInv, RoomKept
<1>5. QED
    BY <1>1, <1>2, <1>3, <1>4

\* A task finds room, as the others have.
LEMMA FindRoomIInv ==
    ASSUME IInv, NEW t \in Tasks, FindRoom(t)
    PROVE  IInv'
<1>1. /\ t \notin logging /\ logging' = logging \cup {t}
      /\ offset > Size \/ Size - offset >= Reserve
      /\ UNCHANGED <<buffer, session, netPc, len, history>>
    BY DEF FindRoom, Room
<1>2. logging' \in SUBSET Tasks
    BY <1>1, Typed
<1>3. Claimed' \in Nat /\ in + Claimed' <= MaxBytes
    <2>1. Cardinality(logging') = Cardinality(logging) + 1
        BY <1>1, Typed, FS_AddElement
    <2>2. Cardinality(logging') \in Nat
        BY <1>2, Counted
    <2>3. in + Cardinality(logging') * MaxLen <= MaxBytes
        BY <2>1 DEF FindRoom
    <2>4. QED
        BY <2>2, <2>3, Product, Constants DEF Claimed
<1>4. TypeOK'
    BY <1>1, <1>2 DEF IInv, TypeOK, buffer, session, history
<1>5. RoomKept'
    <2>1. ~overrun => offset < Size /\ offset + Reserve <= Size
        BY <1>1, Typed, Constants
    <2>2. \A u \in Tasks : since[u] \in Nat /\ since[u] <= in
        BY Typed
    <2>3. ~overrun => \A u \in logging' : offset + Reserve <= Size + since[u]
        <3>1. ~overrun => offset + Reserve <= Size + since[t]
            BY <2>1, <2>2, Typed, Constants
        <3>2. ~overrun => \A u \in logging : offset + Reserve <= Size + since[u]
            BY DEF IInv, RoomKept
        <3>3. QED
            BY <1>1, <3>1, <3>2
    <2>4. QED
        BY <1>1, <1>3, <2>1, <2>2, <2>3 DEF RoomKept, buffer, history
<1>6. Emptied' /\ LengthWaits'
    BY <1>1 DEF IInv, Emptied, WaitingBytes, LengthWaits, buffer, session, history
<1>7. QED
    BY <1>4, <1>5, <1>6 DEF IInv

\* A message is appended behind what waits; it may run past the end.
LEMMA AppendIInv ==
    ASSUME IInv, NEW t \in Tasks, NEW n \in 1..MaxLen, Append(t, n)
    PROVE  IInv'
<1> /\ offset \in Nat /\ sndpos \in Nat /\ in \in Nat /\ out \in Nat /\ len \in Nat
    /\ Claimed \in Nat /\ MaxLen \in Nat /\ Size \in Nat /\ MaxBytes \in Nat
    BY Typed, Constants
<1> n \in Nat /\ 1 <= n /\ n <= MaxLen
    BY Constants
<1>1. /\ t \in logging /\ logging' = logging \ {t}
      /\ since' = [u \in Tasks |-> IF u \in logging' THEN since[u] + n ELSE 0]
      /\ szMsg' = Extended(szMsg, From, n, in)
      /\ offset' = (From + n) % Word
      /\ sndpos' = IF offset = sndpos THEN 0 ELSE sndpos
      /\ in' = in + n
      /\ raced' = (raced \/ netPc \in {"zero_sndpos", "zero_offset"})
      /\ overrun' = (overrun \/ From + n >= Size)
      /\ UNCHANGED <<session, netPc, len, out>>
    BY DEF Append, Written, Overtaken, Extended
<1>2. From \in Nat /\ From <= offset /\ (offset # sndpos => From = offset)
           /\ (offset = sndpos => From = 0)
    BY DEF From
<1>3. logging' \in SUBSET Tasks /\ Claimed' \in Nat /\ Claimed' = Claimed - MaxLen
    <2>1. logging' \in SUBSET Tasks
        BY <1>1, Typed
    <2>2. Cardinality(logging') \in Nat /\ Cardinality(logging) \in Nat
        BY <2>1, Counted, Typed
    <2>3. Cardinality(logging') = Cardinality(logging) - 1
        BY <1>1, Typed, FS_RemoveElement
    <2>4. Cardinality(logging) = Cardinality(logging') + 1
        BY <2>2, <2>3
    <2>5. QED
        BY <2>1, <2>2, <2>4, Product, Constants DEF Claimed
<1>4. in' \in 0..MaxBytes /\ in' + Claimed' <= MaxBytes
    <2>1. in + Claimed <= MaxBytes
        BY DEF IInv, RoomKept
    <2>2. QED
        BY <1>1, <1>3, <2>1
<1>5. offset' \in 0..(Word - 1) /\ (~overrun' => offset' = From + n /\ From + n < Size)
    <2>1. From + n \in Int /\ Word \in Nat /\ Word > 0 /\ Size < Word
        BY <1>2, Constants DEF Word
    <2>2. offset' \in 0..(Word - 1)
        BY <1>1, <2>1, Words
    <2>3. ASSUME ~overrun' PROVE From + n < Size
        <3>1. ~(From + n >= Size)
            BY <1>1, <2>3, Zenon
        <3>2. QED
            BY <1>2, <3>1
    <2>4. ASSUME From + n < Size PROVE offset' = From + n
        BY <1>1, <1>2, <2>1, <2>4, Words
    <2>5. QED
        BY <2>2, <2>3, <2>4
<1>6. RoomKept'
    <2>1. \A u \in Tasks : since'[u] \in Nat /\ since'[u] <= in'
        BY <1>1, Typed
    <2>2. ASSUME ~overrun', NEW u \in logging' PROVE offset' + Reserve <= Size + since'[u]
        <3>1. ~overrun
            BY <1>1, <2>2, Zenon
        <3>2. u \in logging /\ u \in Tasks /\ since'[u] = since[u] + n
            BY <1>1, <1>3
        <3>3. offset + Reserve <= Size + since[u]
            BY <3>1, <3>2 DEF IInv, RoomKept
        <3>4. QED
            BY <1>2, <1>5, <2>2, <3>2, <3>3, Typed, Constants
    <2>3. QED
        BY <1>4, <1>5, <2>1, <2>2 DEF RoomKept
<1>7. TypeOK'
    <2>1. szMsg' \in [0..(Size - 1) -> 0..MaxBytes]
        <3>1. ASSUME NEW i \in 0..(Size - 1), i \in From..(From + n - 1)
              PROVE  in + 1 + i - From \in 0..MaxBytes
            BY <1>1, <1>2, <1>4, <3>1
        <3>2. ASSUME NEW i \in 0..(Size - 1) PROVE szMsg[i] \in 0..MaxBytes
            BY Typed
        <3>3. 0 \in 0..MaxBytes
            OBVIOUS
        <3>4. QED
            BY <1>1, <3>1, <3>2, <3>3 DEF Extended
    <2>2. sndpos' \in 0..(Word - 1)
        BY <1>1, Constants DEF IInv, TypeOK
    <2>3. raced' \in BOOLEAN /\ overrun' \in BOOLEAN
        BY <1>1
    <2>4. since' \in [Tasks -> 0..MaxBytes]
        <3>1. ASSUME NEW u \in Tasks PROVE since'[u] \in 0..MaxBytes
            BY <1>1, <1>4, Typed
        <3>2. QED
            BY <1>1, <3>1
    <2>5. QED
        BY <1>1, <1>3, <1>4, <1>5, <2>1, <2>2, <2>3, <2>4 DEF IInv, TypeOK, session
<1>8. ASSUME connected, ~overrun' PROVE Emptied'
    <2>1. ~overrun /\ offset' = From + n /\ From + n <= Size
        <3>1. ~overrun
            BY <1>1, <1>8, Zenon
        <3>2. QED
            BY <1>2, <1>5, <1>8, <3>1
    <2>2. CASE netPc = "zero_offset"
        BY <1>1, <1>8, <2>1, <2>2 DEF IInv, Emptied, session
    <2>3. CASE netPc # "zero_offset"
        <3>1. WaitingBytes /\ (~raced => out + offset - sndpos = in)
            BY <1>8, <2>1, <2>3 DEF IInv, Emptied
        <3>2. WaitingBytes'
            <4>1. From = (IF offset = sndpos THEN 0 ELSE offset)
                BY DEF From
            <4>2. LastBytes(szMsg, sndpos, offset, in)
                BY <3>1 DEF WaitingBytes
            <4>3. LastBytes(Extended(szMsg, From, n, in), IF offset = sndpos THEN 0 ELSE sndpos,
                            From + n, in + n)
                BY <1>2, <2>1, <4>1, <4>2, Appended
            <4>4. QED
                BY <1>1, <2>1, <4>3 DEF WaitingBytes
        <3>3. ~raced => out' + offset' - sndpos' = in'
            BY <1>1, <1>2, <2>1, <3>1 DEF WaitingBytes, LastBytes
        <3>4. QED
            BY <1>1, <2>3, <3>2, <3>3 DEF Emptied
    <2>4. QED
        BY <2>2, <2>3
<1>9. LengthWaits'
    <2>1. SUFFICES ASSUME netPc = "send", connected, ~overrun'
                   PROVE  len \in 1..(offset' - sndpos')
        BY <1>1 DEF LengthWaits, session
    <2>2. len \in 1..(offset - sndpos) /\ offset' = From + n
        BY <1>1, <1>5, <2>1 DEF IInv, LengthWaits
    <2>3. QED
        BY <1>1, <1>2, <2>2
<1>10. QED
    BY <1>1, <1>6, <1>7, <1>8, <1>9 DEF IInv, Emptied, session

\* The handler up to the point where it knows what to send.
LEMMA HandlerIInv ==
    ASSUME IInv, SendPeriod \/ Compare \/ ZeroSndpos \/ ZeroOffset \/ Test \/ Take
    PROVE  IInv'
<1> /\ offset \in Nat /\ sndpos \in Nat /\ in \in Nat /\ out \in Nat /\ len \in Nat
    /\ Claimed \in Nat /\ Size \in Nat /\ Chunk \in Nat /\ Chunk > 0
    /\ Size < Word /\ Word \in Nat
    BY Typed, Constants
<1> UNCHANGED <<szMsg, session, logging, since, in, out, raced, overrun>>
    BY DEF SendPeriod, Compare, ZeroSndpos, ZeroOffset, Test, Take, buffer, history
<1> Claimed' = Claimed
    BY DEF Claimed
<1>1. CASE SendPeriod \/ Compare
    <2>1. /\ UNCHANGED <<offset, sndpos, len>>
          /\ netPc' \in {"compare", "zero_sndpos", "test"}
          /\ netPc \in {"idle", "compare"}
          /\ netPc' = "zero_sndpos" => offset = sndpos
        BY <1>1 DEF SendPeriod, Compare, Goes, buffer
    <2>2. QED
        BY <2>1 DEF IInv, TypeOK, RoomKept, Emptied, LengthWaits, WaitingBytes, session
<1>2. CASE ZeroSndpos
    <2>1. /\ UNCHANGED <<offset, len>> /\ sndpos' = 0
          /\ netPc = "zero_sndpos" /\ netPc' = "zero_offset"
        BY <1>2 DEF ZeroSndpos, Goes
    <2>2. Emptied'
        BY <2>1 DEF IInv, Emptied, session
    <2>3. QED
        BY <2>1, <2>2 DEF IInv, TypeOK, RoomKept, LengthWaits, session
<1>3. CASE ZeroOffset
    <2>1. /\ UNCHANGED <<sndpos, len>> /\ offset' = 0
          /\ netPc = "zero_offset" /\ netPc' = "test"
        BY <1>3 DEF ZeroOffset, Goes
    <2>2. Emptied'
        BY <2>1 DEF IInv, Emptied, WaitingBytes, LastBytes, session
    <2>3. RoomKept'
        BY <2>1, Typed, Constants DEF IInv, RoomKept
    <2>4. QED
        BY <2>1, <2>2, <2>3 DEF IInv, TypeOK, LengthWaits, session
<1>4. CASE Test \/ Take
    <2>1. /\ UNCHANGED <<offset, sndpos>>
          /\ netPc \in {"test", "take"} /\ netPc' \in {"send", "take", "idle"}
        BY <1>4 DEF Test, Take, Goes, buffer
    <2>2. len' \in 0..(Word - 1)
        <3>1. CASE Test
            <4>1. len' = len \/ (offset - sndpos >= Chunk /\ len' = Chunk)
                BY <3>1 DEF Test
            <4>2. len \in 0..(Word - 1) /\ offset \in 0..(Word - 1)
                BY DEF IInv, TypeOK
            <4>3. QED
                BY <4>1, <4>2
        <3>2. CASE Take
            BY <3>2, Words DEF Take
        <3>3. QED
            BY <1>4, <3>1, <3>2
    <2>3. LengthWaits'
        <3>1. SUFFICES ASSUME netPc' = "send", connected, ~overrun
                       PROVE  len' \in 1..(offset - sndpos)
            BY <2>1 DEF LengthWaits, session
        <3>2. sndpos <= offset /\ offset < Size
            BY <2>1, <3>1, Typed DEF IInv, Emptied, WaitingBytes, LastBytes
        <3>3. CASE Test
            BY <3>1, <3>2, <3>3 DEF Test, Goes
        <3>4. CASE Take
            <4>1. offset - sndpos \in 1..(Word - 1) /\ len' = (offset - sndpos) % Word
                BY <3>1, <3>2, <3>4 DEF Take, Goes
            <4>2. (offset - sndpos) % Word = offset - sndpos
                BY <4>1, Words
            <4>3. QED
                BY <4>1, <4>2
        <3>5. QED
            BY <1>4, <3>3, <3>4
    <2>4. Emptied'
        BY <2>1 DEF IInv, Emptied, WaitingBytes, session
    <2>5. QED
        BY <2>1, <2>2, <2>3, <2>4 DEF IInv, TypeOK, RoomKept, session
<1>5. QED
    BY <1>1, <1>2, <1>3, <1>4

\* tcp_write: the bytes it takes are the next ones, or the connection is lost.
LEMMA SendIInv ==
    ASSUME IInv, SendOk \/ SendFails
    PROVE  IInv'
<1> /\ offset \in Nat /\ sndpos \in Nat /\ in \in Nat /\ out \in Nat /\ len \in Nat
    /\ Claimed \in Nat /\ Size \in Nat /\ MaxBytes \in Nat
    /\ Size < Word /\ Word \in Nat
    BY Typed, Constants
<1> UNCHANGED <<szMsg, logging, len, since, in, raced, overrun>> /\ netPc' \in {"compare", "idle"}
    BY DEF SendOk, SendFails, Goes, Loop, history
<1> Claimed' = Claimed
    BY DEF Claimed
<1>1. CASE SendOk
    <2>1. /\ netPc = "send" /\ connected
          /\ out' = IF overrun THEN out ELSE szMsg[sndpos + len - 1]
          /\ sndpos' = (sndpos + len) % Word
          /\ UNCHANGED <<offset, session>>
        BY <1>1 DEF SendOk, Goes
    <2>2. sndpos' \in 0..(Word - 1)
        <3>1. sndpos + len \in Int /\ Word > 0
            BY DEF Word
        <3>2. QED
            BY <2>1, <3>1, Words
    <2>3. CASE overrun
        BY <2>1, <2>2, <2>3 DEF IInv, TypeOK, RoomKept, Emptied, LengthWaits, session
    <2>4. CASE ~overrun
        <3>1. 1 <= len /\ sndpos + len <= offset /\ offset < Size
            BY <2>1, <2>4, Typed DEF IInv, LengthWaits
        <3>2. sndpos' = sndpos + len
            BY <2>1, <3>1, Words, Constants
        <3>3. out' = in - (offset - sndpos - len)
            <4>1. sndpos + len - 1 \in sndpos..(offset - 1)
                BY <3>1
            <4>2. szMsg[sndpos + len - 1] = in - (offset - 1 - (sndpos + len - 1))
                BY <2>1, <2>4, <4>1 DEF IInv, Emptied, WaitingBytes, LastBytes
            <4>3. QED
                BY <2>1, <2>4, <4>2
        <3>4. out' \in 0..MaxBytes
            BY <2>1, <2>4, <3>1, Typed
        <3>5. WaitingBytes'
            BY <2>1, <2>4, <3>1, <3>2 DEF IInv, Emptied, WaitingBytes, LastBytes
        <3>6. Emptied'
            BY <2>1, <3>2, <3>3, <3>5 DEF Emptied
        <3>7. TypeOK'
            BY <2>1, <2>2, <3>4 DEF IInv, TypeOK, session
        <3>8. QED
            BY <2>1, <3>6, <3>7 DEF IInv, RoomKept, LengthWaits
    <2>5. QED
        BY <2>3, <2>4
<1>2. CASE SendFails
    <2>1. /\ offset' = 0 /\ sndpos' = len /\ connected' = FALSE /\ debugOn' = FALSE
          /\ out' = out
        BY <1>2 DEF SendFails, history
    <2>2. TypeOK'
        <3>1. offset' \in 0..(Word - 1)
            BY <2>1
        <3>2. QED
            BY <2>1, <3>1 DEF IInv, TypeOK
    <2>3. RoomKept'
        BY <2>1, Typed, Constants DEF IInv, RoomKept
    <2>4. QED
        BY <2>1, <2>2, <2>3 DEF IInv, Emptied, LengthWaits
<1>3. QED
    BY <1>1, <1>2

\* A session begins with an empty buffer.
LEMMA SessionIInv ==
    ASSUME IInv, Session
    PROVE  IInv'
<1> /\ offset \in Nat /\ in \in Nat /\ Claimed \in Nat /\ Size \in Nat /\ MaxBytes \in Nat
    /\ Word \in Nat /\ Word > 0
    BY Typed, Constants
<1> UNCHANGED <<logging, netPc, len>> /\ netPc = "idle"
    BY DEF Session, telnet_accept, DebugCommand, telnet_close, telnet_conn_err
<1> Claimed' = Claimed
    BY DEF Claimed
<1>1. CASE telnet_accept
    <2>1. /\ connected' = TRUE /\ debugOn' = FALSE /\ raced' = FALSE
          /\ overrun' = FALSE /\ since' = [t \in Tasks |-> 0]
          /\ offset' = 0 /\ sndpos' = 0 /\ in' = 0 /\ out' = 0
          /\ szMsg' = [i \in 0..(Size - 1) |-> 0]
        BY <1>1 DEF telnet_accept
    <2>2. TypeOK'
        <3>1. szMsg' \in [0..(Size - 1) -> 0..MaxBytes]
            BY <2>1
        <3>2. /\ offset' \in 0..(Word - 1) /\ sndpos' \in 0..(Word - 1)
              /\ in' \in 0..MaxBytes /\ out' \in 0..MaxBytes
            BY <2>1
        <3>3. QED
            BY <2>1, <3>1, <3>2 DEF IInv, TypeOK
    <2>3. RoomKept'
        <3>1. \A t \in Tasks : since'[t] = 0
            BY <2>1
        <3>2. in + Claimed <= MaxBytes
            BY DEF IInv, RoomKept
        <3>3. in' + Claimed' <= MaxBytes
            BY <2>1, <3>2
        <3>4. offset' < Size /\ \A t \in logging' : offset' + Reserve <= Size + since'[t]
            BY <2>1, <3>1, Typed, Constants
        <3>5. QED
            BY <2>1, <3>1, <3>3, <3>4 DEF RoomKept
    <2>4. Emptied' /\ LengthWaits'
        BY <2>1 DEF Emptied, LengthWaits, WaitingBytes, LastBytes
    <2>5. QED
        BY <2>2, <2>3, <2>4 DEF IInv
<1>2. CASE DebugCommand
    BY <1>2 DEF DebugCommand, IInv, TypeOK, RoomKept, Emptied, LengthWaits, WaitingBytes, buffer,
                history
<1>3. CASE telnet_close \/ telnet_conn_err
    <2>1. /\ connected' = FALSE /\ debugOn' \in BOOLEAN
          /\ UNCHANGED <<buffer, history>>
        BY <1>3 DEF telnet_close, telnet_conn_err, IInv, TypeOK
    <2>2. QED
        BY <2>1 DEF IInv, TypeOK, RoomKept, Emptied, LengthWaits, buffer, history
<1>4. QED
    BY <1>1, <1>2, <1>3 DEF Session

\* Every step keeps the invariant.
LEMMA StepIInv == IInv /\ [Next]_vars => IInv'
<1>1. SUFFICES ASSUME IInv, [Next]_vars PROVE IInv'
    OBVIOUS
<1>2. ASSUME NEW t \in Tasks, Log(t) PROVE IInv'
    BY <1>1, <1>2, FindRoomIInv, AppendIInv DEF Log
<1>3. CASE SendPeriod \/ Handler
    BY <1>1, <1>3, HandlerIInv, SendIInv DEF Handler
<1>4. CASE Session
    BY <1>1, <1>4, SessionIInv
<1>5. CASE UNCHANGED vars
    BY <1>1, <1>5 DEF vars, buffer, session, history, IInv, TypeOK, RoomKept, Claimed,
                      Emptied, WaitingBytes, LengthWaits
<1>6. QED
    BY <1>1, <1>2, <1>3, <1>4, <1>5 DEF Next

\* The invariant holds in every reachable state.
LEMMA Invariance == Spec => []IInv
BY InitIInv, StepIInv, PTL DEF Spec

(***************************************************************************)
(* The theorems.                                                           *)
(***************************************************************************)

\* Only DbgLog begins an overrun.
LEMMA OverrunStep ==
    ASSUME [Next]_vars, ~overrun, overrun'
    PROVE  \E t \in Tasks, n \in 1..MaxLen : Append(t, n)
<1>1. CASE UNCHANGED vars
    BY <1>1 DEF vars, history
<1>2. ASSUME NEW t \in Tasks, FindRoom(t) PROVE FALSE
    BY <1>2 DEF FindRoom, history
<1>3. CASE SendPeriod \/ Handler
    BY <1>3 DEF SendPeriod, Handler, Compare, ZeroSndpos, ZeroOffset, Test, Take, SendOk, SendFails,
                history
<1>4. CASE Session
    BY <1>4 DEF Session, telnet_accept, DebugCommand, telnet_close, telnet_conn_err, history
<1>5. QED
    BY <1>1, <1>2, <1>3, <1>4 DEF Next, Log

\* A message runs past the end of szMsg only if it is longer than the room asked
\* for, together with what other tasks logged since its own looked at the room:
\* DbgLog does so outside the lock, and does not look at the length at all.
THEOREM BufferIsHeld == Spec => BufferHolds
<1> DEFINE Step == ~overrun /\ overrun' =>
                      \E t \in logging \ logging' : since[t] + (in' - in) >= Reserve
<1>1. ASSUME IInv, [Next]_vars, ~overrun, overrun'
      PROVE  \E t \in logging \ logging' : since[t] + (in' - in) >= Reserve
    <2>1. PICK t \in Tasks, n \in 1..MaxLen : Append(t, n)
        BY <1>1, OverrunStep
    <2>2. t \in logging \ logging' /\ in' = in + n /\ From + n >= Size
        BY <1>1, <2>1 DEF Append
    <2>3. offset + Reserve <= Size + since[t]
        BY <1>1, <2>2 DEF IInv, RoomKept
    <2>4. From \in Nat /\ From <= offset
        BY <1>1, Typed DEF From
    <2>5. since[t] + (in' - in) >= Reserve
        <3>1. since[t] \in Nat /\ offset \in Nat /\ in \in Nat
            BY <1>1, Typed
        <3>2. in' - in = n /\ n \in Nat
            BY <2>2, <3>1, Constants
        <3>3. QED
            BY <2>2, <2>3, <2>4, <3>1, <3>2, Constants
    <2>6. QED
        BY <2>2, <2>5
<1>2. IInv /\ [Next]_vars => [Step]_vars
    BY <1>1
<1>3. QED
    BY <1>2, Invariance, PTL DEF Spec, BufferHolds

\* Until a message runs past the end, what waits in the buffer is whole and in
\* order; nothing is lost in it unless a task logs between the handler's test and
\* the end of its emptying the buffer.
THEOREM WaitingIsIntact == Spec => []UnsentIntact
<1>1. IInv => UnsentIntact
    BY DEF IInv, Emptied, WaitingBytes, LastBytes, UnsentIntact, Emptying
<1>2. QED
    BY <1>1, Invariance, PTL

\* DbgLogSendPeriodHandler hands to lwIP only what waits, although a message may
\* come between its two looks at the length.
THEOREM LengthIsThere == Spec => []LengthWaits
<1>1. IInv => LengthWaits
    BY DEF IInv
<1>2. QED
    BY <1>1, Invariance, PTL

=============================================================================
