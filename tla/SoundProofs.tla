---------------------------- MODULE SoundProofs ----------------------------
(***************************************************************************)
(* What holds of Heartbeat and of Sound whatever the volumes asked for,    *)
(* the digits printed and the players of a process.                        *)
(***************************************************************************)
EXTENDS Sound, FiniteSetTheorems, TLAPS

\* A printed number is a number again.
LEMMA PrintedType == \A x \in Nat : Printed(x) \in Nat
<1> SUFFICES ASSUME NEW x \in Nat PROVE Printed(x) \in Nat
  OBVIOUS
<1>1. CASE x \in 1 .. Grain
  BY <1>1, GrainAssumption DEF Printed
<1>2. CASE x \notin 1 .. Grain
  <2>1. Grain \div 2 \in Nat
    BY GrainAssumption
  <2>2. (x + Grain \div 2) \div Grain \in Nat
    BY <2>1, GrainAssumption
  <2> QED
    BY <1>2, <2>2, GrainAssumption DEF Printed
<1> QED
  BY <1>1, <1>2

LEMMA MaxOfOne == \A i \in Int : Max({i}) = i
  BY DEF Max

\* serialize() and parse() (nsvr_packet_handler.cpp:20-97): a heartbeat is
\* accepted, and read as it was, but for the digits of its time and volume.
THEOREM RoundTrip ==
  ASSUME NEW time \in Nat, NEW volume \in Nat, NEW mute \in Nat,
         NEW state \in Nat, NEW base \in Nat
  PROVE  LET text == Serialize(Packet(time, volume, mute, state, base))
         IN  /\ Accepted(text)
             /\ Parse(text) = Packet(Printed(time), Printed(volume), mute,
                                     state, base)
<1> DEFINE packet == Packet(time, volume, mute, state, base)
           commands == Serialize(packet).commands
<1>1. commands = <<Command("t", Printed(time)), Command("v", Printed(volume)),
                   Command("m", mute), Command("s", state),
                   Command("b", base)>>
  BY DEF Serialize, Packet
<1>2. /\ DOMAIN commands = 1 .. 5
      /\ commands[1] = Command("t", Printed(time))
      /\ commands[2] = Command("v", Printed(volume))
      /\ commands[3] = Command("m", mute)
      /\ commands[4] = Command("s", state)
      /\ commands[5] = Command("b", base)
  BY <1>1
<1> HIDE DEF commands
<1>3. /\ \A i \in 1 .. 5 : commands[i].value # Malformed
      /\ \A i \in 1 .. 5 : commands[i].att \in Attributes
  BY <1>2, PrintedType DEF Command, Malformed, Attributes
<1>4. ReadBy(commands) = 1 .. 5
  BY <1>2, <1>3 DEF ReadBy
<1>5. Cardinality(ReadBy(commands)) = PACKET_ATT_COUNT
  <2>1. Cardinality(1 .. 5) = 5
    <3>1. 1 \in Int /\ 5 \in Int /\ ~(1 > 5) /\ 5 - 1 + 1 = 5
      OBVIOUS
    <3> QED
      BY <3>1, FS_Interval
  <2> QED
    BY <1>4, <2>1 DEF PACKET_ATT_COUNT
<1>6. /\ {i \in 1 .. 5 : commands[i].att = "t"} = {1}
      /\ {i \in 1 .. 5 : commands[i].att = "v"} = {2}
      /\ {i \in 1 .. 5 : commands[i].att = "m"} = {3}
      /\ {i \in 1 .. 5 : commands[i].att = "s"} = {4}
      /\ {i \in 1 .. 5 : commands[i].att = "b"} = {5}
  BY <1>2 DEF Command
<1>7. Accepted(Serialize(packet))
  BY <1>5 DEF Accepted, Serialize, commands
<1> DEFINE Those(a) == {i \in 1 .. 5 : commands[i].att = a}
           Read(a) == IF Those(a) = {} THEN NewPacket[a]
                                       ELSE commands[Max(Those(a))].value
<1>8. Parse(Serialize(packet)) = [a \in Attributes |-> Read(a)]
  BY <1>4 DEF Parse, commands
<1>9. /\ Max(Those("t")) = 1
      /\ Max(Those("v")) = 2
      /\ Max(Those("m")) = 3
      /\ Max(Those("s")) = 4
      /\ Max(Those("b")) = 5
  BY <1>6, MaxOfOne
<1>10. /\ Read("t") = Printed(time)
       /\ Read("v") = Printed(volume)
       /\ Read("m") = mute
       /\ Read("s") = state
       /\ Read("b") = base
  <2>1. \A a \in Attributes : Those(a) # {}
    BY <1>6 DEF Attributes
  <2> HIDE DEF Those
  <2> QED
    BY <1>2, <1>9, <2>1 DEF Attributes, Command
<1>11. [a \in Attributes |-> Read(a)]
       = Packet(Printed(time), Printed(volume), mute, state, base)
  <2> HIDE DEF Read
  <2> QED
    BY <1>10 DEF Attributes, Packet
<1> QED
  BY <1>7, <1>8, <1>11

-----------------------------------------------------------------------------
(* The methods.                                                            *)

\* A player that is open and muted is silent.
Silent(s) == s.open /\ s.mMute => s.volume = 0

LEMMA VolumesFacts == Full \in Volumes /\ Volumes \subseteq Nat
  BY FullAssumption DEF Volumes

LEMMA ClampType == \A vol \in Int : Clamp(vol) \in Volumes
  BY FullAssumption DEF Clamp, Volumes

LEMMA VolumeType ==
  ASSUME NEW s \in Sounds
  PROVE  GetVolume(s) \in Volumes /\ Refreshed(s) \in Sounds
  BY FullAssumption DEF GetVolume, Refreshed, Sounds, Volumes

LEMMA SetVolumeType ==
  ASSUME NEW s \in Sounds, NEW vol \in Int
  PROVE  /\ SetVolume(s, vol) \in Sounds
         /\ s.open => ~SetVolume(s, vol).mMute
         /\ s.open => SetVolume(s, vol).volume = Clamp(vol)
         /\ SetVolume(s, vol).open = s.open
<1>1. Clamp(vol) \in Volumes
  BY ClampType
<1> QED
  BY <1>1 DEF SetVolume, Sounds

LEMMA SetMuteType ==
  ASSUME NEW s \in Sounds, NEW saved \in Volumes, NEW on \in BOOLEAN
  PROVE  /\ SetMute(s, saved, on).s \in Sounds
         /\ SetMute(s, saved, on).saved \in Volumes
         /\ Silent(SetMute(s, saved, on).s)
<1>1. CASE ~s.open /\ ~(on /\ saved = 0)
  BY <1>1 DEF SetMute, Returns, Silent
<1>2. CASE (s.open \/ saved = 0) /\ on
  <2> DEFINE r == SetVolume(Refreshed(s), 0)
  <2>1. Refreshed(s) \in Sounds /\ Refreshed(s).open = s.open
    BY VolumeType DEF Refreshed, Sounds
  <2>2. r \in Sounds /\ (s.open => r.volume = Clamp(0)) /\ r.open = s.open
    BY <2>1, SetVolumeType
  <2>3. Clamp(0) = 0
    BY FullAssumption DEF Clamp
  <2>4. SetMute(s, saved, on) = Returns([r EXCEPT !.mMute = TRUE],
                                        GetVolume(s))
    BY <1>2 DEF SetMute
  <2> HIDE DEF r
  <2>5. [r EXCEPT !.mMute = TRUE] \in Sounds
    BY <2>2 DEF Sounds
  <2>6. Silent([r EXCEPT !.mMute = TRUE])
    BY <2>2, <2>3 DEF Sounds, Silent
  <2> QED
    BY <2>4, <2>5, <2>6, VolumeType DEF Returns
<1>3. CASE s.open /\ ~on
  <2> DEFINE u == [s EXCEPT !.mMute = FALSE]
             r == SetVolume(u, saved)
  <2> HIDE DEF r
  <2>1. u \in Sounds /\ saved \in Int
    <3>1. u \in Sounds
      BY DEF Sounds
    <3> QED
      BY <3>1, VolumesFacts
  <2>4. u.open
    BY <1>3 DEF Sounds
  <2>2. r \in Sounds /\ ~r.mMute
    <3> HIDE DEF u
    <3> QED
      BY <2>1, <2>4, SetVolumeType DEF r
  <2>3. SetMute(s, saved, on) = Returns(r, Full)
    BY <1>3 DEF SetMute, r
  <2> QED
    BY <2>2, <2>3, FullAssumption DEF Returns, Silent, Volumes
<1> QED
  BY <1>1, <1>2, <1>3

LEMMA PlayedType ==
  ASSUME NEW s \in Sounds, NEW saved \in Volumes
  PROVE  /\ Played(s, saved).s \in Sounds
         /\ Played(s, saved).saved \in Volumes
         /\ Silent(Played(s, saved).s)
<1>1. Refreshed(s) \in Sounds
  BY VolumeType
<1>2. CASE s.mMute /\ GetVolume(s) # 0
  BY <1>1, <1>2, SetMuteType DEF Played
<1>3. CASE ~(s.mMute /\ GetVolume(s) # 0)
  <2>1. Played(s, saved).s \in {s, Refreshed(s)}
    BY <1>3 DEF Played, Returns
  <2>2. Silent(s) /\ Silent(Refreshed(s))
    BY <1>3 DEF Silent, GetVolume, Refreshed, Sounds
  <2> QED
    BY <1>1, <1>3, <2>1, <2>2 DEF Played, Returns
<1> QED
  BY <1>2, <1>3

LEMMA HeardType ==
  ASSUME NEW s \in Sounds, NEW saved \in Volumes, NEW packet,
         packet.v \in Int
  PROVE  /\ Heard(s, saved, packet).s \in Sounds
         /\ Heard(s, saved, packet).saved \in Volumes
         /\ Silent(s) => Silent(Heard(s, saved, packet).s)
<1> DEFINE muting == IF s.mMute # (packet.m # 0)
                     THEN SetMute(s, saved, packet.m # 0)
                     ELSE Returns(s, saved)
           now == Refreshed(muting.s)
<1>1. /\ muting.s \in Sounds /\ muting.saved \in Volumes
      /\ Silent(s) => Silent(muting.s)
  BY SetMuteType DEF Returns
<1>2. Heard(s, saved, packet) =
        Returns(IF GetVolume(now) # packet.v THEN SetVolume(now, packet.v)
                                             ELSE now, muting.saved)
  BY DEF Heard
<1> HIDE DEF muting
<1>3. now \in Sounds /\ (Silent(s) => Silent(now))
  BY <1>1, VolumeType DEF Refreshed, Silent, Sounds
<1> HIDE DEF now
<1>4. SetVolume(now, packet.v) \in Sounds /\ Silent(SetVolume(now, packet.v))
  BY <1>3, SetVolumeType DEF Silent
<1> QED
  BY <1>1, <1>2, <1>3, <1>4 DEF Returns

-----------------------------------------------------------------------------
(* The invariant: besides the types, what a late heartbeat may say.        *)

SilentOnceAsked == \A p \in Players : played[p] => Silent(player[p])

Sent(text) == \E volume \in Volumes, mute \in {0, 1} :
                text = Serialize(Packet(0, volume, mute, 0, 0))

Inv == /\ TypeOK
       /\ SilentOnceAsked
       /\ late = NoText \/ Sent(late)

LEMMA HeartbeatSent == ASSUME NEW s \in Sounds PROVE Sent(HeartbeatOf(s))
  BY VolumeType DEF HeartbeatOf, Sent

LEMMA SentParsed ==
  ASSUME NEW text, Sent(text)
  PROVE  Parse(text).v \in Nat
<1> PICK volume \in Volumes, mute \in {0, 1} :
      text = Serialize(Packet(0, volume, mute, 0, 0))
  BY DEF Sent
<1>1. volume \in Nat /\ mute \in Nat
  BY VolumesFacts
<1>2. Parse(text) = Packet(Printed(0), Printed(volume), mute, 0, 0)
  BY <1>1, RoundTrip
<1> QED
  BY <1>1, <1>2, PrintedType DEF Packet

LEMMA ClosedType ==
  \A muted \in BOOLEAN :
    /\ Closed(muted) \in Sounds
    /\ [Closed(muted) EXCEPT !.open = TRUE] \in Sounds
<1> SUFFICES ASSUME NEW muted \in BOOLEAN
             PROVE  /\ Closed(muted) \in Sounds
                    /\ [Closed(muted) EXCEPT !.open = TRUE] \in Sounds
  OBVIOUS
<1>1. Closed(muted) \in Sounds
  BY VolumesFacts DEF Closed, Sounds
<1> QED
  BY <1>1 DEF Sounds

\* What a method returns is put where it belongs.
LEMMA ResultType ==
  ASSUME TypeOK, NEW p \in Players, NEW r, Result(p, r),
         r.s \in Sounds, r.saved \in Volumes
  PROVE  /\ player' = [player EXCEPT ![p] = r.s]
         /\ player' \in [Players -> Sounds]
         /\ saved_volume' \in [Players -> Volumes]
         /\ before' \in [Players -> SUBSET Volumes]
<1>1. /\ player' = [player EXCEPT ![p] = r.s]
      /\ saved_volume' = [saved_volume EXCEPT ![ProcessOf(p)] = r.saved]
      /\ \/ before' = [before EXCEPT ![p] = {GetVolume(player[p])}]
         \/ before' = before
  BY DEF Result, Becomes
<1>2. GetVolume(player[p]) \in Volumes
  BY VolumeType DEF TypeOK
<1> QED
  BY <1>1, <1>2 DEF TypeOK

LEMMA InitInv == Init => Inv
<1> SUFFICES ASSUME Init PROVE Inv
  OBVIOUS
<1>1. TypeOK
  <2>1. Closed(FALSE) \in Sounds /\ Full \in Volumes
    BY ClosedType, VolumesFacts
  <2> QED
    BY <2>1 DEF Init, TypeOK
<1> QED
  BY <1>1 DEF Init, Inv, SilentOnceAsked, Closed

LEMMA StepInv == Inv /\ [Next]_vars => Inv'
<1> SUFFICES ASSUME Inv, [Next]_vars PROVE Inv'
  OBVIOUS
<1> USE DEF Inv
<1>0. \A p \in Players :
        /\ player[p] \in Sounds
        /\ saved_volume[ProcessOf(p)] \in Volumes
        /\ player[p].mMute \in BOOLEAN
  BY DEF TypeOK, Sounds, ProcessOf, Players
<1>1. ASSUME NEW p \in Players, NEW vol \in Asked, UserSetVolume(p, vol)
      PROVE  Inv'
  <2> DEFINE s == SetVolume(player[p], vol)
  <2>1. vol \in Int
    BY AskedAssumption
  <2>2. s \in Sounds /\ Silent(s)
    BY <2>1, <1>0, SetVolumeType DEF Silent
  <2> HIDE DEF s
  <2>3. player' = [player EXCEPT ![p] = s]
    BY <1>1 DEF UserSetVolume, Becomes, s
  <2> QED
    BY <1>1, <2>2, <2>3 DEF UserSetVolume, TypeOK, SilentOnceAsked
<1>2. ASSUME NEW p \in Players, NEW on \in BOOLEAN, UserSetMute(p, on)
      PROVE  Inv'
  <2> DEFINE r == SetMute(player[p], saved_volume[ProcessOf(p)], on)
  <2>1. r.s \in Sounds /\ r.saved \in Volumes /\ Silent(r.s)
    BY <1>0, SetMuteType
  <2>2. Result(p, r) /\ UNCHANGED <<late, played>>
    BY <1>2 DEF UserSetMute
  <2> HIDE DEF r
  <2> QED
    BY <2>1, <2>2, ResultType DEF TypeOK, SilentOnceAsked
<1>3. ASSUME NEW p \in Players, UserPlay(p) PROVE Inv'
  <2> DEFINE r == Played(player[p], saved_volume[ProcessOf(p)])
  <2>1. r.s \in Sounds /\ r.saved \in Volumes /\ Silent(r.s)
    BY <1>0, PlayedType
  <2>2. /\ Result(p, r)
        /\ played' = [played EXCEPT ![p] = TRUE] /\ late' = late
    BY <1>3 DEF UserPlay
  <2> HIDE DEF r
  <2> QED
    BY <2>1, <2>2, ResultType DEF TypeOK, SilentOnceAsked
<1>4. ASSUME NEW p \in Players, UserClose(p) \/ UserOpen(p) PROVE Inv'
  <2>1. PICK s \in Sounds : player' = [player EXCEPT ![p] = s]
    BY <1>0, <1>4, ClosedType DEF UserClose, UserOpen, Becomes
  <2>2. /\ played' = [played EXCEPT ![p] = FALSE]
        /\ UNCHANGED <<saved_volume, late>>
        /\ before' = before \/ before' = [before EXCEPT ![p] = @ \union {Full}]
    BY <1>4 DEF UserClose, UserOpen
  <2>3. before' \in [Players -> SUBSET Volumes]
    BY <2>2, VolumesFacts DEF TypeOK
  <2> QED
    BY <2>1, <2>2, <2>3 DEF TypeOK, SilentOnceAsked
<1>5. ASSUME NEW text, Sent(text), OnMessage(text) PROVE Inv'
  <2> DEFINE c == "client"
             r == Heard(player[c], saved_volume[ProcessOf(c)], Parse(text))
  <2>1. c \in Players /\ Parse(text).v \in Int
    BY <1>5, SentParsed DEF Players
  <2>2. /\ r.s \in Sounds /\ r.saved \in Volumes
        /\ Silent(player[c]) => Silent(r.s)
    <3>1. /\ player[c] \in Sounds
          /\ saved_volume[ProcessOf(c)] \in Volumes
      BY <1>0, <2>1
    <3> HIDE DEF c
    <3> QED
      BY <2>1, <3>1, HeardType
  <2>3. Result(c, r) /\ UNCHANGED <<late, played>>
    BY <1>5 DEF OnMessage
  <2> HIDE DEF r
  <2>4. /\ player' = [player EXCEPT ![c] = r.s]
        /\ TypeOK'
    BY <2>1, <2>2, <2>3, ResultType DEF TypeOK
  <2> HIDE DEF c
  <2> QED
    BY <2>1, <2>2, <2>3, <2>4 DEF TypeOK, SilentOnceAsked
<1>6. CASE Dispatch
  <2> DEFINE c == "server"
             s == Refreshed(player[c])
  <2>1. c \in Players /\ s \in Sounds /\ (Silent(player[c]) => Silent(s))
    BY <1>0, VolumeType DEF Players, Refreshed, Silent, Sounds
  <2>2. Sent(HeartbeatOf(player[c]))
    BY <1>0, HeartbeatSent DEF Players
  <2>3. /\ player' = [player EXCEPT ![c] = s]
        /\ late' = late \/ late' = HeartbeatOf(player[c])
        /\ UNCHANGED <<saved_volume, played, before>>
    BY <1>6 DEF Dispatch, Becomes
  <2> HIDE DEF c, s
  <2> QED
    BY <2>1, <2>2, <2>3 DEF TypeOK, SilentOnceAsked
<1>7. CASE HeartbeatComes \/ LateComes
  <2>1. PICK text : Sent(text) /\ OnMessage(text)
    BY <1>0, <1>7, HeartbeatSent
       DEF HeartbeatComes, LateComes, Players
  <2> QED
    BY <2>1, <1>5
<1>8. CASE LateIsLost
  BY <1>8 DEF LateIsLost, TypeOK, SilentOnceAsked
<1>9. CASE UNCHANGED vars
  BY <1>9 DEF vars, TypeOK, SilentOnceAsked, Sent
<1> QED
  BY <1>1, <1>2, <1>3, <1>4, <1>6, <1>7, <1>8, <1>9 DEF Next, UserCall

LEMMA Invariance == SafeSpec => []Inv
  BY InitInv, StepInv, PTL DEF SafeSpec

\* Volumes stay between 0. and 1., whatever is asked for or heard
\* (nsvr_player.cpp:427).
THEOREM TypeCorrect == Spec => []TypeOK
<1>1. Inv => TypeOK
  BY DEF Inv
<1> QED
  BY Invariance, <1>1, PTL DEF Spec

\* A muted player that was asked to play is silent, for any volumes, printed
\* digits, number of processes and use of setMute (nsvr_player.cpp:216-221).
THEOREM MutedStaysSilent == Spec => []MutedIsSilent
<1>1. Inv => MutedIsSilent
  BY DEF Inv, SilentOnceAsked, Silent, MutedIsSilent
<1> QED
  BY Invariance, <1>1, PTL DEF Spec

-----------------------------------------------------------------------------
(* The volume to go back to, if the players are in processes of their own  *)
(* and no player is muted twice.                                           *)

Separate == OneProcess = FALSE /\ Toggles = TRUE

\* While a player is muted the volume saved is one to go back to; so is the
\* volume of its pipeline, unless that is silent: a media opened since is
\* loud, and play() then saves its volume and mutes it again.
Kept(s, saved, to) ==
  s.mMute => /\ saved \in to
             /\ s.open => s.volume = 0 \/ s.volume \in to

Remembered == \A p \in Players : Kept(player[p], saved_volume[p], before[p])

\* The volumes to go back to after a method that returned r.
After(s, r, to) == IF r.s.mMute /\ ~s.mMute THEN {GetVolume(s)} ELSE to

LEMMA SetMuteKept ==
  ASSUME NEW s \in Sounds, NEW saved \in Volumes, NEW to, Kept(s, saved, to),
         NEW on \in BOOLEAN,
         on # s.mMute \/ (on /\ s.open /\ s.volume \in to)
  PROVE  LET r == SetMute(s, saved, on)
         IN  /\ Kept(r.s, r.saved, After(s, r, to))
             /\ s.open /\ ~on => r.s.volume = saved /\ ~r.s.mMute
             /\ r.s.open = s.open
<1> DEFINE r == SetMute(s, saved, on)
<1>0. Silent(r.s)
  BY SetMuteType
<1>1. CASE ~s.open /\ ~(on /\ saved = 0)
  BY <1>1 DEF SetMute, Returns, Kept, After
<1>2. CASE (s.open \/ saved = 0) /\ on
  <2> DEFINE u == SetVolume(Refreshed(s), 0)
  <2>1. Refreshed(s) \in Sounds /\ Refreshed(s).open = s.open
    BY VolumeType DEF Refreshed, Sounds
  <2>2. u \in Sounds /\ u.open = s.open
    BY <2>1, SetVolumeType
  <2>3. r = Returns([u EXCEPT !.mMute = TRUE], GetVolume(s))
    BY <1>2 DEF SetMute
  <2> HIDE DEF u, r
  <2>4. r.saved = GetVolume(s) /\ r.s.mMute /\ r.s.open = s.open
    BY <2>2, <2>3 DEF Returns, Sounds
  <2>5. GetVolume(s) \in After(s, r, to)
    BY <1>2, <2>4 DEF After, GetVolume, Sounds
  <2> QED
    BY <1>0, <1>2, <2>4, <2>5 DEF Kept, Silent, r
<1>3. CASE s.open /\ ~on
  <2> DEFINE u == [s EXCEPT !.mMute = FALSE]
             v == SetVolume(u, saved)
  <2>1. u \in Sounds /\ u.open = s.open
    BY DEF Sounds
  <2>2. r = Returns(v, Full)
    BY <1>3 DEF SetMute
  <2> HIDE DEF u, r
  <2>3. v.volume = Clamp(saved) /\ ~v.mMute /\ v.open = s.open
    <3>1. saved \in Int
      BY VolumesFacts
    <3> QED
      BY <1>3, <2>1, <3>1, SetVolumeType
  <2>4. Clamp(saved) = saved
    BY FullAssumption DEF Clamp, Volumes
  <2> HIDE DEF v
  <2>5. r.s = v
    BY <2>2 DEF Returns
  <2>6. /\ Kept(r.s, r.saved, After(s, r, to))
        /\ r.s.volume = saved /\ ~r.s.mMute
        /\ r.s.open = s.open
    BY <2>3, <2>4, <2>5 DEF Kept
  <2> QED
    BY <2>6 DEF r
<1> QED
  BY <1>1, <1>2, <1>3

LEMMA PlayedKept ==
  ASSUME NEW s \in Sounds, NEW saved \in Volumes, NEW to, Kept(s, saved, to)
  PROVE  LET r == Played(s, saved)
         IN  Kept(r.s, r.saved, After(s, r, to))
<1>1. /\ Refreshed(s) \in Sounds /\ Refreshed(s).open = s.open
      /\ Refreshed(s).mMute = s.mMute /\ Refreshed(s).volume = s.volume
      /\ Kept(Refreshed(s), saved, to)
  BY VolumeType DEF Refreshed, Sounds, Kept
<1>2. CASE s.mMute /\ GetVolume(s) # 0
  <2> DEFINE r == SetMute(Refreshed(s), saved, TRUE)
  <2>1. s.open /\ s.volume \in to
    BY <1>2 DEF GetVolume, Kept
  <2>2. Kept(r.s, r.saved, After(Refreshed(s), r, to))
    BY <1>1, <2>1, SetMuteKept
  <2>3. Played(s, saved) = r /\ After(Refreshed(s), r, to) = After(s, r, to)
    BY <1>1, <1>2 DEF Played, After
  <2> QED
    BY <2>2, <2>3
<1>3. CASE ~(s.mMute /\ GetVolume(s) # 0)
  BY <1>1, <1>3 DEF Played, Returns, After, Sounds
<1> QED
  BY <1>2, <1>3

LEMMA HeardKept ==
  ASSUME NEW s \in Sounds, NEW saved \in Volumes, NEW to, Kept(s, saved, to),
         s.open, NEW packet, packet.v \in Int
  PROVE  LET r == Heard(s, saved, packet)
         IN  Kept(r.s, r.saved, After(s, r, to))
<1> DEFINE muting == IF s.mMute # (packet.m # 0)
                     THEN SetMute(s, saved, packet.m # 0)
                     ELSE Returns(s, saved)
           now == Refreshed(muting.s)
           r == Heard(s, saved, packet)
<1>1. /\ muting.s \in Sounds
      /\ Kept(muting.s, muting.saved, After(s, muting, to))
      /\ muting.s.open
  BY SetMuteType, SetMuteKept DEF Returns, After
<1>2. r = Returns(IF GetVolume(now) # packet.v THEN SetVolume(now, packet.v)
                                               ELSE now, muting.saved)
  BY DEF Heard
<1> HIDE DEF muting, r
<1>3. /\ now \in Sounds /\ now.open
      /\ now.mMute = muting.s.mMute /\ now.volume = muting.s.volume
  BY <1>1, VolumeType DEF Refreshed, Sounds
<1> HIDE DEF now
<1>4. CASE GetVolume(now) # packet.v
  <2>1. ~SetVolume(now, packet.v).mMute
    BY <1>3, SetVolumeType
  <2> QED
    BY <1>2, <1>4, <2>1 DEF Returns, Kept, r
<1>5. CASE GetVolume(now) = packet.v
  <2>1. r.s = now /\ r.saved = muting.saved
    BY <1>2, <1>5 DEF Returns
  <2>2. After(s, r, to) = After(s, muting, to)
    BY <1>3, <2>1 DEF After
  <2> QED
    BY <1>1, <1>3, <2>1, <2>2 DEF Kept, r
<1> QED
  BY <1>4, <1>5

\* The other player is in another process.
LEMMA ResultKept ==
  ASSUME Separate, TypeOK, Remembered, NEW p \in Players, NEW r, Result(p, r),
         r.s \in Sounds, r.saved \in Volumes,
         Kept(r.s, r.saved, After(player[p], r, before[p]))
  PROVE  Remembered'
<1>1. /\ player' = [player EXCEPT ![p] = r.s]
      /\ saved_volume' = [saved_volume EXCEPT ![p] = r.saved]
      /\ before' = [before EXCEPT ![p] = After(player[p], r, before[p])]
  BY DEF Separate, ProcessOf, Result, Becomes, After, TypeOK
<1>2. ASSUME NEW q \in Players
      PROVE  Kept(player'[q], saved_volume'[q], before'[q])
  BY <1>1 DEF TypeOK, Remembered
<1> QED
  BY <1>2 DEF Remembered

LEMMA StepRemembered ==
  ASSUME Separate, Inv, Remembered, [Next]_vars
  PROVE  Remembered'
<1>0. \A p \in Players :
        /\ player[p] \in Sounds
        /\ ProcessOf(p) = p /\ saved_volume[p] \in Volumes
        /\ Kept(player[p], saved_volume[p], before[p])
  BY DEF Separate, Inv, TypeOK, ProcessOf, Remembered
\* A step that leaves one player aside from what it saved and may go back to.
<1>1. ASSUME NEW p \in Players, NEW s, NEW to,
             Kept(s, saved_volume[p], to),
             player' = [player EXCEPT ![p] = s],
             saved_volume' = saved_volume, before' = [before EXCEPT ![p] = to]
      PROVE  Remembered'
  <2>1. ASSUME NEW q \in Players
        PROVE  Kept(player'[q], saved_volume'[q], before'[q])
    BY <1>0, <1>1 DEF Inv, TypeOK
  <2> QED
    BY <2>1 DEF Remembered
<1>2. ASSUME NEW p \in Players, NEW vol \in Asked, UserSetVolume(p, vol)
      PROVE  Remembered'
  <2> DEFINE s == SetVolume(player[p], vol)
  <2>1. Kept(s, saved_volume[p], before[p])
    <3>1. s = player[p] \/ ~s.mMute
      BY <1>0 DEF SetVolume, Sounds
    <3> HIDE DEF s
    <3> QED
      BY <1>0, <3>1 DEF Kept
  <2>2. /\ player' = [player EXCEPT ![p] = s] /\ saved_volume' = saved_volume
        /\ before' = [before EXCEPT ![p] = before[p]]
    BY <1>2 DEF UserSetVolume, Becomes, Inv, TypeOK
  <2> QED
    BY <1>1, <2>1, <2>2
<1>3. ASSUME NEW p \in Players, NEW on \in BOOLEAN, UserSetMute(p, on)
      PROVE  Remembered'
  <2> DEFINE r == SetMute(player[p], saved_volume[p], on)
  <2>1. on # player[p].mMute /\ Result(p, r)
    BY <1>0, <1>3 DEF UserSetMute, Separate
  <2>2. r.s \in Sounds /\ r.saved \in Volumes
    BY <1>0, SetMuteType
  <2>3. Kept(r.s, r.saved, After(player[p], r, before[p]))
    BY <1>0, <2>1, SetMuteKept
  <2> HIDE DEF r
  <2> QED
    BY <2>1, <2>2, <2>3, ResultKept DEF Inv
<1>4. ASSUME NEW p \in Players, UserPlay(p) PROVE Remembered'
  <2> DEFINE r == Played(player[p], saved_volume[p])
  <2>1. Result(p, r)
    BY <1>0, <1>4 DEF UserPlay
  <2>2. r.s \in Sounds /\ r.saved \in Volumes
    BY <1>0, PlayedType
  <2>3. Kept(r.s, r.saved, After(player[p], r, before[p]))
    BY <1>0, PlayedKept
  <2> HIDE DEF r
  <2> QED
    BY <2>1, <2>2, <2>3, ResultKept DEF Inv
<1>5. ASSUME NEW p \in Players, UserClose(p) PROVE Remembered'
  <2> DEFINE s == Closed(player[p].mMute)
  <2>1. Kept(s, saved_volume[p], before[p])
    BY <1>0 DEF Closed, Kept
  <2>2. /\ player' = [player EXCEPT ![p] = s] /\ saved_volume' = saved_volume
        /\ before' = [before EXCEPT ![p] = before[p]]
    BY <1>5 DEF UserClose, Becomes, Inv, TypeOK
  <2> QED
    BY <1>1, <2>1, <2>2
<1>6. ASSUME NEW p \in Players, UserOpen(p) PROVE Remembered'
  <2> DEFINE s == [Closed(player[p].mMute) EXCEPT !.open = TRUE]
             to == before[p] \union {Full}
  <2>1. Kept(s, saved_volume[p], to)
    BY <1>0 DEF Closed, Kept
  <2>2. /\ player' = [player EXCEPT ![p] = s] /\ saved_volume' = saved_volume
        /\ before' = [before EXCEPT ![p] = to]
    BY <1>6 DEF UserOpen, Becomes
  <2> QED
    BY <1>1, <2>1, <2>2
<1>7. ASSUME NEW text, Sent(text), OnMessage(text) PROVE Remembered'
  <2> DEFINE c == "client"
             r == Heard(player[c], saved_volume[c], Parse(text))
  <2>1. c \in Players /\ Parse(text).v \in Int /\ player[c].open
    BY <1>7, SentParsed DEF Players, OnMessage
  <2>2. Result(c, r)
    BY <1>0, <1>7, <2>1 DEF OnMessage
  <2> HIDE DEF c
  <2>3. r.s \in Sounds /\ r.saved \in Volumes
    BY <1>0, <2>1, HeardType
  <2>4. Kept(r.s, r.saved, After(player[c], r, before[c]))
    BY <1>0, <2>1, HeardKept
  <2> HIDE DEF r
  <2> QED
    BY <2>1, <2>2, <2>3, <2>4, ResultKept DEF Inv
<1>8. CASE Dispatch
  <2> DEFINE c == "server"
             s == Refreshed(player[c])
  <2>1. c \in Players
    BY DEF Players
  <2>2. Kept(s, saved_volume[c], before[c])
    BY <1>0, <2>1 DEF Refreshed, Kept, Sounds
  <2>3. /\ player' = [player EXCEPT ![c] = s] /\ saved_volume' = saved_volume
        /\ before' = [before EXCEPT ![c] = before[c]]
    BY <1>8 DEF Dispatch, Becomes, Inv, TypeOK
  <2> HIDE DEF c, s
  <2> QED
    BY <1>1, <2>1, <2>2, <2>3
<1>9. CASE HeartbeatComes \/ LateComes
  <2>1. PICK text : Sent(text) /\ OnMessage(text)
    BY <1>0, <1>9, HeartbeatSent DEF HeartbeatComes, LateComes, Players, Inv
  <2> QED
    BY <2>1, <1>7
<1>10. CASE LateIsLost \/ UNCHANGED vars
  BY <1>10 DEF LateIsLost, vars, Remembered
<1> QED
  BY <1>2, <1>3, <1>4, <1>5, <1>6, <1>8, <1>9, <1>10 DEF Next, UserCall

\* Unmuting gives back the volume from before the muting, or that of the media
\* opened since (nsvr_player.cpp:455-463), whatever was set, heard, closed and
\* reopened in between: if no other player of the process saves its volume in
\* the static of setMute, and no user mutes what is muted.
THEOREM UnmutedAsBefore ==
  ASSUME Separate
  PROVE  Spec => UnmuteRestores
<1>1. Init => Remembered
  BY DEF Init, Closed, Remembered, Kept
<1>2. Inv /\ Remembered /\ [Next]_vars => Remembered'
  BY StepRemembered
<1>3. ASSUME Inv, Remembered, NEW p \in Players, UserSetMute(p, FALSE),
             player[p].open
      PROVE  player'[p].volume \in before[p]
  <2> DEFINE s == player[p]
             r == SetMute(s, saved_volume[p], FALSE)
  <2>1. /\ s \in Sounds /\ saved_volume[p] \in Volumes /\ s.mMute
        /\ Kept(s, saved_volume[p], before[p])
    BY <1>3 DEF UserSetMute, Separate, Inv, TypeOK, Sounds, Remembered
  <2>2. player' = [player EXCEPT ![p] = r.s]
    BY <1>3 DEF UserSetMute, Result, Becomes, Separate, ProcessOf
  <2>3. r.s.volume = saved_volume[p]
    BY <1>3, <2>1, SetMuteKept
  <2>4. player'[p] = r.s
    BY <1>3, <2>2 DEF Inv, TypeOK
  <2> QED
    BY <2>1, <2>3, <2>4 DEF Kept
<1>4. Inv /\ Remembered /\ [Next]_vars
        => [\A p \in Players : UserSetMute(p, FALSE) /\ player[p].open
              => player'[p].volume \in before[p]]_vars
  BY <1>3
<1> QED
  BY Invariance, <1>1, <1>2, <1>4, PTL DEF Spec, SafeSpec, UnmuteRestores

=============================================================================
