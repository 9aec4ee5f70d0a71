------------------------------- MODULE Sound -------------------------------
(***************************************************************************)
(* Volume and mute: setVolume, getVolume, setMute and play of Player, and  *)
(* how a client takes both from the heartbeats of a server.                *)
(*                                                                         *)
(* There is one server and one client.  A player remembers its volume,     *)
(* which the pipeline may know better, and whether it is muted; the volume *)
(* to go back to is remembered once per process, in a static of setMute.   *)
(* A volume is a whole number, 0 for silence and Full for 1.0.             *)
(***************************************************************************)
EXTENDS Heartbeat

CONSTANTS
  Full,       \* a volume of 1.0
  Asked,      \* what the users pass to setVolume
  OneProcess, \* the server and the client are in one process
  Toggles     \* the users mute only what is not muted, and the reverse

ASSUME FullAssumption == Full \in Nat \ {0} /\ Full % Grain = 0
ASSUME AskedAssumption == Asked \subseteq Int
ASSUME ChoicesAssumption == OneProcess \in BOOLEAN /\ Toggles \in BOOLEAN

Players == {"server", "client"}
Volumes == 0 .. Full
ProcessOf(p) == IF OneProcess THEN "server" ELSE p

VARIABLES
  player,        \* [open, volume (of the pipeline), mVolume, mMute]
  saved_volume,  \* per process
  late,          \* a heartbeat still in the network, or NoText
  played,        \* history: play() was called since the media was opened
  before         \* history: the volumes that unmuting may go back to

vars == <<player, saved_volume, late, played, before>>

NoText == [kind |-> "", commands |-> <<>>]
Closed(muted) ==
  [open |-> FALSE, volume |-> Full, mVolume |-> Full, mMute |-> muted]

Init ==
  /\ player = [p \in Players |-> Closed(FALSE)]
  /\ saved_volume = [p \in Players |-> Full]
  /\ late = NoText
  /\ played = [p \in Players |-> FALSE]
  /\ before = [p \in Players |-> {Full}]

-----------------------------------------------------------------------------
(* The methods, on the record of a player and the volume saved             *)

Clamp(vol) == IF vol < 0 THEN 0 ELSE IF vol > Full THEN Full ELSE vol

GetVolume(s) == IF s.open THEN s.volume ELSE 0

\* ... which also refreshes mVolume.
Refreshed(s) == IF s.open THEN [s EXCEPT !.mVolume = s.volume] ELSE s

\* Mutant: what the user asks for is taken as it is.
SetVolumeUnclamped(s, vol) ==
  IF s.open \/ s.mVolume # vol \/ ~s.mMute
  THEN [s EXCEPT !.mVolume = vol, !.mMute = FALSE,
                 !.volume = IF s.open THEN vol ELSE @]
  ELSE s

SetVolume(s, vol) ==
  IF s.open \/ s.mVolume # vol \/ ~s.mMute
  THEN [s EXCEPT !.mVolume = Clamp(vol), !.mMute = FALSE,
                 !.volume = IF s.open THEN Clamp(vol) ELSE @]
  ELSE s

\* A method may also change the saved volume.
Returns(s, saved) == [s |-> s, saved |-> saved]

\* Mutant: the volume is saved after it was set to 0.
SetMuteSavesLate(s, saved, on) ==
  IF ~s.open
  THEN Returns(s, saved)
  ELSE IF on
       THEN Returns([SetVolume(s, 0) EXCEPT !.mMute = TRUE], 0)
       ELSE Returns(SetVolume(s, saved), Full)

SetMute(s, saved, on) ==
  IF ~s.open /\ ~(on /\ saved = 0)
  THEN Returns(s, saved)
  ELSE IF on
       THEN Returns([SetVolume(Refreshed(s), 0) EXCEPT !.mMute = TRUE],
                    GetVolume(s))
       ELSE Returns(SetVolume([s EXCEPT !.mMute = FALSE], saved), Full)

\* Mutant: a media opened after muting is played aloud.
PlayedAsIs(s, saved) == Returns(s, saved)

\* "This can happen if current instance is used to open a second URI".
Played(s, saved) ==
  IF s.mMute /\ GetVolume(s) # 0
  THEN SetMute(Refreshed(s), saved, TRUE)
  ELSE Returns(IF s.mMute THEN Refreshed(s) ELSE s, saved)

\* onMessage(): first the mute, then the volume.
Heard(s, saved, packet) ==
  LET muting == IF s.mMute # (packet.m # 0)
                THEN SetMute(s, saved, packet.m # 0)
                ELSE Returns(s, saved)
      now == Refreshed(muting.s)
  IN  Returns(IF GetVolume(now) # packet.v THEN SetVolume(now, packet.v)
                                           ELSE now,
              muting.saved)

-----------------------------------------------------------------------------
Becomes(p, s) == player' = [player EXCEPT ![p] = s]

\* The player and the saved volume after a method that returned result; the
\* volume of a player that is muted by it is one to go back to.
Result(p, method) ==
  \E result \in {method} :
    /\ Becomes(p, result.s)
    /\ saved_volume' = [saved_volume EXCEPT ![ProcessOf(p)] = result.saved]
    /\ before' = IF result.s.mMute /\ ~player[p].mMute
                 THEN [before EXCEPT ![p] = {GetVolume(player[p])}]
                 ELSE before

UserSetVolume(p, vol) ==
  /\ Becomes(p, SetVolume(player[p], vol))
  /\ UNCHANGED <<saved_volume, late, played, before>>

UserSetMute(p, on) ==
  /\ Toggles => on # player[p].mMute
  /\ Result(p, SetMute(player[p], saved_volume[ProcessOf(p)], on))
  /\ UNCHANGED <<late, played>>

\* play(), and the second half of replay().
UserPlay(p) ==
  /\ player[p].open
  /\ Result(p, Played(player[p], saved_volume[ProcessOf(p)]))
  /\ played' = [played EXCEPT ![p] = TRUE]
  /\ UNCHANGED late

\* close() resets the volume but not the mute.
UserClose(p) ==
  /\ Becomes(p, Closed(player[p].mMute))
  /\ played' = [played EXCEPT ![p] = FALSE]
  /\ UNCHANGED <<saved_volume, late, before>>

\* open(): close(), and a pipeline whose volume is 1.0.
UserOpen(p) ==
  /\ Becomes(p, [Closed(player[p].mMute) EXCEPT !.open = TRUE])
  /\ played' = [played EXCEPT ![p] = FALSE]
  /\ before' = [before EXCEPT ![p] = @ \union {Full}]
  /\ UNCHANGED <<saved_volume, late>>

UserCall(p) ==
  \/ \E vol \in Asked : UserSetVolume(p, vol)
  \/ \E on \in BOOLEAN : UserSetMute(p, on)
  \/ UserPlay(p)
  \/ UserClose(p)
  \/ UserOpen(p)

-----------------------------------------------------------------------------
(* Heartbeats.  What else they carry is in PlayerClient.                   *)

HeartbeatOf(s) ==
  Serialize(Packet(0, GetVolume(s), IF s.mMute THEN 1 ELSE 0, 0, 0))

Beating == player["server"].open

\* The client reads it in update(), with a media open, and takes it if it can
\* be parsed.  The server has refreshed its volume to send it.
OnMessage(text) ==
  /\ player["client"].open
  /\ Accepted(text)
  /\ \E packet \in {Parse(text)} :
       Result("client", Heard(player["client"],
                              saved_volume[ProcessOf("client")], packet))
  /\ UNCHANGED <<late, played>>

HeartbeatComes ==
  /\ Beating
  /\ \E text \in {HeartbeatOf(player["server"])} : OnMessage(text)

LateComes == late # NoText /\ OnMessage(late)

\* dispatchHeartbeat(): the packet may be lost at once, or be late.
Dispatch ==
  /\ Beating
  /\ Becomes("server", Refreshed(player["server"]))
  /\ late' \in {late, HeartbeatOf(player["server"])}
  /\ UNCHANGED <<saved_volume, played, before>>

LateIsLost ==
  /\ late # NoText
  /\ late' = NoText
  /\ UNCHANGED <<player, saved_volume, played, before>>

Next ==
  \/ \E p \in Players : UserCall(p)
  \/ Dispatch \/ HeartbeatComes \/ LateComes \/ LateIsLost

\* As for PlayerClient: heartbeats are repeated, not all of them are lost, and
\* none stays in the network for ever.
Fairness == SF_vars(HeartbeatComes) /\ WF_vars(LateIsLost)

SafeSpec == Init /\ [][Next]_vars
Spec == SafeSpec /\ Fairness

-----------------------------------------------------------------------------
(* Properties                                                              *)

Sounds == [open : BOOLEAN, volume : Volumes, mVolume : Volumes,
           mMute : BOOLEAN]

TypeOK ==
  /\ player \in [Players -> Sounds]
  /\ saved_volume \in [Players -> Volumes]
  /\ played \in [Players -> BOOLEAN]
  /\ before \in [Players -> SUBSET Volumes]

(* Once play() was called, a player that answers that it is muted is       *)
(* silent, whatever was muted, closed, reopened, set or heard before, and  *)
(* although a new pipeline is loud and the mute outlives the old one       *)
(* (nsvr_player.cpp:220, 427-433, 453-464).                                *)
MutedIsSilent ==
  \A p \in Players :
    player[p].open /\ player[p].mMute /\ played[p] => player[p].volume = 0

(* Unmuting gives back the volume from before the muting, or that of the   *)
(* media opened since (nsvr_player.cpp:455-463).  The volume saved is the  *)
(* one of the last muting of the process.                                  *)
UnmuteRestores ==
  [][\A p \in Players :
       UserSetMute(p, FALSE) /\ player[p].open
         => player'[p].volume \in before[p]]_vars

(* A client with a media open ends up with the mute and the volume of a    *)
(* server that plays and that no one touches any more, to the digits of a  *)
(* heartbeat, whatever was set, lost, late or reopened before              *)
(* (nsvr_player_client.cpp:32-36).                                         *)
FollowsSound ==
  /\ <>[][\A p \in Players : ~UserCall(p)]_vars
  /\ <>[](played["server"] /\ player["client"].open)
  => <>[](/\ player["client"].mMute = player["server"].mMute
          /\ player["client"].volume = Printed(player["server"].volume))

=============================================================================
