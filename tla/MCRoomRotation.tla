--------------------------- MODULE MCRoomRotation ---------------------------
(***************************************************************************)
(* Instances of RoomRotation for TLC.  The walk starts in a lobby where    *)
(* the people of Seated have joined in turn and are connected, so that the *)
(* bounds are spent on the rounds rather than on filling the table.        *)
(***************************************************************************)
EXTENDS RoomRotation

CONSTANTS h1, h2, h3, h4, h5, Seated    \* Seated: a sequence of humans

FourSeats == <<h1, h2, h3, h4>>

SeatedSet == Range(Seated)

SeatedInit ==
  /\ phase = "lobby" /\ phaseSeq = 0 /\ deadline = FALSE /\ timer = 0
  /\ late = {} /\ turns = {}
  /\ roundNumber = 0
  /\ scoreLimit = DefaultScoreLimit /\ maxPlayers = DefaultMaxPlayers
  /\ hostID = Head(Seated) /\ judgeID = NoPlayer /\ judgeIndex = 0 /\ isJudge = {}
  /\ order = Seated
  /\ hand = [p \in Player |-> IF p \in SeatedSet THEN HandSize ELSE 0]
  /\ score = [p \in Player |-> 0]
  /\ subs = {} /\ winners = {}
  /\ clients = [h \in Humans |-> IF h \in SeatedSet THEN 1 ELSE 0]
  /\ sockets = clients
  /\ joining = {} /\ holders = SeatedSet /\ issued = SeatedSet
  /\ restarts = 0
  /\ published = PersistedState
  /\ starters = <<>> /\ lastJudge = NoPlayer

\* Sockets stay as they are: who is connected matters to the host, not to the
\* judge's seat.
SeatedNext == Next /\ Remember /\ UNCHANGED sockets

SeatedSpec == SeatedInit /\ [][SeatedNext]_rotationVars
=============================================================================
