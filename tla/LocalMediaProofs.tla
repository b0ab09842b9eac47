-------------------------- MODULE LocalMediaProofs --------------------------
(* Theorems about LocalMedia for every value of its constants, with proofs. *)
EXTENDS LocalMedia, TLAPS

USE LocalMediaAssumption

\* Which streams hold which tracks: the current stream is the camera's, or the shared
\* screen with the camera's microphone.
Streams ==
  /\ \A t \in camera : t[1] \in Settings
  /\ \A t \in screen : t[1] = "screen"
  /\ stream \subseteq camera \union screen
  /\ ~sharing => stream = camera
  /\ camera # {} => stream # {}

\* What the next prompt to be granted would replace has been stopped.
Tidy ==
  ~crowded =>
    /\ running \subseteq camera \union screen
    /\ \A p, q \in prompts : p.kind = q.kind => p = q
    /\ \A p \in prompts : IF p.kind = "camera" THEN camera = {} ELSE screen = {}

\* In the room, every track of the camera is as its setting is shown, or has a reason
\* not to be.
Followed ==
  /\ screen \subseteq enabled
  /\ page = "in" =>
       \A t \in camera :
         t \in late \/ t[1] \in unsure \/ (t \in enabled <=> t[1] \in shown[visit])
  /\ page = "in" /\ ~dirty => shown[visit] = me

MediaInv == TypeOK /\ Streams /\ Tidy /\ Followed

-----------------------------------------------------------------------------
(* Types.                                                                  *)

\* A new prompt is typed.
LEMMA AskType ==
  ASSUME TypeOK, NEW kind \in {"camera", "screen"}, NEW for \in {"join", "share"},
         NEW v \in 1 .. MaxVisits, Ask(kind, for, v)
  PROVE  /\ prompts' \subseteq Prompt /\ asked' \in 0 .. MaxPrompts
         /\ \A p \in prompts' : p.id <= asked'
         /\ crowded' \in BOOLEAN
<1> DEFINE p == [id |-> asked + 1, kind |-> kind, for |-> for, visit |-> v]
<1>1. asked \in Nat /\ asked + 1 \in 1 .. MaxPrompts /\ asked' = asked + 1
  BY DEF Ask, TypeOK
<1>2. p \in Prompt /\ prompts' = prompts \union {p}
  BY <1>1 DEF Ask, Prompt
<1>3. \A q \in prompts : q.id \in Nat /\ q.id <= asked
  BY DEF TypeOK, Prompt
<1> QED BY <1>1, <1>2, <1>3 DEF Ask, TypeOK

\* Tracks that are reached are tracks of the streams.
LEMMA SwitchType ==
  ASSUME TypeOK, NEW settings \in SUBSET Settings, NEW cameraStream \in SUBSET Track,
         NEW current \in SUBSET Track, NEW isSharing \in BOOLEAN,
         Switch(Settings, settings, cameraStream, current, isSharing)
  PROVE  enabled' \subseteq Track /\ late' \subseteq Track /\ unsure' \subseteq Settings
<1>1. \A k \in Settings : Switched(k, cameraStream, current, isSharing) \subseteq Track
  BY DEF Switched, Of
<1> QED BY <1>1 DEF Switch, TypeOK

\* Initially no camera is asked for.
LEMMA MediaInit == Init => MediaInv
<1> SUFFICES ASSUME Init PROVE MediaInv
  OBVIOUS
<1>1. TypeOK
  <2>1. (screen # {}) = FALSE
    BY DEF Init
  <2>2. sharing = (screen # {})
    BY <2>1 DEF Init
  <2>3. shown \in [1 .. MaxVisits -> SUBSET Settings]
    BY DEF Init
  <2>4. /\ asked \in 0 .. MaxPrompts /\ visit \in 0 .. MaxVisits /\ waiting \in 0 .. MaxToggles
        /\ \A p \in prompts : p.id <= asked
        /\ page \in Pages /\ (visit = 0 => page = "out")
    BY DEF Init, Pages
  <2>5. dirty \in BOOLEAN /\ crowded \in BOOLEAN /\ ~dirty
    BY DEF Init
  <2>6. /\ camera \subseteq Track /\ screen \subseteq Track /\ stream \subseteq Track
        /\ running \subseteq Track /\ enabled \subseteq Track /\ prompts \subseteq Prompt
        /\ me \subseteq Settings /\ unsure \subseteq Settings /\ late \subseteq Track
    BY DEF Init
  <2> QED BY <2>2, <2>3, <2>4, <2>5, <2>6 DEF TypeOK
<1> QED BY <1>1 DEF Init, MediaInv, Streams, Tidy, Followed

\* A step keeps the types.
LEMMA TypeNext == TypeOK /\ Next => TypeOK'
<1> SUFFICES ASSUME TypeOK, Next PROVE TypeOK'
  OBVIOUS
<1>v. page # "out" => visit \in 1 .. MaxVisits
  BY DEF TypeOK
<1>1. CASE Visit
  <2>1. visit + 1 \in 1 .. MaxVisits /\ visit' = visit + 1 /\ visit' # 0
    BY <1>1 DEF Visit, TypeOK
  <2>2. /\ prompts' \subseteq Prompt /\ asked' \in 0 .. MaxPrompts
        /\ \A p \in prompts' : p.id <= asked'
        /\ crowded' \in BOOLEAN
    <3>1. CASE Ask("camera", "join", visit + 1)
      BY <2>1, <3>1, AskType
    <3>2. CASE UNCHANGED ask
      BY <3>2 DEF ask, TypeOK
    <3> QED BY <1>1, <3>1, <3>2 DEF Visit
  <2> QED BY <1>1, <2>1, <2>2 DEF Visit, TypeOK, held, track, Pages
<1>2. CASE JoinFails \/ Unanswered \/ Kicked
  BY <1>2, <1>v DEF JoinFails, Unanswered, Kicked, TypeOK, held, ask, track, Pages
<1>3. CASE RunEffect \/ \E settings \in SUBSET Settings : Joined(settings) \/ Acked(settings)
  <2>1. PICK settings \in SUBSET Settings :
          \/ RunEffect /\ settings = me
          \/ Joined(settings) \/ Acked(settings)
    BY <1>3 DEF TypeOK
  <2>2. Sync(settings)
    BY <2>1 DEF RunEffect, Joined, Acked
  <2>3. camera \in SUBSET Track /\ stream \in SUBSET Track /\ sharing \in BOOLEAN
    BY DEF TypeOK
  <2>4. enabled' \subseteq Track /\ late' \subseteq Track /\ unsure' \subseteq Settings
    BY <2>2, <2>3, SwitchType DEF Sync
  <2>5. shown' \in [1 .. MaxVisits -> SUBSET Settings]
    BY <2>2 DEF Sync, TypeOK
  <2>6. CASE RunEffect
    BY <2>4, <2>5, <2>6 DEF RunEffect, TypeOK, held, ask, user
  <2>7. CASE Joined(settings)
    BY <2>4, <2>5, <2>7, <1>v DEF Joined, TypeOK, held, ask, Pages
  <2>8. CASE Acked(settings)
    BY <2>4, <2>5, <2>8 DEF Acked, TypeOK, held, ask
  <2> QED BY <2>1, <2>6, <2>7, <2>8
<1>4. ASSUME NEW settings \in SUBSET Settings, Updated(settings) PROVE TypeOK'
  BY <1>4 DEF Updated, TypeOK, held, ask, track
<1>5. ASSUME NEW k \in Settings, Toggle(k) PROVE TypeOK'
  <2>1. Switched(k, camera, stream, sharing) \subseteq Track
    BY DEF Switched, Of, TypeOK
  <2>2. enabled' \subseteq Track /\ late' \subseteq Track /\ unsure' \subseteq Settings
    BY <1>5, <2>1 DEF Toggle, TypeOK
  <2>3. waiting' \in 0 .. MaxToggles
    BY <1>5 DEF Toggle, TypeOK
  <2> QED BY <1>5, <2>2, <2>3 DEF Toggle, TypeOK, held, ask
<1>6. CASE Leave
  <2>1. (screen' # {}) = FALSE
    BY <1>6 DEF Leave
  <2>2. sharing' = (screen' # {})
    BY <1>6, <2>1 DEF Leave
  <2>3. running' \subseteq Track
    BY <1>6 DEF Leave, TypeOK
  <2> QED BY <1>6, <2>2, <2>3 DEF Leave, TypeOK, ask, track, Pages
<1>7. CASE StartShare
  <2>1. \/ Ask("camera", "share", visit)
        \/ Ask("screen", "share", visit)
    BY <1>7 DEF StartShare
  <2>2. /\ prompts' \subseteq Prompt /\ asked' \in 0 .. MaxPrompts
        /\ \A p \in prompts' : p.id <= asked'
        /\ crowded' \in BOOLEAN
    BY <1>7, <1>v, <2>1, AskType DEF StartShare
  <2> QED BY <1>7, <2>2 DEF StartShare, TypeOK, held, track, user
<1>8. CASE StopShare
  <2>1. camera \in SUBSET Track /\ shown[visit] \in SUBSET Settings
    BY <1>8, <1>v DEF StopShare, TypeOK
  <2>2. enabled' \subseteq Track /\ late' \subseteq Track /\ unsure' \subseteq Settings
    BY <1>8, <2>1, SwitchType DEF StopShare
  <2> QED BY <1>8, <2>2 DEF StopShare, StopScreen, Shares, TypeOK, ask, user
<1>9. CASE ScreenEnds
  BY <1>9 DEF ScreenEnds, Shares, TypeOK, track, ask, user
<1>10. ASSUME NEW p \in prompts, GrantCamera(p) PROVE TypeOK'
  <2> DEFINE got == {"mic", "cam"} \X {p.id}
             q   == [p EXCEPT !.id = asked + 1, !.kind = "screen"]
  <2>1. p \in Prompt /\ got \subseteq Track
    BY DEF TypeOK, Prompt, Track, Kinds, Settings
  <2>2. /\ prompts' \subseteq Prompt /\ asked' \in 0 .. MaxPrompts
        /\ \A r \in prompts' : r.id <= asked'
        /\ crowded' \in BOOLEAN
    <3>1. CASE p.for = "share"
      <4>1. asked \in Nat /\ asked + 1 \in 1 .. MaxPrompts /\ asked' = asked + 1
        BY <1>10, <3>1 DEF GrantCamera, TypeOK
      <4>2. q \in Prompt /\ q.id = asked + 1 /\ prompts' = (prompts \ {p}) \union {q}
        BY <1>10, <2>1, <3>1, <4>1 DEF GrantCamera, Prompt
      <4>3. \A r \in prompts : r.id \in Nat /\ r.id <= asked
        BY DEF TypeOK, Prompt
      <4>4. crowded' \in BOOLEAN
        BY <1>10, <3>1 DEF GrantCamera, TypeOK
      <4>5. ASSUME NEW r \in prompts' PROVE r.id <= asked'
        <5> HIDE DEF q
        <5>1. CASE r \in prompts
          BY <4>1, <4>3, <5>1
        <5>2. CASE r = q
          BY <4>1, <4>2, <5>2
        <5> QED BY <4>2, <5>1, <5>2
      <4>6. prompts' \subseteq Prompt
        BY <4>2 DEF TypeOK
      <4> QED BY <4>1, <4>4, <4>5, <4>6
    <3>2. CASE p.for # "share"
      BY <1>10, <3>2 DEF GrantCamera, TypeOK
    <3> QED BY <3>1, <3>2
  <2>3. /\ camera' = got /\ stream' = got /\ running' = running \union got
        /\ enabled' = enabled \union got /\ late' = late \union got
    BY <1>10 DEF GrantCamera
  <2> QED BY <1>10, <2>1, <2>2, <2>3 DEF GrantCamera, TypeOK, user
<1>11. ASSUME NEW p \in prompts, GrantScreen(p) PROVE TypeOK'
  <2>1. <<"screen", p.id>> \in Track
    BY DEF TypeOK, Prompt, Track, Kinds
  <2>2. Of("mic", camera) \subseteq Track
    BY DEF Of, TypeOK
  <2>3. "mic" \in Settings
    BY DEF Settings
  <2>4. /\ screen' = {<<"screen", p.id>>} /\ sharing' = TRUE
        /\ stream' \subseteq Track /\ running' \subseteq Track /\ enabled' \subseteq Track
        /\ late' \subseteq Track /\ unsure' \subseteq Settings
    BY <1>11, <2>1, <2>2, <2>3 DEF GrantScreen, Shares, TypeOK
  <2>5. dirty' \in BOOLEAN /\ (dirty' => page = "in")
    BY <1>11 DEF GrantScreen, Shares, TypeOK
  <2> QED BY <1>11, <2>1, <2>4, <2>5 DEF GrantScreen, TypeOK, user
<1>12. ASSUME NEW p \in prompts, Deny(p) PROVE TypeOK'
  BY <1>12 DEF Deny, TypeOK, held, track, user
<1> QED BY <1>1, <1>2, <1>3, <1>4, <1>5, <1>6, <1>7, <1>8, <1>9, <1>10, <1>11, <1>12 DEF Next

-----------------------------------------------------------------------------
(* Streams, and which tracks the settings reach.                           *)

\* The settings reach the tracks of the camera, and no others.
LEMMA ReachesCamera ==
  ASSUME Streams, NEW k \in Settings
  PROVE  /\ Switched(k, camera, stream, sharing) = Of(k, camera)
         /\ Switched(k, camera, camera, FALSE) = Of(k, camera)
<1>1. Of("mic", camera \union stream) = Of("mic", camera)
  BY DEF Of, Streams
<1>2. Of("screen", camera) = {}
  BY DEF Of, Streams, Settings
<1>3. sharing \/ stream = camera
  BY DEF Streams
<1>4. k = "mic" \/ k = "cam"
  BY DEF Settings
<1>5. Of("mic", camera \union camera) = Of("mic", camera)
  OBVIOUS
<1>6. CASE k = "mic"
  BY <1>1, <1>5, <1>6 DEF Switched
<1>7. CASE k = "cam"
  BY <1>2, <1>3, <1>7 DEF Switched
<1> QED BY <1>4, <1>6, <1>7

\* Switching all settings makes every track of the camera follow them, and leaves the
\* other tracks as they are.
LEMMA SwitchFollows ==
  ASSUME Streams, NEW settings \in SUBSET Settings,
         \/ Switch(Settings, settings, camera, stream, sharing)
         \/ Switch(Settings, settings, camera, camera, FALSE)
  PROVE  /\ \A t \in camera : t \in enabled' <=> t[1] \in settings
         /\ enabled \ camera \subseteq enabled'
<1>1. /\ settings \intersect Settings = settings /\ Settings \intersect settings = settings
      /\ \A k \in settings : k \in Settings
  OBVIOUS
<1>2. enabled' = (enabled \ UNION {Of(k, camera) : k \in Settings})
                 \union UNION {Of(k, camera) : k \in settings}
  BY <1>1, ReachesCamera DEF Switch
<1>3. \A t \in camera : t[1] \in Settings
  BY DEF Streams
<1> QED BY <1>1, <1>2, <1>3 DEF Of

\* A step keeps the streams.
LEMMA StreamsNext == TypeOK /\ Streams /\ Next => Streams'
<1> SUFFICES ASSUME TypeOK, Streams, Next PROVE Streams'
  OBVIOUS
<1>1. CASE UNCHANGED held
  BY <1>1 DEF held, Streams
<1>2. CASE Leave
  BY <1>2 DEF Leave, Streams
<1>3. CASE StopShare
  BY <1>3 DEF StopShare, StopScreen, Streams
<1>4. CASE ScreenEnds
  BY <1>4 DEF ScreenEnds, Streams
<1>5. ASSUME NEW p \in prompts, GrantCamera(p) PROVE Streams'
  BY <1>5 DEF GrantCamera, Streams, Settings
<1>6. ASSUME NEW p \in prompts, GrantScreen(p) PROVE Streams'
  <2>1. /\ camera' = camera /\ screen' = {<<"screen", p.id>>} /\ sharing' = TRUE
        /\ stream' = screen' \union Of("mic", camera)
    BY <1>6 DEF GrantScreen, Shares
  <2>2. Of("mic", camera) \subseteq camera
    BY DEF Of
  <2>3. stream' # {} /\ \A t \in screen' : t[1] = "screen"
    <3> DEFINE got == <<"screen", p.id>>
    <3>1. got[1] = "screen"
      OBVIOUS
    <3> HIDE DEF got
    <3>2. screen' = {got} /\ got \in stream'
      BY <2>1 DEF got
    <3> QED BY <3>1, <3>2
  <2> QED BY <2>1, <2>2, <2>3 DEF Streams
<1> QED BY <1>1, <1>2, <1>3, <1>4, <1>5, <1>6
       DEF Next, Visit, JoinFails, RunEffect, Unanswered, Kicked, StartShare, Joined,
           Updated, Acked, Toggle, Deny
-----------------------------------------------------------------------------
(* Nothing that captures is lost.                                          *)

\* A prompt that is opened as the only one of its kind, for what has been stopped.
LEMMA AskTidy ==
  ASSUME TypeOK, Tidy, NEW kind \in {"camera", "screen"}, NEW for, NEW v, Ask(kind, for, v),
         UNCHANGED held, IF kind = "camera" THEN camera = {} ELSE screen = {}
  PROVE  Tidy'
<1> DEFINE p == [id |-> asked + 1, kind |-> kind, for |-> for, visit |-> v]
<1>1. prompts' = prompts \union {p} /\ p.kind = kind
  BY DEF Ask
<1>2. CASE crowded'
  BY <1>2 DEF Tidy
<1>3. CASE ~crowded'
  <2>1. ~crowded /\ \A q \in prompts : q.kind # kind
    BY <1>3 DEF Ask, TypeOK
  <2>2. \A q, r \in prompts' : q.kind = r.kind => q = r
    BY <1>1, <2>1 DEF Tidy
  <2>3. \A q \in prompts' : IF q.kind = "camera" THEN camera = {} ELSE screen = {}
    BY <1>1, <2>1 DEF Tidy
  <2> QED BY <2>1, <2>2, <2>3 DEF Tidy, held
<1> QED BY <1>2, <1>3

\* A step keeps what captures within reach.
LEMMA TidyNext == TypeOK /\ Streams /\ Tidy /\ Next => Tidy'
<1> SUFFICES ASSUME TypeOK, Streams, Tidy, Next PROVE Tidy'
  OBVIOUS
<1>1. CASE UNCHANGED <<held, ask>>
  BY <1>1 DEF held, ask, Tidy
<1>2. CASE Visit
  <2>1. CASE Ask("camera", "join", visit + 1)
    <3>1. stream = {} => camera = {}
      BY DEF Streams
    <3>2. (UNCHANGED held /\ stream = {}) \/ UNCHANGED <<held, ask>>
      BY <1>2 DEF Visit
    <3> QED BY <1>1, <2>1, <3>1, <3>2, AskTidy
  <2> QED BY <1>1, <1>2, <2>1 DEF Visit
<1>3. CASE Leave
  <2>1. running' \subseteq running \ (camera \union screen)
    BY <1>3 DEF Leave, Held
  <2> QED BY <1>3, <2>1 DEF Leave, Tidy, ask
<1>4. CASE StartShare
  <2>1. UNCHANGED held /\ screen = {}
    BY <1>4 DEF StartShare, TypeOK
  <2>2. CASE camera \union stream = {}
    BY <1>4, <2>1, <2>2, AskTidy DEF StartShare
  <2>3. CASE camera \union stream # {}
    BY <1>4, <2>1, <2>3, AskTidy DEF StartShare
  <2> QED BY <2>2, <2>3
<1>5. CASE StopShare \/ ScreenEnds
  <2>1. /\ screen' = {} /\ camera' = camera /\ UNCHANGED ask
        /\ running' \subseteq running \ screen
    BY <1>5 DEF StopShare, ScreenEnds, StopScreen
  <2> QED BY <2>1 DEF Tidy, ask
<1>6. ASSUME NEW p \in prompts, GrantCamera(p) PROVE Tidy'
  <2>1. /\ p.kind = "camera" /\ screen' = screen
        /\ running' = running \union camera'
    BY <1>6 DEF GrantCamera
  <2>2. CASE crowded'
    BY <2>2 DEF Tidy
  <2>3. CASE ~crowded'
    <3>1. ~crowded
      BY <1>6, <2>3 DEF GrantCamera, TypeOK
    <3>2. /\ running \subseteq screen
          /\ \A q \in prompts : q # p => q.kind # "camera" /\ screen = {}
          /\ \A q, r \in prompts : q.kind = r.kind => q = r
      BY <2>1, <3>1 DEF Tidy
    <3>3. CASE p.for # "share"
      <4>1. prompts' = prompts \ {p}
        BY <1>6, <3>3 DEF GrantCamera
      <4> QED BY <2>1, <3>2, <4>1 DEF Tidy
    <3>4. CASE p.for = "share"
      <4> DEFINE q == [p EXCEPT !.id = asked + 1, !.kind = "screen"]
      <4>1. prompts' = (prompts \ {p}) \union {q} /\ q.kind = "screen"
        BY <1>6, <3>4 DEF GrantCamera, TypeOK, Prompt
      <4>2. ~sharing /\ \A r \in prompts : r.kind # "screen"
        BY <1>6, <2>3, <3>4 DEF GrantCamera, TypeOK
      <4>3. screen = {} /\ \A r \in prompts : r.kind = "camera"
        BY <4>2 DEF TypeOK, Prompt
      <4>4. prompts' = {q}
        BY <2>1, <3>2, <4>1, <4>3
      <4> QED BY <2>1, <3>2, <4>1, <4>3, <4>4 DEF Tidy
    <3> QED BY <3>3, <3>4
  <2> QED BY <2>2, <2>3
<1>7. ASSUME NEW p \in prompts, GrantScreen(p) PROVE Tidy'
  <2>1. /\ p.kind = "screen" /\ camera' = camera /\ crowded' = crowded
        /\ running' = running \union screen' /\ prompts' = prompts \ {p}
    BY <1>7 DEF GrantScreen
  <2>2. ~crowded => /\ running \subseteq camera
                    /\ \A q \in prompts' : q.kind # "screen"
    BY <2>1 DEF Tidy
  <2>3. \A q \in prompts' : q.kind \in {"camera", "screen"}
    BY <2>1 DEF TypeOK, Prompt
  <2> QED BY <2>1, <2>2, <2>3 DEF Tidy
<1>8. ASSUME NEW p \in prompts, Deny(p) PROVE Tidy'
  BY <1>8 DEF Deny, Tidy, held
<1> QED BY <1>1, <1>2, <1>3, <1>4, <1>5, <1>6, <1>7, <1>8
       DEF Next, JoinFails, RunEffect, Unanswered, Kicked, Joined, Updated, Acked, Toggle,
           user
-----------------------------------------------------------------------------
(* The tracks follow the settings.                                         *)

\* A page that applies settings to all tracks, and shows them.
LEMMA SwitchFollowed ==
  ASSUME TypeOK, Streams, Followed, NEW settings \in SUBSET Settings,
         \/ Switch(Settings, settings, camera, stream, sharing)
         \/ Switch(Settings, settings, camera, camera, FALSE),
         camera' = camera, screen' \subseteq screen,
         page' = "in" => shown'[visit'] = settings,
         page' = "in" /\ ~dirty' => settings = me'
  PROVE  Followed'
<1>1. /\ \A t \in camera : t \in enabled' <=> t[1] \in settings
      /\ enabled \ camera \subseteq enabled'
  BY SwitchFollows
<1>2. \A t \in screen : t \notin camera
  BY DEF Streams, Settings
<1> QED BY <1>1, <1>2 DEF Followed

\* A step keeps the tracks as the page shows them.
LEMMA FollowedNext == TypeOK /\ Streams /\ Followed /\ Next => Followed'
<1> SUFFICES ASSUME TypeOK, Streams, Followed, Next PROVE Followed'
  OBVIOUS
<1>1. CASE /\ UNCHANGED <<camera, screen, enabled, late, unsure, me, shown, visit>>
           /\ page' = "in" => page = "in" /\ dirty' = dirty
  BY <1>1 DEF Followed
<1>2. CASE JoinFails \/ Unanswered \/ Kicked
  BY <1>1, <1>2 DEF JoinFails, Unanswered, Kicked, held, track
<1>3. CASE Visit
  BY <1>3 DEF Visit, Followed, held, track
<1>4. CASE Leave
  BY <1>4 DEF Leave, Followed, track
<1>5. CASE StartShare
  BY <1>1, <1>5 DEF StartShare, held, track, user
<1>6. ASSUME NEW p \in prompts, Deny(p) PROVE Followed'
  BY <1>1, <1>6 DEF Deny, held, track, user
<1>7. CASE RunEffect \/ \E settings \in SUBSET Settings : Joined(settings) \/ Acked(settings)
  <2>1. PICK settings \in SUBSET Settings :
          \/ RunEffect /\ settings = me
          \/ Joined(settings) \/ Acked(settings)
    BY <1>7 DEF TypeOK
  <2>2. Sync(settings) /\ UNCHANGED held /\ visit' = visit /\ me' = settings
    BY <2>1 DEF RunEffect, Joined, Acked, user
  <2>3. page' = "in" => shown'[visit'] = settings
    <3>1. page' = "in" => visit \in 1 .. MaxVisits
      BY <2>1 DEF RunEffect, Joined, Acked, user, TypeOK
    <3> QED BY <2>2, <3>1 DEF Sync, TypeOK
  <2> QED BY <2>2, <2>3, SwitchFollowed DEF Sync, held
<1>8. ASSUME NEW settings \in SUBSET Settings, Updated(settings) PROVE Followed'
  BY <1>8 DEF Updated, Followed, held, track
<1>9. ASSUME NEW k \in Settings, Toggle(k) PROVE Followed'
  <2> DEFINE on == k \notin shown[visit]
  <2>1. /\ enabled' = IF on THEN enabled \union Of(k, camera) ELSE enabled \ Of(k, camera)
        /\ late' = late \ Of(k, camera) /\ unsure' = unsure \union {k}
        /\ UNCHANGED <<camera, screen, me, shown, dirty, page, visit>>
    BY <1>9, ReachesCamera DEF Toggle, held
  <2>2. \A t \in screen : t \notin camera
    BY DEF Streams, Settings
  <2>3. \A t \in camera : t[1] # k => t \notin Of(k, camera)
    BY DEF Of
  <2>4. Of(k, camera) \subseteq camera
    BY DEF Of
  <2>5. screen' \subseteq enabled'
    BY <2>1, <2>2, <2>4 DEF Followed
  <2>6. \A t \in camera : t[1] # k =>
          (t \in enabled' <=> t \in enabled) /\ (t \in late' <=> t \in late)
    BY <2>1, <2>3
  <2> QED BY <2>1, <2>5, <2>6 DEF Followed
<1>10. CASE StopShare
  <2>1. /\ Switch(Settings, shown[visit], camera, camera, FALSE)
        /\ camera' = camera /\ screen' = {} /\ UNCHANGED <<visit, page, me, shown>>
        /\ ~dirty' => ~dirty
    BY <1>10 DEF StopShare, StopScreen, Shares, user
  <2>2. shown[visit] \in SUBSET Settings
    BY <1>10 DEF StopShare, TypeOK
  <2>3. page = "in" /\ ~dirty => shown[visit] = me
    BY DEF Followed
  <2> QED BY <2>1, <2>2, <2>3, SwitchFollowed
<1>11. CASE ScreenEnds
  BY <1>11 DEF ScreenEnds, Shares, Followed, track, user
<1>12. ASSUME NEW p \in prompts, GrantCamera(p) PROVE Followed'
  <2>1. /\ enabled' = enabled \union camera' /\ late' = late \union camera'
        /\ UNCHANGED <<screen, unsure, me, shown, dirty, page, visit>>
    BY <1>12 DEF GrantCamera, user
  <2> QED BY <2>1 DEF Followed
<1>13. ASSUME NEW p \in prompts, GrantScreen(p) PROVE Followed'
  <2> DEFINE audio == Of("mic", camera)
  <2>1. /\ enabled' = (enabled \ audio) \union screen'
                      \union (IF "mic" \in shown[p.visit] THEN audio ELSE {})
        /\ late' = late \ audio
        /\ unsure' = (IF p.visit = visit THEN unsure \ {"mic"} ELSE unsure \union {"mic"})
        /\ screen' = {<<"screen", p.id>>}
        /\ UNCHANGED <<camera, me, shown, page, visit>> /\ (~dirty' => ~dirty)
    BY <1>13 DEF GrantScreen, Shares, user
  <2>2. ASSUME page = "in", NEW t \in camera
        PROVE  t \in late' \/ t[1] \in unsure' \/ (t \in enabled' <=> t[1] \in shown[visit])
    <3>1. t \notin screen' /\ (t \in audio <=> t[1] = "mic")
      BY <2>1 DEF Streams, Settings, Of
    <3>2. t \in late \/ t[1] \in unsure \/ (t \in enabled <=> t[1] \in shown[visit])
      BY <2>2 DEF Followed
    <3>3. CASE t[1] = "mic"
      BY <2>1, <3>1, <3>3
    <3>4. CASE t[1] # "mic"
      <4>1. (t \in enabled' <=> t \in enabled) /\ (t \in late' <=> t \in late)
        BY <2>1, <3>1, <3>4
      <4>2. t[1] \in unsure => t[1] \in unsure'
        BY <2>1, <3>4
      <4> QED BY <3>2, <4>1, <4>2
    <3> QED BY <3>3, <3>4
  <2> QED BY <2>1, <2>2 DEF Followed
<1> QED BY <1>2, <1>3, <1>4, <1>5, <1>6, <1>7, <1>8, <1>9, <1>10, <1>11, <1>12, <1>13 DEF Next
-----------------------------------------------------------------------------
(* Theorems.                                                               *)

\* Every step keeps the invariant.
LEMMA MediaNext == MediaInv /\ [Next]_vars => MediaInv'
<1>1. MediaInv /\ Next => MediaInv'
  BY TypeNext, StreamsNext, TidyNext, FollowedNext DEF MediaInv
<1>2. MediaInv /\ UNCHANGED vars => MediaInv'
  <2> SUFFICES ASSUME MediaInv, UNCHANGED vars PROVE MediaInv'
    OBVIOUS
  <2>1. TypeOK'
    BY DEF MediaInv, vars, TypeOK
  <2>2. Streams' /\ Tidy' /\ Followed'
    BY DEF MediaInv, vars, Streams, Tidy, Followed
  <2> QED BY <2>1, <2>2 DEF MediaInv
<1> QED BY <1>1, <1>2

\* TypeOK holds for any number of visits, prompts and toggles.
THEOREM MediaTyped == Spec => []TypeOK
<1>1. MediaInv => TypeOK
  BY DEF MediaInv
<1> QED BY <1>1, MediaInit, MediaNext, PTL DEF Spec

\* TracksFollowTheSettings holds for any number of them: no order of toggles, changes by
\* the host, shares and answers to prompts leaves a muted microphone on, but the named ones.
THEOREM TracksFollow == Spec => []TracksFollowTheSettings
<1>1. MediaInv => TracksFollowTheSettings
  <2> SUFFICES ASSUME MediaInv, page = "in", ~dirty, NEW t \in stream \union camera
               PROVE  IF t[1] = "screen" THEN t \in enabled
                      ELSE t \in late \/ t[1] \in unsure \/ (t \in enabled <=> t[1] \in me)
    BY DEF TracksFollowTheSettings
  <2>1. t \in camera \/ t \in screen
    BY DEF MediaInv, Streams
  <2>2. CASE t \in camera
    BY <2>2 DEF MediaInv, Streams, Followed, Settings
  <2>3. CASE t \in screen
    BY <2>3 DEF MediaInv, Streams, Followed
  <2> QED BY <2>1, <2>2, <2>3
<1> QED BY <1>1, MediaInit, MediaNext, PTL DEF Spec

\* LeavingReleases holds for any number of them: no camera, microphone or screen is still
\* captured when a page has been left, but by prompts that were open side by side.
THEOREM LeftIsReleased == Spec => LeavingReleases
<1>1. MediaInv /\ [Next]_vars => [page # "out" /\ page' = "out" /\ ~crowded => running' = {}]_vars
  <2> SUFFICES ASSUME MediaInv, Next, page # "out", page' = "out", ~crowded
               PROVE  running' = {}
    OBVIOUS
  <2>1. Leave
    BY DEF Next, Visit, JoinFails, RunEffect, Unanswered, Kicked, StartShare, StopShare,
           ScreenEnds, Joined, Updated, Acked, Toggle, GrantCamera, GrantScreen, Deny, user
  <2>2. running \subseteq camera \union screen
    BY DEF MediaInv, Tidy
  <2> QED BY <2>1, <2>2 DEF Leave, Held
<1> QED BY <1>1, MediaInit, MediaNext, PTL DEF Spec, LeavingReleases
=============================================================================
