----------------------------- MODULE LocalMedia -----------------------------
(***************************************************************************)
(* The camera, microphone and screen of one browser: MediaDevicesService   *)
(* and the ConferenceComponent that uses it (frontend/src), over the       *)
(* visits of a person to conference pages.                                 *)
(*                                                                         *)
(* The service lives as long as the application and the page as long as    *)
(* the visit, while the browser's permission prompts are answered whenever *)
(* the person likes: what startLocalMedia and startScreenShare do after    *)
(* their awaits may happen in another visit.  The page's effect that       *)
(* applies the participant's settings to the tracks is scheduled when a    *)
(* signal it read has changed, and runs later.                             *)
(*                                                                         *)
(* The backend may acknowledge or announce any settings of the participant *)
(* at any time: Presence models what it saves, Roster in which order its   *)
(* announcements arrive.  A track is a kind and the number of the prompt   *)
(* that granted it.                                                        *)
(***************************************************************************)
EXTENDS Naturals, FiniteSets

CONSTANTS
  MaxVisits,   \* bound: visits to conference pages
  MaxPrompts,  \* bound: permission prompts
  MaxToggles   \* bound: toggles awaiting their acknowledgement at once

ASSUME LocalMediaAssumption ==
  MaxVisits \in Nat /\ MaxPrompts \in Nat /\ MaxToggles \in Nat

VARIABLES
  camera,   \* cameraStream: its tracks, {} for null
  screen,   \* screenStream: its tracks, {} for null
  stream,   \* stream, and localStream: its tracks, {} for null
  sharing,  \* screenSharing
  running,  \* tracks that capture: granted, and not stopped
  enabled,  \* tracks with enabled set
  prompts,  \* permission prompts the person has not answered
  asked,    \* permission prompts so far
  visit,    \* visits so far
  page,     \* out, joining, in, failed, kicked
  me,       \* participant of the realtime service: its settings, while in
  shown,    \* micEnabled, cameraEnabled of the page of each visit
  waiting,  \* toggles awaiting their acknowledgement
  dirty,    \* the effect on me() is scheduled
  unsure,   \* history: settings whose tracks were last set to something not shown
  late,     \* history: tracks granted since the tracks were last set
  crowded   \* history: a prompt was opened next to another one of its kind, or for the
            \* screen while a screen was shared

vars == <<camera, screen, stream, sharing, running, enabled, prompts, asked, visit,
          page, me, shown, waiting, dirty, unsure, late, crowded>>

held  == <<camera, screen, stream, sharing, running>>
ask   == <<prompts, asked, crowded>>
track == <<enabled, unsure, late>>
user  == <<visit, page, me, waiting>>

Settings == {"mic", "cam"}
Kinds    == Settings \union {"screen"}
Track    == Kinds \X (1 .. MaxPrompts)
Prompt   == [id : 1 .. MaxPrompts, kind : {"camera", "screen"},
             for : {"join", "share"}, visit : 1 .. MaxVisits]

Of(k, tracks) == {t \in tracks : t[1] = k}
Held == camera \union screen \union stream
Pages == {"out", "joining", "in", "failed", "kicked"}

TypeOK ==
  /\ camera \subseteq Track /\ screen \subseteq Track /\ stream \subseteq Track
  /\ sharing = (screen # {})
  /\ running \subseteq Track /\ enabled \subseteq Track
  /\ prompts \subseteq Prompt /\ asked \in 0 .. MaxPrompts
  /\ \A p \in prompts : p.id <= asked
  /\ visit \in 0 .. MaxVisits /\ page \in Pages
  /\ visit = 0 => page = "out"
  /\ me \subseteq Settings /\ shown \in [1 .. MaxVisits -> SUBSET Settings]
  /\ waiting \in 0 .. MaxToggles
  /\ dirty \in BOOLEAN /\ dirty => page = "in"
  /\ unsure \subseteq Settings /\ late \subseteq Track /\ crowded \in BOOLEAN

-----------------------------------------------------------------------------
(* Prompts and tracks.                                                     *)

\* getUserMedia, getDisplayMedia: the browser asks, and the code awaits the answer.
Ask(kind, for, v) ==
  /\ asked < MaxPrompts
  /\ asked' = asked + 1
  /\ prompts' = prompts \union {[id |-> asked + 1, kind |-> kind, for |-> for, visit |-> v]}
  /\ crowded' = (crowded \/ \E p \in prompts : p.kind = kind)

\* Mutant of Switched: only the tracks of the current stream are reached.
SwitchedInStream(k, cameraStream, current, isSharing) ==
  IF k = "mic" THEN Of("mic", current)
  ELSE IF isSharing THEN {} ELSE Of("cam", current) \union Of("screen", current)

\* The tracks that setMicEnabled and setCameraEnabled reach.
Switched(k, cameraStream, current, isSharing) ==
  IF k = "mic" THEN Of("mic", cameraStream \union current)
  ELSE Of("cam", cameraStream)
       \union (IF isSharing THEN {} ELSE Of("cam", current) \union Of("screen", current))

\* The tracks of the settings ks are switched on if in settings, off if not, by a page
\* that shows the settings.
Switch(ks, settings, cameraStream, current, isSharing) ==
  LET reach(ds) == UNION {Switched(k, cameraStream, current, isSharing) : k \in ds}
  IN  /\ enabled' = (enabled \ reach(ks)) \union reach(ks \intersect settings)
      /\ late' = late \ reach(ks)
      /\ unsure' = unsure \ ks

\* syncLocalState, over streams that do not change.
Sync(settings) ==
  /\ shown' = [shown EXCEPT ![visit] = settings]
  /\ Switch(Settings, settings, camera, stream, sharing)

-----------------------------------------------------------------------------
(* The page.                                                               *)

\* ngOnInit and join: asks for camera and microphone, unless the service has a stream
\* already, and to join the room.
Visit ==
  /\ page = "out" /\ visit < MaxVisits
  /\ visit' = visit + 1 /\ page' = "joining"
  /\ IF stream = {} THEN Ask("camera", "join", visit + 1) ELSE UNCHANGED ask
  /\ UNCHANGED <<held, track, me, shown, waiting, dirty>>

\* The acknowledgement of join-room.
Joined(settings) ==
  /\ page = "joining" /\ page' = "in"
  /\ me' = settings
  /\ Sync(settings)
  /\ dirty' = TRUE
  /\ UNCHANGED <<held, ask, visit, waiting>>

\* The join is refused, or not answered in five seconds.
JoinFails ==
  /\ page = "joining" /\ page' = "failed"
  /\ UNCHANGED <<held, ask, track, visit, me, shown, waiting, dirty>>

\* participant-updated for the page's participant: after a change by the host or by the
\* participant.
Updated(settings) ==
  /\ page = "in"
  /\ me' = settings /\ dirty' = TRUE
  /\ UNCHANGED <<held, ask, track, visit, page, shown, waiting>>

\* The effect on me().
RunEffect ==
  /\ dirty /\ dirty' = FALSE
  /\ Sync(me)
  /\ UNCHANGED <<held, ask, user>>

\* toggleMic and toggleCamera: the tracks first, then the request, which is rejected at
\* once on a page that has no participant.
Toggle(k) ==
  /\ page # "out"
  /\ LET on    == k \notin shown[visit]
         reach == Switched(k, camera, stream, sharing)
     IN  /\ enabled' = IF on THEN enabled \union reach ELSE enabled \ reach
         /\ late' = late \ reach
  /\ unsure' = unsure \union {k}
  /\ IF page = "in" THEN waiting < MaxToggles /\ waiting' = waiting + 1
     ELSE UNCHANGED waiting
  /\ UNCHANGED <<held, ask, visit, page, me, shown, dirty>>

\* The acknowledgement of a toggle.
Acked(settings) ==
  /\ page = "in" /\ waiting > 0 /\ waiting' = waiting - 1
  /\ me' = settings
  /\ Sync(settings)
  /\ dirty' = TRUE
  /\ UNCHANGED <<held, ask, visit, page>>

\* A toggle is refused, or not answered in five seconds: the tracks stay as they are.
Unanswered ==
  /\ waiting > 0 /\ waiting' = waiting - 1
  /\ UNCHANGED <<held, ask, track, visit, page, me, shown, dirty>>

\* participant-kicked: the service forgets the participant, and the page stays.
Kicked ==
  /\ page \in {"joining", "in", "failed"} /\ page' = "kicked"
  /\ dirty' = FALSE
  /\ UNCHANGED <<held, ask, track, visit, me, shown, waiting>>

-----------------------------------------------------------------------------
(* Sharing the screen.                                                     *)

\* The effect on me() has read screenSharing.
Shares(now) ==
  /\ sharing' = now
  /\ dirty' = (dirty \/ (page = "in" /\ now # sharing))

\* stopScreenShare of the service.
StopScreen ==
  /\ running' = running \ screen
  /\ screen' = {} /\ stream' = camera
  /\ Shares(FALSE)
  /\ UNCHANGED camera

\* stopScreenShare of the page.
StopShare ==
  /\ page # "out" /\ sharing
  /\ StopScreen
  /\ Switch(Settings, shown[visit], camera, camera, FALSE)
  /\ UNCHANGED <<ask, user, shown>>

\* startScreenShare up to its first prompt.
StartShare ==
  /\ page # "out" /\ ~sharing
  /\ Ask(IF camera \union stream = {} THEN "camera" ELSE "screen", "share", visit)
  /\ UNCHANGED <<held, track, user, shown, dirty>>

\* onended of the screen track: the person stops sharing from the browser's own bar.
\* The listener stops whatever is shared now.
ScreenEnds ==
  /\ \E t \in Of("screen", running) :
       /\ running' = running \ ({t} \union screen)
       /\ screen' = {} /\ stream' = camera
       /\ Shares(FALSE)
  /\ UNCHANGED <<camera, track, ask, user, shown>>

-----------------------------------------------------------------------------
(* The person's answers.                                                   *)

\* startLocalMedia goes on: for startScreenShare, to the screen's prompt.
GrantCamera(p) ==
  LET got == {"mic", "cam"} \X {p.id}
  IN  /\ p.kind = "camera"
      /\ camera' = got /\ stream' = got
      /\ running' = running \union got
      /\ enabled' = enabled \union got /\ late' = late \union got
      /\ IF p.for = "share"
         THEN /\ asked < MaxPrompts /\ asked' = asked + 1
              /\ prompts' = (prompts \ {p}) \union
                            {[p EXCEPT !.id = asked + 1, !.kind = "screen"]}
              /\ crowded' = (crowded \/ sharing \/ \E q \in prompts : q.kind = "screen")
         ELSE prompts' = prompts \ {p} /\ UNCHANGED <<asked, crowded>>
      /\ UNCHANGED <<screen, sharing, unsure, user, shown, dirty>>

\* startScreenShare goes on, and so does the page that asked, even if it was left.
GrantScreen(p) ==
  LET got   == {<<"screen", p.id>>}
      audio == Of("mic", camera)
  IN  /\ p.kind = "screen"
      /\ prompts' = prompts \ {p}
      /\ screen' = got /\ stream' = got \union audio
      /\ running' = running \union got
      /\ enabled' = (enabled \ audio) \union got
                    \union (IF "mic" \in shown[p.visit] THEN audio ELSE {})
      /\ late' = late \ audio
      /\ unsure' = IF p.visit = visit THEN unsure \ {"mic"} ELSE unsure \union {"mic"}
      /\ Shares(TRUE)
      /\ UNCHANGED <<camera, asked, crowded, user, shown>>

\* The promise is rejected: the join goes on without media, the share is given up.
Deny(p) ==
  /\ prompts' = prompts \ {p}
  /\ UNCHANGED <<held, track, asked, crowded, user, shown, dirty>>

-----------------------------------------------------------------------------
\* Mutant of Leave: only the current stream is stopped.
LeaveStoppingStream ==
  /\ page # "out" /\ page' = "out"
  /\ running' = running \ (screen \union stream)
  /\ camera' = {} /\ screen' = {} /\ stream' = {} /\ sharing' = FALSE
  /\ waiting' = 0 /\ dirty' = FALSE
  /\ UNCHANGED <<ask, track, visit, me, shown>>

\* Mutant of Leave: screenSharing is not reset.
LeaveStillSharing ==
  /\ page # "out" /\ page' = "out"
  /\ running' = running \ Held
  /\ camera' = {} /\ screen' = {} /\ stream' = {}
  /\ waiting' = 0 /\ dirty' = FALSE
  /\ UNCHANGED <<sharing, ask, track, visit, me, shown>>

\* ngOnDestroy: leaveRoom and stopLocalMedia.  Open prompts stay open.
Leave ==
  /\ page # "out" /\ page' = "out"
  /\ running' = running \ Held
  /\ camera' = {} /\ screen' = {} /\ stream' = {} /\ sharing' = FALSE
  /\ waiting' = 0 /\ dirty' = FALSE
  /\ UNCHANGED <<ask, track, visit, me, shown>>

Init ==
  /\ camera = {} /\ screen = {} /\ stream = {} /\ sharing = FALSE
  /\ running = {} /\ enabled = {}
  /\ prompts = {} /\ asked = 0 /\ crowded = FALSE
  /\ visit = 0 /\ page = "out" /\ me = {}
  /\ shown = [v \in 1 .. MaxVisits |-> Settings]
  /\ waiting = 0 /\ dirty = FALSE
  /\ unsure = {} /\ late = {}

Next ==
  \/ Visit \/ JoinFails \/ RunEffect \/ Unanswered \/ Kicked \/ Leave
  \/ StartShare \/ StopShare \/ ScreenEnds
  \/ \E settings \in SUBSET Settings :
       Joined(settings) \/ Updated(settings) \/ Acked(settings)
  \/ \E k \in Settings : Toggle(k)
  \/ \E p \in prompts : GrantCamera(p) \/ GrantScreen(p) \/ Deny(p)

Spec == Init /\ [][Next]_vars
-----------------------------------------------------------------------------
(* Properties.                                                             *)

\* On a page that is in its room and has no effect to run, a track that captures is on
\* exactly if the room takes its setting as on: a microphone that the host muted is
\* muted, also while a screen is shared and after sharing stopped, and one that others
\* see as on is on.  Not so after a toggle that was not acknowledged (or a share that an
\* earlier visit asked for), and not for a stream that arrived after the settings were
\* applied.  A shared screen is never switched off by the camera's setting.
TracksFollowTheSettings ==
  page = "in" /\ ~dirty =>
    \A t \in (stream \union camera) \intersect running :
      IF t[1] = "screen" THEN t \in enabled
      ELSE t \in late \/ t[1] \in unsure \/ (t \in enabled <=> t[1] \in me)

\* Leaving the conference page stops every camera, microphone and screen capture, also
\* those of the camera that a shared screen has replaced; unless two prompts of one kind
\* were open at once, or one for the screen while a screen was shared: then the second
\* stream granted replaces the first one unstopped.
LeavingReleases ==
  [][page # "out" /\ page' = "out" /\ ~crowded => running' = {}]_vars
=============================================================================
