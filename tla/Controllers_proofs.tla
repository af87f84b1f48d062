---------------------------- MODULE Controllers_proofs ----------------------------
(***************************************************************************)
(* Proofs about the controllers of an accessory and the network they are   *)
(* reached on, for any bounds. AccessControl, for any passwords: a         *)
(* television's plugin learns the settings. RemoteController, for any      *)
(* targets, connections and streams: voice goes to the active target, in   *)
(* order. AdaptiveLighting, for any curves and any clock: timer, listeners *)
(* and storage agree with the transition, and the search finds an entry in *)
(* force whenever there is one. NetworkBinding, for any interfaces and     *)
(* options: nothing is announced that is not served. Advertiser, for any   *)
(* calls that cross: once they are answered, what is announced is current. *)
(***************************************************************************)
EXTENDS AccessControl, RemoteController, AdaptiveLighting, NetworkBinding, Advertiser, Induction_proofs, SequenceTheorems, TLAPS

-----------------------------------------------------------------------------
(* AccessControl: the inductive invariant.  An event tells what is current *)
(* when it is delivered, not when it was caused; so whatever the plugin    *)
(* does not know yet, an event of that kind is still waiting.              *)

\* While the service is managed, it holds what the characteristics show.
ManagedAsShown ==
  ~destroyed =>
    /\ accessLevel = accessControlLevel
    /\ passwordRequired = setting.required
    /\ ~thrown => password = setting.password

\* What the plugin does not know yet will be told by an event that waits.
UntoldIsWaiting ==
  ~destroyed =>
    /\ told.level # accessLevel => "level" \in Range(events)
    /\ told.required # passwordRequired => "password" \in Range(events)
    /\ ~thrown /\ told.password # password => "password" \in Range(events)

AccessIInv ==
  /\ AccessTypeOK
  /\ events \in Seq({"level", "password"})
  /\ destroyed \in BOOLEAN /\ thrown \in BOOLEAN
  /\ ManagedAsShown
  /\ UntoldIsWaiting

\* Appending and taking off the first, of what a sequence holds.
LEMMA RangeAppendTail ==
  ASSUME NEW S, NEW s \in Seq(S)
  PROVE  /\ \A x : x \in Range(Append(s, x))
         /\ \A x : Range(s) \subseteq Range(Append(s, x))
         /\ s # <<>> => \A x \in Range(s) : x = Head(s) \/ x \in Range(Tail(s))
<1>1. ASSUME NEW x PROVE x \in Range(Append(s, x)) /\ Range(s) \subseteq Range(Append(s, x))
  <2>1. /\ DOMAIN Append(s, x) = 1..(Len(s) + 1) /\ Append(s, x)[Len(s) + 1] = x
        /\ \A k \in 1..Len(s) : Append(s, x)[k] = s[k]
    OBVIOUS
  <2>2. DOMAIN s = 1..Len(s) /\ Len(s) \in Nat
    OBVIOUS
  <2> QED BY <2>1, <2>2 DEF Range
<1>2. ASSUME s # <<>>, NEW x \in Range(s) PROVE x = Head(s) \/ x \in Range(Tail(s))
  <2>1. PICK k \in 1..Len(s) : x = s[k]
    BY <1>2 DEF Range
  <2>2. CASE k = 1
    BY <1>2, <2>1, <2>2
  <2>3. CASE k > 1
    <3>1. Len(s) \in Nat /\ k - 1 \in 1..(Len(s) - 1) /\ DOMAIN Tail(s) = 1..(Len(s) - 1)
      BY <1>2, <2>3
    <3>2. Tail(s)[k - 1] = s[k]
      BY <1>2, <2>3, <3>1
    <3> QED BY <2>1, <3>1, <3>2 DEF Range
  <2> QED BY <2>2, <2>3
<1> QED BY <1>1, <1>2


\* Init => IInv
LEMMA AccessInitIInv == AccessInit => AccessIInv
<1> SUFFICES ASSUME AccessInit PROVE AccessIInv
  OBVIOUS
<1>1. events \in Seq({"level", "password"}) /\ Range(events) = {}
  BY DEF AccessInit, Range
<1>2. AccessTypeOK
  BY <1>1 DEF AccessInit, AccessTypeOK, Levels, Chosen, Settings, Setting
<1>3. ManagedAsShown /\ UntoldIsWaiting
  BY DEF AccessInit, Setting, ManagedAsShown, UntoldIsWaiting
<1> QED BY <1>1, <1>2, <1>3 DEF AccessInit, AccessIInv

\* The writes: a change is followed by an event of its kind, or leaves the mark of a handler that threw.
LEMMA AccessWritePreserves ==
  ASSUME AccessIInv,
         \/ \E value \in Levels : AccessLevelChange(value)
         \/ \E value \in Settings : PasswordChange(value)
         \/ \E p \in Chosen : PasswordChangeThrows(p)
  PROVE  AccessIInv'
<1> USE AccessAssumption
<1>0. /\ AccessTypeOK /\ ManagedAsShown /\ UntoldIsWaiting
      /\ events \in Seq({"level", "password"}) /\ destroyed \in BOOLEAN /\ thrown \in BOOLEAN
  BY DEF AccessIInv
<1>1. \A e \in {"level", "password"} :
        /\ Append(events, e) \in Seq({"level", "password"})
        /\ e \in Range(Append(events, e)) /\ Range(events) \subseteq Range(Append(events, e))
  BY <1>0, RangeAppendTail
<1>2. \A s \in Seq({"level", "password"}) : Range(s) \subseteq {"level", "password"}
  BY DEF Range
<1>3. CASE \E value \in Levels : AccessLevelChange(value)
  <2>1. PICK value \in Levels : AccessLevelChange(value)
    BY <1>3
  <2>2. /\ accessLevel' = value /\ accessControlLevel' = value /\ events' = Append(events, "level")
        /\ UNCHANGED <<passwordSetting, password, passwordRequired, setting, told, destroyed, thrown>>
    BY <2>1 DEF AccessLevelChange, Defer
  <2>3. events' \in Seq({"level", "password"}) /\ "level" \in Range(events') /\ Range(events) \subseteq Range(events')
    BY <1>1, <2>2
  <2>4. AccessTypeOK'
    BY <1>0, <1>2, <2>2, <2>3 DEF AccessTypeOK
  <2> QED BY <1>0, <2>2, <2>3, <2>4 DEF AccessIInv, ManagedAsShown, UntoldIsWaiting
<1>4. CASE \E value \in Settings : PasswordChange(value)
  <2>1. PICK value \in Settings : PasswordChange(value)
    BY <1>4
  <2>2. /\ password' = value.password /\ passwordRequired' = value.required /\ setting' = value
        /\ events' = Append(events, "password")
        /\ UNCHANGED <<passwordSetting, accessLevel, accessControlLevel, told, destroyed, thrown>>
    BY <2>1 DEF PasswordChange, Password, Defer
  <2>3. events' \in Seq({"level", "password"}) /\ "password" \in Range(events') /\ Range(events) \subseteq Range(events')
    BY <1>1, <2>2
  <2>4. AccessTypeOK'
    BY <1>0, <1>2, <2>2, <2>3 DEF AccessTypeOK, Settings
  <2> QED BY <1>0, <2>2, <2>3, <2>4 DEF AccessIInv, ManagedAsShown, UntoldIsWaiting
<1>5. CASE \E p \in Chosen : PasswordChangeThrows(p)
  <2>1. PICK p \in Chosen : PasswordChangeThrows(p)
    BY <1>5
  <2> QED BY <1>0, <2>1
    DEF PasswordChangeThrows, AccessIInv, AccessTypeOK, ManagedAsShown, UntoldIsWaiting
<1> QED BY <1>3, <1>4, <1>5

\* Emit: what waits for an event of the kind that is delivered is told by it.
LEMMA EmitPreserves ==
  ASSUME AccessIInv, Emit
  PROVE  AccessIInv'
<1>0. /\ AccessTypeOK /\ ManagedAsShown /\ UntoldIsWaiting
      /\ events \in Seq({"level", "password"}) /\ destroyed \in BOOLEAN /\ thrown \in BOOLEAN
      /\ events # <<>> /\ events' = Tail(events)
      /\ UNCHANGED <<passwordSetting, accessLevel, password, passwordRequired, accessControlLevel, setting,
                     destroyed, thrown>>
  BY DEF AccessIInv, Emit
<1>1. /\ events' \in Seq({"level", "password"})
      /\ Head(events) \in {"level", "password"}
      /\ \A x \in Range(events) : x = Head(events) \/ x \in Range(events')
  BY <1>0, RangeAppendTail
<1>2. Range(events') \subseteq {"level", "password"}
  BY <1>1 DEF Range
<1>3. CASE destroyed
  <2>1. told' = told
    BY <1>3 DEF Emit
  <2> QED BY <1>0, <1>1, <1>2, <1>3, <2>1 DEF AccessIInv, AccessTypeOK, ManagedAsShown, UntoldIsWaiting
<1>4. CASE ~destroyed /\ Head(events) = "level"
  <2>1. told' = [told EXCEPT !.level = accessLevel]
    BY <1>4 DEF Emit
  <2>2. /\ told' \in [level : Levels, password : Chosen, required : BOOLEAN]
        /\ told'.level = accessLevel /\ told'.password = told.password /\ told'.required = told.required
    BY <1>0, <2>1 DEF AccessTypeOK
  <2> QED BY <1>0, <1>1, <1>2, <1>4, <2>2 DEF AccessIInv, AccessTypeOK, ManagedAsShown, UntoldIsWaiting
<1>5. CASE ~destroyed /\ Head(events) # "level"
  <2>1. told' = [told EXCEPT !.password = password, !.required = passwordRequired]
    BY <1>5 DEF Emit
  <2>2. /\ told' \in [level : Levels, password : Chosen, required : BOOLEAN]
        /\ told'.level = told.level /\ told'.password = password /\ told'.required = passwordRequired
    BY <1>0, <2>1 DEF AccessTypeOK
  <2> QED BY <1>0, <1>1, <1>2, <1>5, <2>2 DEF AccessIInv, AccessTypeOK, ManagedAsShown, UntoldIsWaiting
<1> QED BY <1>3, <1>4, <1>5

\* IInv /\ [Next]_vars => IInv'
LEMMA AccessNextIInv == AccessIInv /\ [AccessNext]_accessVars => AccessIInv'
<1> SUFFICES ASSUME AccessIInv, [AccessNext]_accessVars PROVE AccessIInv'
  OBVIOUS
<1>1. CASE \E level \in Levels, value \in Settings : WriteUnheard(level, value)
  BY <1>1 DEF WriteUnheard, AccessIInv, AccessTypeOK, ManagedAsShown, UntoldIsWaiting
<1>2. CASE DestroyManagement
  BY <1>2 DEF DestroyManagement, AccessIInv, AccessTypeOK, ManagedAsShown, UntoldIsWaiting
<1>3. CASE UNCHANGED accessVars
  BY <1>3 DEF accessVars, AccessIInv, AccessTypeOK, ManagedAsShown, UntoldIsWaiting
<1>4. CASE Emit
  BY <1>4, EmitPreserves
<1>5. CASE \/ \E value \in Levels : AccessLevelChange(value)
           \/ \E value \in Settings : PasswordChange(value)
           \/ \E p \in Chosen : PasswordChangeThrows(p)
  BY <1>5, AccessWritePreserves
<1> QED BY <1>1, <1>2, <1>3, <1>4, <1>5 DEF AccessNext

\* When no event waits, the plugin knows the access level, whether a password is required and, as long
\* as no handler threw, which one, however many writes of either kind came before the first event was
\* delivered (AccessControlManagement).
THEOREM PluginAlwaysKnowsSettings == AccessSpec => []PluginKnowsSettings
<1>1. AccessIInv => PluginKnowsSettings
  <2> SUFFICES ASSUME AccessIInv, events = <<>>, ~destroyed
               PROVE  /\ told.level = accessControlLevel /\ told.required = setting.required
                      /\ ~thrown => told.password = setting.password
    BY DEF AccessIInv, PluginKnowsSettings
  <2>1. Range(events) = {}
    BY DEF Range
  <2> QED BY <2>1 DEF AccessIInv, ManagedAsShown, UntoldIsWaiting
<1> QED BY <1>1, AccessInitIInv, AccessNextIInv, PTL DEF AccessSpec


-----------------------------------------------------------------------------
(* RemoteController: the inductive invariant.  That one producer records   *)
(* at a time follows from which sessions are referenced: a second one only *)
(* while the first is closing.                                             *)

\* A session that sends has its answer and a producer; a producer that goes on after the end of its session is
\* one whose dataSend.open has failed or whose end was acknowledged before it was sent.
Sound(s) ==
  /\ s.state = "SENDING" => s.producerRunning /\ ~s.opening
  /\ s.producerRunning /\ IsClosing(s) => s.unstopped /\ ~s.opening

\* The sessions that are referenced are alive; the next one waits for an active one that closes.
ReferencedAlive ==
  /\ activeAudioSession # 0 => sessions[activeAudioSession].state # "CLOSED"
  /\ nextAudioSession # 0 =>
       /\ activeAudioSession # 0 /\ nextAudioSession # activeAudioSession
       /\ sessions[nextAudioSession].state # "CLOSED"
       /\ IsClosing(sessions[activeAudioSession])

AudioTypeOK ==
  /\ sessions \in [1..MaxSessions -> AudioSession]
  /\ activeAudioSession \in 0..MaxSessions /\ nextAudioSession \in 0..MaxSessions

\* A session that has not ended is referenced, and is one of the target unless it closes.
VoiceFor(target) ==
  \A i \in 1..MaxSessions :
    sessions[i].state # "CLOSED" =>
      /\ i \in {activeAudioSession, nextAudioSession}
      /\ ~IsClosing(sessions[i]) => sessions[i].target = target

AudioFor(target) ==
  /\ AudioTypeOK
  /\ \A i \in 1..MaxSessions : Sound(sessions[i])
  /\ VoiceFor(target)
  /\ ReferencedAlive

\* The active target was configured, or is the one a restart brought back.
ActiveTargetKnown ==
  activeIdentifier # NoTarget => activeIdentifier \in targetConfigurations \cup {restoredIdentifier}

RemoteIInv ==
  /\ RemoteTypeOK
  /\ AudioFor(activeIdentifier)
  /\ ActiveIsConfigured
  /\ ActiveTargetKnown

\* A session as it may go on: towards its end, for the same target.
Follows(s, t) ==
  /\ t \in AudioSession
  /\ Sound(t)
  /\ t.state # "CLOSED" => s.state # "CLOSED" /\ t.target = s.target
  /\ IsClosing(s) => IsClosing(t)

\* Nothing that happens to a session starts it again or gives it another target (SiriAudioSession).
LEMMA SessionsFollow ==
  ASSUME NEW s \in AudioSession, Sound(s)
  PROVE  /\ Follows(s, Stopped(s)) /\ IsClosing(Stopped(s))
         /\ Follows(s, Cancelled(s))
         /\ s.opening => Follows(s, Opened(s)) /\ Follows(s, Refused(s))
         /\ s.producerRunning /\ ~IsClosing(s) => Follows(s, WithFrame(s)) /\ Follows(s, ProducerFailed(s))
         /\ s.state \in {"SENDING", "CLOSING"} => Follows(s, Acknowledged(s))
<1> USE RemoteAssumption
<1>1. Rest(s.audioFrameQueue) \in 0..MaxQueue
  BY DEF Rest, AudioSession
<1>2. Follows(s, Stopped(s)) /\ IsClosing(Stopped(s))
  BY <1>1 DEF Follows, Stopped, Sound, IsClosing, AudioSession
<1>3. Follows(s, Cancelled(s))
  BY DEF Follows, Cancelled, Sound, IsClosing, AudioSession
<1>4. s.opening => Follows(s, Opened(s))
  BY DEF Follows, Opened, Sound, IsClosing, AudioSession
<1>5. s.opening => Follows(s, Refused(s))
  BY DEF Follows, Refused, Sound, IsClosing, AudioSession
<1>6. s.producerRunning /\ ~IsClosing(s) => Follows(s, ProducerFailed(s))
  BY DEF Follows, ProducerFailed, Sound, IsClosing, AudioSession
<1>7. s.producerRunning /\ ~IsClosing(s) => Follows(s, WithFrame(s))
  <2>1. \A q \in 0..MaxQueue : q % PacketSize \in 0..MaxQueue
    OBVIOUS
  <2> QED BY <2>1 DEF Follows, WithFrame, Sound, IsClosing, AudioSession
<1>8. s.state \in {"SENDING", "CLOSING"} => Follows(s, Acknowledged(s))
  <2> SUFFICES ASSUME s.state \in {"SENDING", "CLOSING"} PROVE Follows(s, Acknowledged(s))
    OBVIOUS
  <2>1. CASE s.state = "SENDING"
    <3>1. Acknowledged(s) = [s EXCEPT !.state = "CLOSED", !.unstopped = TRUE]
      BY <2>1 DEF Acknowledged
    <3>2. ~s.opening /\ s.producerRunning
      BY <2>1 DEF Sound
    <3> QED BY <2>1, <3>1, <3>2 DEF Follows, Sound, IsClosing, AudioSession
  <2>2. CASE s.state = "CLOSING"
    BY <1>3, <2>2 DEF Acknowledged
  <2> QED BY <2>1, <2>2
<1> QED BY <1>2, <1>3, <1>4, <1>5, <1>6, <1>7, <1>8

\* Forgetting a session that nobody will call any more changes nothing of this.
LEMMA SettledFollows ==
  ASSUME NEW s, NEW t, Follows(s, t)
  PROVE  Follows(s, Settled(t)) /\ Settled(t).state = t.state
BY RemoteAssumption DEF Follows, Settled, NoSession, Sound, IsClosing, AudioSession

\* Sessions that go on, and those that close, are still referenced as they should be
\* (handleSiriAudioSessionClosed).
LEMMA PromotePreserves ==
  ASSUME NEW target, AudioFor(target),
         NEW closed \in SUBSET (1..MaxSessions), Promote(closed),
         sessions' \in [1..MaxSessions -> AudioSession],
         \A i \in 1..MaxSessions : Follows(sessions[i], sessions'[i]),
         \A i \in closed : sessions'[i].state = "CLOSED",
         \A i \in 1..MaxSessions : sessions'[i].state = "CLOSED" => i \in closed \/ sessions[i].state = "CLOSED"
  PROVE  AudioFor(target)'
<1>0. MaxSessions \in Nat /\ 0 \notin closed
  BY RemoteAssumption
<1>1. /\ activeAudioSession' = IF activeAudioSession \notin closed THEN activeAudioSession
                               ELSE IF nextAudioSession \in closed THEN 0 ELSE nextAudioSession
      /\ nextAudioSession' = IF {activeAudioSession, nextAudioSession} \cap closed # {} THEN 0
                             ELSE nextAudioSession
  BY DEF Promote
<1>2. AudioTypeOK'
  BY <1>0, <1>1 DEF AudioFor, AudioTypeOK
<1>3. \A i \in 1..MaxSessions : Sound(sessions'[i])
  BY DEF Follows
<1>4. VoiceFor(target)'
  <2> SUFFICES ASSUME NEW i \in 1..MaxSessions, sessions'[i].state # "CLOSED"
               PROVE  /\ i \in {activeAudioSession', nextAudioSession'}
                      /\ ~IsClosing(sessions'[i]) => sessions'[i].target = target
    BY DEF VoiceFor
  <2>1. sessions[i].state # "CLOSED" /\ i \notin closed
    BY DEF Follows
  <2>2. i \in {activeAudioSession, nextAudioSession}
    BY <2>1 DEF AudioFor, VoiceFor
  <2>3. i \in {activeAudioSession', nextAudioSession'}
    BY <1>0, <1>1, <2>1, <2>2 DEF AudioFor, ReferencedAlive
  <2>4. ~IsClosing(sessions'[i]) => ~IsClosing(sessions[i]) /\ sessions'[i].target = sessions[i].target
    BY DEF Follows
  <2>5. ~IsClosing(sessions[i]) => sessions[i].target = target
    BY <2>1 DEF AudioFor, VoiceFor
  <2> QED BY <2>3, <2>4, <2>5
<1>5. ReferencedAlive'
  <2>1. activeAudioSession \in 0..MaxSessions /\ nextAudioSession \in 0..MaxSessions /\ ReferencedAlive
    BY DEF AudioFor, AudioTypeOK
  <2>2. activeAudioSession' # 0 => sessions'[activeAudioSession'].state # "CLOSED"
    BY <1>0, <1>1, <2>1 DEF ReferencedAlive
  <2>3. ASSUME nextAudioSession' # 0
        PROVE  /\ activeAudioSession' = activeAudioSession /\ nextAudioSession' = nextAudioSession
               /\ activeAudioSession \notin closed /\ nextAudioSession \notin closed
    BY <1>0, <1>1, <2>1, <2>3 DEF ReferencedAlive
  <2>4. nextAudioSession' # 0 =>
          /\ activeAudioSession' # 0 /\ nextAudioSession' # activeAudioSession'
          /\ sessions'[nextAudioSession'].state # "CLOSED"
    BY <1>0, <2>1, <2>3 DEF ReferencedAlive
  <2>5. nextAudioSession' # 0 => IsClosing(sessions'[activeAudioSession'])
    BY <1>0, <2>1, <2>3 DEF ReferencedAlive, Follows
  <2> QED BY <2>2, <2>4, <2>5 DEF ReferencedAlive, IsClosing
<1> QED BY <1>2, <1>3, <1>4, <1>5 DEF AudioFor


\* One session goes on (SessionBecomes).
LEMMA SessionBecomesPreserves ==
  ASSUME NEW target, AudioFor(target), NEW i \in 1..MaxSessions, NEW t,
         Follows(sessions[i], t), SessionBecomes(i, t)
  PROVE  /\ AudioFor(target)'
         /\ sessions' \in [1..MaxSessions -> AudioSession]
         /\ IsClosing(t) => IsClosing(sessions'[i])
         /\ \A j \in 1..MaxSessions : j # i => sessions'[j] = sessions[j]
<1>0. MaxSessions \in Nat /\ sessions \in [1..MaxSessions -> AudioSession]
  BY RemoteAssumption DEF AudioFor, AudioTypeOK
<1>1. PICK closed \in SUBSET (1..MaxSessions) : closed = IF t.state = "CLOSED" THEN {i} ELSE {}
  OBVIOUS
<1>2. /\ sessions' = [sessions EXCEPT ![i] = Settled(t)]
      /\ Promote(closed)
  BY <1>1 DEF SessionBecomes
<1>3. Follows(sessions[i], Settled(t)) /\ Settled(t).state = t.state
  BY SettledFollows
<1>4. /\ sessions' \in [1..MaxSessions -> AudioSession]
      /\ sessions'[i] = Settled(t)
      /\ \A j \in 1..MaxSessions : j # i => sessions'[j] = sessions[j]
  BY <1>0, <1>2, <1>3 DEF Follows
<1>5. \A j \in 1..MaxSessions : Follows(sessions[j], sessions'[j])
  <2>1. \A j \in 1..MaxSessions : Follows(sessions[j], sessions[j])
    BY <1>0 DEF Follows, AudioFor
  <2> QED BY <1>3, <1>4, <2>1
<1>6. \A j \in closed : sessions'[j].state = "CLOSED"
  BY <1>1, <1>3, <1>4
<1>7. \A j \in 1..MaxSessions : sessions'[j].state = "CLOSED" => j \in closed \/ sessions[j].state = "CLOSED"
  BY <1>1, <1>3, <1>4
<1>8. AudioFor(target)'
  BY <1>2, <1>4, <1>5, <1>6, <1>7, PromotePreserves
<1> QED BY <1>3, <1>4, <1>8 DEF IsClosing

\* Releasing the button, and giving up the target, stop the one session that is not closing yet
\* (handleSiriAudioStop).
LEMMA StopPreserves ==
  ASSUME NEW target, AudioFor(target), HandleSiriAudioStop
  PROVE  /\ AudioFor(target)'
         /\ \A i \in 1..MaxSessions : IsClosing(sessions'[i])
<1>0. /\ MaxSessions \in Nat /\ sessions \in [1..MaxSessions -> AudioSession]
      /\ activeAudioSession \in 0..MaxSessions /\ nextAudioSession \in 0..MaxSessions
      /\ ReferencedAlive
      /\ \A i \in 1..MaxSessions : Sound(sessions[i])
  BY RemoteAssumption DEF AudioFor, AudioTypeOK
<1>1. \A i \in 1..MaxSessions : ~IsClosing(sessions[i]) => i \in {activeAudioSession, nextAudioSession}
  BY <1>0 DEF AudioFor, VoiceFor, IsClosing
<1>2. PICK open : open = {i \in {activeAudioSession, nextAudioSession} \ {0} : ~IsClosing(sessions[i])}
  OBVIOUS
<1>3. Stoppable = IF activeAudioSession \in open THEN {activeAudioSession} ELSE open
  BY <1>2 DEF Stoppable
<1>4. \A i \in open : i \in 1..MaxSessions
  BY <1>0, <1>2
<1>5. CASE Stoppable = {}
  <2>1. UNCHANGED audioVars
    BY <1>5 DEF HandleSiriAudioStop
  <2>2. open = {}
    BY <1>3, <1>5
  <2>3. \A i \in 1..MaxSessions : IsClosing(sessions[i])
    BY <1>0, <1>1, <1>2, <2>2
  <2> QED BY <2>1, <2>3 DEF audioVars, AudioFor, AudioTypeOK, VoiceFor, ReferencedAlive, IsClosing
<1>6. CASE Stoppable # {}
  <2>1. PICK i \in Stoppable : SessionBecomes(i, Stopped(sessions[i]))
    BY <1>6 DEF HandleSiriAudioStop
  <2>2. i \in open /\ i \in 1..MaxSessions
    BY <1>3, <1>4, <2>1
  <2>3. Follows(sessions[i], Stopped(sessions[i])) /\ IsClosing(Stopped(sessions[i]))
    BY <1>0, <2>2, SessionsFollow
  <2>4. /\ AudioFor(target)'
        /\ IsClosing(sessions'[i])
        /\ \A j \in 1..MaxSessions : j # i => sessions'[j] = sessions[j]
    BY <2>1, <2>2, <2>3, SessionBecomesPreserves
  <2>5. \A j \in 1..MaxSessions : j # i => IsClosing(sessions[j])
    <3>1. nextAudioSession # 0 => activeAudioSession \notin open
      BY <1>0, <1>2 DEF ReferencedAlive
    <3>2. i = activeAudioSession \/ (i = nextAudioSession /\ activeAudioSession \notin open)
      BY <1>2, <1>3, <2>1, <2>2
    <3> QED BY <1>0, <1>1, <1>2, <2>2, <3>1, <3>2
  <2>6. \A j \in 1..MaxSessions : IsClosing(sessions'[j])
    BY <2>4, <2>5 DEF IsClosing
  <2> QED BY <2>4, <2>6
<1> QED BY <1>5, <1>6

\* With no session left to send, any target may become the active one (setActiveIdentifier).
LEMMA TargetBecomesPreserves ==
  ASSUME AudioFor(activeIdentifier), NEW target, ActiveIdentifierBecomes(target)
  PROVE  AudioFor(activeIdentifier)'
<1>1. CASE target = activeIdentifier
  BY <1>1 DEF ActiveIdentifierBecomes, audioVars, AudioFor, AudioTypeOK, VoiceFor, ReferencedAlive
<1>2. CASE target # activeIdentifier
  <2>1. HandleSiriAudioStop
    BY <1>2 DEF ActiveIdentifierBecomes
  <2>2. PICK old : old = activeIdentifier
    OBVIOUS
  <2>3. AudioFor(old)
    BY <2>2
  <2>4. AudioFor(old)' /\ \A i \in 1..MaxSessions : IsClosing(sessions'[i])
    BY <2>1, <2>3, StopPreserves
  <2> QED BY <2>4 DEF AudioFor, VoiceFor, IsClosing
<1> QED BY <1>1, <1>2


\* A session starts for the active target while no other may send (handleSiriAudioStart).
LEMMA StartPreserves ==
  ASSUME AudioFor(activeIdentifier), activeIdentifier \in Targets,
         dataStreamConnections \in [Targets -> Streams \cup {NoStream}],
         HandleSiriAudioStart, UNCHANGED activeIdentifier
  PROVE  AudioFor(activeIdentifier)'
<1> USE RemoteAssumption
<1>0. /\ MaxSessions \in Nat /\ sessions \in [1..MaxSessions -> AudioSession]
      /\ activeAudioSession \in 0..MaxSessions /\ nextAudioSession \in 0..MaxSessions
      /\ ReferencedAlive
  BY DEF AudioFor, AudioTypeOK
<1>1. CASE IgnoresSiriStart
  <2>1. UNCHANGED audioVars
    BY <1>1 DEF HandleSiriAudioStart
  <2> QED BY <2>1 DEF audioVars, AudioFor, AudioTypeOK, VoiceFor, ReferencedAlive
<1>2. CASE ~IgnoresSiriStart
  <2>1. activeAudioSession # 0 => IsClosing(sessions[activeAudioSession]) /\ nextAudioSession = 0
    BY <1>2 DEF IgnoresSiriStart
  <2>2. PICK i \in 1..MaxSessions, stream \in Streams \cup {NoStream} :
          /\ sessions[i] = NoSession
          /\ sessions' = [sessions EXCEPT ![i] =
               [state |-> "STARTING", target |-> activeIdentifier, connection |-> stream,
                producerRunning |-> streamStates[stream] = "READY", opening |-> TRUE,
                unstopped |-> FALSE, audioFrameQueue |-> 0]]
          /\ IF activeAudioSession = 0
               THEN activeAudioSession' = i /\ UNCHANGED nextAudioSession
               ELSE nextAudioSession' = i /\ UNCHANGED activeAudioSession
    <3>1. dataStreamConnections[activeIdentifier] \in Streams \cup {NoStream}
      OBVIOUS
    <3> QED BY <1>2, <3>1 DEF HandleSiriAudioStart
  <2>3. PICK running \in BOOLEAN : running = (streamStates[stream] = "READY")
    OBVIOUS
  <2>4. PICK t : t = [state |-> "STARTING", target |-> activeIdentifier, connection |-> stream,
                      producerRunning |-> running, opening |-> TRUE,
                      unstopped |-> FALSE, audioFrameQueue |-> 0]
    OBVIOUS
  <2>5. /\ t \in AudioSession /\ Sound(t) /\ ~IsClosing(t) /\ t.state # "CLOSED" /\ t.target = activeIdentifier
    BY <2>4 DEF AudioSession, Sound, IsClosing
  <2>6. sessions' = [sessions EXCEPT ![i] = t]
    BY <2>2, <2>3, <2>4
  <2>7. /\ sessions' \in [1..MaxSessions -> AudioSession]
        /\ sessions'[i] = t
        /\ \A j \in 1..MaxSessions : j # i => sessions'[j] = sessions[j]
    BY <1>0, <2>5, <2>6
  <2>8. AudioTypeOK'
    BY <1>0, <2>2, <2>7 DEF AudioTypeOK
  <2>9. \A j \in 1..MaxSessions : Sound(sessions'[j])
    BY <2>5, <2>7 DEF AudioFor
  <2>10. sessions[i].state = "CLOSED" /\ i # 0
    BY <1>0, <2>2 DEF NoSession
  <2>11. activeAudioSession # i /\ nextAudioSession # i
    BY <2>10 DEF AudioFor, ReferencedAlive
  <2>12. {activeAudioSession, nextAudioSession} \ {0} \subseteq {activeAudioSession', nextAudioSession'}
    BY <1>0, <2>1, <2>2 DEF ReferencedAlive
  <2>13. i \in {activeAudioSession', nextAudioSession'}
    BY <2>2
  <2>14. VoiceFor(activeIdentifier)'
    <3> SUFFICES ASSUME NEW j \in 1..MaxSessions, sessions'[j].state # "CLOSED"
                 PROVE  /\ j \in {activeAudioSession', nextAudioSession'}
                        /\ ~IsClosing(sessions'[j]) => sessions'[j].target = activeIdentifier
      BY DEF VoiceFor
    <3>1. CASE j = i
      BY <2>5, <2>7, <2>13, <3>1
    <3>2. CASE j # i
      <4>1. sessions'[j] = sessions[j] /\ j # 0
        BY <1>0, <2>7, <3>2
      <4> QED BY <2>12, <4>1 DEF AudioFor, VoiceFor
    <3> QED BY <3>1, <3>2
  <2>15. ReferencedAlive'
    <3>1. CASE activeAudioSession = 0
      BY <1>0, <2>2, <2>5, <2>7, <3>1 DEF ReferencedAlive
    <3>2. CASE activeAudioSession # 0
      <4>1. /\ activeAudioSession' = activeAudioSession /\ nextAudioSession' = i
            /\ sessions'[activeAudioSession] = sessions[activeAudioSession]
        BY <1>0, <2>2, <2>7, <2>11, <3>2
      <4> QED BY <1>0, <2>1, <2>5, <2>7, <2>11, <3>2, <4>1 DEF ReferencedAlive, IsClosing
    <3> QED BY <3>1, <3>2
  <2> QED BY <2>8, <2>9, <2>14, <2>15 DEF AudioFor
<1> QED BY <1>1, <1>2

\* The button of the remote starts or stops a session, or has nothing to do with them.
LEMMA SendButtonPreserves ==
  ASSUME AudioFor(activeIdentifier), activeIdentifier \in Targets,
         dataStreamConnections \in [Targets -> Streams \cup {NoStream}],
         NEW button \in Buttons, NEW down \in BOOLEAN, SendButton(button, down), UNCHANGED activeIdentifier
  PROVE  AudioFor(activeIdentifier)'
<1>1. CASE button = "siri" /\ down
  BY <1>1, StartPreserves DEF SendButton
<1>2. CASE button = "siri" /\ ~down
  <2>1. HandleSiriAudioStop
    BY <1>2 DEF SendButton
  <2>2. PICK target : target = activeIdentifier
    OBVIOUS
  <2>3. AudioFor(target)
    BY <2>2
  <2>4. AudioFor(target)'
    BY <2>1, <2>3, StopPreserves
  <2> QED BY <2>2, <2>4 DEF AudioFor, VoiceFor
<1>3. CASE button # "siri"
  <2>1. UNCHANGED audioVars
    BY <1>3 DEF SendButton
  <2> QED BY <2>1 DEF audioVars, AudioFor, AudioTypeOK, VoiceFor, ReferencedAlive
<1> QED BY <1>1, <1>2, <1>3


\* The types of everything but the sessions.
RestTypeOK ==
  /\ targetConfigurations \subseteq Targets
  /\ activeIdentifier \in Targets \cup {NoTarget} /\ restoredIdentifier \in Targets \cup {NoTarget}
  /\ activeConnection \in Connections \cup {NoConnection}
  /\ savedState.activeIdentifier \in Targets \cup {NoTarget}
  /\ savedState.targetConfigurations \subseteq Targets
  /\ releaseTimers \subseteq Buttons /\ removedRemote \in BOOLEAN /\ remoteCrashed \in BOOLEAN
  /\ openConnections \subseteq Connections
  /\ streamStates \in [Streams -> {"NEW", "READY", "CLOSING", "CLOSED"}]
  /\ dataStreamConnections \in [Targets -> Streams \cup {NoStream}]

\* The invariant in these parts.
LEMMA RemoteParts ==
  RemoteIInv <=> RestTypeOK /\ AudioFor(activeIdentifier) /\ ActiveIsConfigured /\ ActiveTargetKnown
BY DEF RemoteIInv, RemoteTypeOK, RestTypeOK, AudioFor, AudioTypeOK

\* The steps that leave the targets and the connections as they are.
LEMMA AudioStepPreserves ==
  ASSUME RemoteIInv, AudioFor(activeIdentifier)', UNCHANGED <<targetVars, openConnections, dataStreamConnections>>,
         releaseTimers' \subseteq Buttons, removedRemote' \in BOOLEAN, remoteCrashed' \in BOOLEAN,
         streamStates' \in [Streams -> {"NEW", "READY", "CLOSING", "CLOSED"}]
  PROVE  RemoteIInv'
<1>1. RestTypeOK /\ ActiveIsConfigured /\ ActiveTargetKnown
  BY RemoteParts
<1>2. RestTypeOK' /\ ActiveIsConfigured' /\ ActiveTargetKnown'
  BY <1>1 DEF RestTypeOK, ActiveIsConfigured, ActiveTargetKnown, targetVars
<1> QED BY <1>2, RemoteParts DEF RemoteIInv, RemoteTypeOK, RestTypeOK, AudioFor, AudioTypeOK

\* The steps of one session.
LEMMA OneSessionPreserves ==
  ASSUME RemoteIInv, NEW i \in DOMAIN sessions,
         \/ HandleSiriAudioFrame(i) \/ HandleProducerError(i) \/ OpenResponse(i) \/ OpenTimeout(i)
         \/ HandleDataSendAckEvent(i) \/ HandleDataSendCloseEvent(i)
  PROVE  RemoteIInv'
<1>0. /\ RestTypeOK /\ AudioFor(activeIdentifier)
      /\ i \in 1..MaxSessions /\ sessions[i] \in AudioSession /\ Sound(sessions[i])
  BY RemoteParts DEF AudioFor, AudioTypeOK
<1>1. PICK target : target = activeIdentifier
  OBVIOUS
<1>2. AudioFor(target)
  BY <1>0, <1>1
<1>3. ASSUME NEW t, Follows(sessions[i], t), SessionBecomes(i, t) PROVE AudioFor(target)'
  BY <1>0, <1>2, <1>3, SessionBecomesPreserves
<1>4. PICK t : Follows(sessions[i], t) /\ SessionBecomes(i, t)
  <2> DEFINE s == sessions[i]
  <2>1. /\ Follows(s, Cancelled(s))
        /\ s.opening => Follows(s, Opened(s)) /\ Follows(s, Refused(s))
        /\ s.producerRunning /\ ~IsClosing(s) => Follows(s, WithFrame(s)) /\ Follows(s, ProducerFailed(s))
        /\ s.state \in {"SENDING", "CLOSING"} => Follows(s, Acknowledged(s))
    BY <1>0, SessionsFollow
  <2>2. CASE HandleSiriAudioFrame(i)
    BY <2>1, <2>2 DEF HandleSiriAudioFrame, AudioStep
  <2>3. CASE HandleProducerError(i)
    BY <2>1, <2>3 DEF HandleProducerError, AudioStep
  <2>4. CASE OpenResponse(i)
    BY <2>1, <2>4 DEF OpenResponse, AudioStep
  <2>5. CASE OpenTimeout(i)
    BY <2>1, <2>5 DEF OpenTimeout
  <2>6. CASE HandleDataSendAckEvent(i)
    BY <2>1, <2>6 DEF HandleDataSendAckEvent, AudioStep
  <2>7. CASE HandleDataSendCloseEvent(i)
    BY <2>1, <2>7 DEF HandleDataSendCloseEvent, AudioStep
  <2> QED BY <2>2, <2>3, <2>4, <2>5, <2>6, <2>7
<1>5. UNCHANGED <<targetVars, openConnections, dataStreamConnections, processVars>>
  BY DEF HandleSiriAudioFrame, HandleProducerError, OpenResponse, OpenTimeout, HandleDataSendAckEvent,
         HandleDataSendCloseEvent, AudioStep, linkVars
<1>6. streamStates' \in [Streams -> {"NEW", "READY", "CLOSING", "CLOSED"}]
  <2>1. CASE OpenTimeout(i)
    BY <1>0, <2>1 DEF OpenTimeout, RestTypeOK
  <2>2. CASE ~OpenTimeout(i)
    BY <1>0, <2>2 DEF RestTypeOK, HandleSiriAudioFrame, HandleProducerError, OpenResponse, HandleDataSendAckEvent,
         HandleDataSendCloseEvent, AudioStep, linkVars
  <2> QED BY <2>1, <2>2
<1>7. AudioFor(target)'
  BY <1>3, <1>4
<1>8. AudioFor(activeIdentifier)'
  BY <1>1, <1>5, <1>7 DEF AudioFor, VoiceFor, targetVars
<1> QED BY <1>0, <1>5, <1>6, <1>8, AudioStepPreserves DEF processVars, RestTypeOK

\* The buttons, and the timer that releases one.
LEMMA ButtonPreserves ==
  ASSUME RemoteIInv, NEW b \in Buttons,
         PushButton(b) \/ ReleaseButton(b) \/ PushAndReleaseButton(b) \/ ReleaseTimeout(b)
  PROVE  RemoteIInv'
<1>0. RestTypeOK /\ AudioFor(activeIdentifier) /\ UNCHANGED <<targetVars, linkVars>>
  BY RemoteParts DEF PushButton, ReleaseButton, PushAndReleaseButton, ReleaseTimeout
<1>1. releaseTimers' \subseteq Buttons /\ removedRemote' \in BOOLEAN /\ remoteCrashed' \in BOOLEAN
  BY <1>0 DEF RestTypeOK, PushButton, ReleaseButton, PushAndReleaseButton, ReleaseTimeout, processVars
<1>2. AudioFor(activeIdentifier)'
  <2>1. CASE UNCHANGED audioVars
    BY <1>0, <2>1 DEF audioVars, targetVars, AudioFor, AudioTypeOK, VoiceFor, ReferencedAlive
  <2>2. CASE ~UNCHANGED audioVars
    <3>1. PICK down \in BOOLEAN : CanSendButton /\ SendButton(b, down)
      BY <2>2 DEF PushButton, ReleaseButton, PushAndReleaseButton, ReleaseTimeout
    <3>2. activeIdentifier \in Targets
      BY <1>0, <3>1 DEF CanSendButton, RestTypeOK
    <3> QED BY <1>0, <3>1, <3>2, SendButtonPreserves DEF RestTypeOK, targetVars
  <2> QED BY <2>1, <2>2
<1> QED BY <1>0, <1>1, <1>2, AudioStepPreserves DEF linkVars, RestTypeOK


\* The writes of controllers about targets and the active one.
LEMMA TargetPreserves ==
  ASSUME RemoteIInv,
         \/ \E t \in Targets \cup {NoTarget} : SetActiveIdentifier(t)
         \/ \E t \in Targets : AddTarget(t) \/ UpdateTarget(t)
         \/ HandleResetTargets \/ RemoteFactoryReset
         \/ \E c \in Connections, a \in BOOLEAN : HandleActiveWrite(c, a)
  PROVE  RemoteIInv'
<1> USE RemoteAssumption
<1>0. RestTypeOK /\ AudioFor(activeIdentifier) /\ ActiveIsConfigured /\ ActiveTargetKnown
  BY RemoteParts
<1>1. ASSUME NEW target \in Targets \cup {NoTarget}, ActiveIdentifierBecomes(target)
      PROVE  /\ AudioFor(activeIdentifier)' /\ activeIdentifier' = target
             /\ activeConnection' = IF target = activeIdentifier THEN activeConnection ELSE NoConnection
  BY <1>0, <1>1, TargetBecomesPreserves DEF ActiveIdentifierBecomes
<1>2. \A active \in Targets \cup {NoTarget}, configured \in SUBSET Targets :
        /\ Serialized(active, configured).activeIdentifier \in Targets \cup {NoTarget}
        /\ Serialized(active, configured).targetConfigurations \subseteq Targets
  BY DEF Serialized, NothingSaved
<1>3. CASE \E t \in Targets \cup {NoTarget} : SetActiveIdentifier(t)
  <2>1. PICK t \in Targets \cup {NoTarget} : SetActiveIdentifier(t)
    BY <1>3
  <2>2. /\ AudioFor(activeIdentifier)' /\ activeIdentifier' = t /\ activeConnection' = NoConnection
        /\ t \in targetConfigurations \cup {NoTarget}
        /\ UNCHANGED <<targetConfigurations, savedState, restoredIdentifier, processVars, linkVars>>
    BY <1>1, <2>1 DEF SetActiveIdentifier
  <2>3. RestTypeOK' /\ ActiveIsConfigured' /\ ActiveTargetKnown'
    BY <1>0, <2>2 DEF RestTypeOK, ActiveIsConfigured, ActiveTargetKnown, processVars, linkVars
  <2> QED BY <2>2, <2>3, RemoteParts
    DEF RemoteIInv, RemoteTypeOK, RestTypeOK, AudioFor, AudioTypeOK
<1>4. CASE \E t \in Targets : AddTarget(t)
  <2>1. PICK t \in Targets : AddTarget(t)
    BY <1>4
  <2>2. PICK target \in Targets \cup {NoTarget} : target = IF activeIdentifier = NoTarget THEN t ELSE activeIdentifier
    BY <1>0 DEF RestTypeOK
  <2>3. ActiveIdentifierBecomes(target)
    BY <2>1, <2>2 DEF AddTarget
  <2>4. /\ AudioFor(activeIdentifier)' /\ activeIdentifier' = target
        /\ activeConnection' = IF target = activeIdentifier THEN activeConnection ELSE NoConnection
        /\ targetConfigurations' = targetConfigurations \cup {t}
        /\ savedState' = Serialized(activeIdentifier, targetConfigurations')
        /\ UNCHANGED <<restoredIdentifier, processVars, linkVars>>
    BY <1>1, <2>1, <2>3 DEF AddTarget
  <2>5. RestTypeOK'
    <3>1. targetConfigurations' \in SUBSET Targets
      BY <1>0, <2>4 DEF RestTypeOK
    <3>2. /\ savedState'.activeIdentifier \in Targets \cup {NoTarget}
          /\ savedState'.targetConfigurations \subseteq Targets
      BY <1>0, <1>2, <2>4, <3>1 DEF RestTypeOK
    <3> QED BY <1>0, <2>4, <3>1, <3>2 DEF RestTypeOK, processVars, linkVars
  <2>6. ActiveTargetKnown' /\ ActiveIsConfigured'
    BY <1>0, <2>2, <2>4 DEF ActiveTargetKnown, ActiveIsConfigured, linkVars
  <2> QED BY <2>4, <2>5, <2>6
    DEF RemoteIInv, RemoteTypeOK, RestTypeOK, AudioFor, AudioTypeOK
<1>5. CASE \E t \in Targets : UpdateTarget(t)
  <2>1. /\ savedState' = Serialized(activeIdentifier, targetConfigurations)
        /\ UNCHANGED <<targetConfigurations, activeIdentifier, activeConnection, restoredIdentifier,
                       processVars, linkVars, audioVars>>
    BY <1>5 DEF UpdateTarget
  <2>2. /\ savedState'.activeIdentifier \in Targets \cup {NoTarget}
        /\ savedState'.targetConfigurations \subseteq Targets
    BY <1>0, <1>2, <2>1 DEF RestTypeOK
  <2>3. RestTypeOK' /\ ActiveTargetKnown' /\ ActiveIsConfigured'
    BY <1>0, <2>1, <2>2 DEF RestTypeOK, ActiveTargetKnown, ActiveIsConfigured, processVars, linkVars
  <2>4. AudioFor(activeIdentifier)'
    BY <1>0, <2>1 DEF audioVars, AudioFor, AudioTypeOK, VoiceFor, ReferencedAlive
  <2> QED BY <2>3, <2>4
    DEF RemoteIInv, RemoteTypeOK, RestTypeOK, AudioFor, AudioTypeOK
<1>6. CASE HandleResetTargets \/ RemoteFactoryReset
  <2>1. /\ targetConfigurations' = {} /\ ActiveIdentifierBecomes(NoTarget)
        /\ UNCHANGED <<restoredIdentifier, processVars, linkVars>>
        /\ savedState' \in {Serialized(activeIdentifier, {}), NothingSaved}
    BY <1>6 DEF HandleResetTargets, RemoteFactoryReset, ResetTargets
  <2>2. /\ savedState'.activeIdentifier \in Targets \cup {NoTarget}
        /\ savedState'.targetConfigurations \subseteq Targets
    BY <1>0, <1>2, <2>1 DEF RestTypeOK, NothingSaved
  <2>3. /\ AudioFor(activeIdentifier)' /\ activeIdentifier' = NoTarget
        /\ activeConnection' = IF NoTarget = activeIdentifier THEN activeConnection ELSE NoConnection
    BY <1>1, <2>1
  <2>4. ActiveIsConfigured'
    <3>1. activeIdentifier = NoTarget => activeConnection = NoConnection \/ restoredIdentifier = NoTarget
      BY <1>0 DEF ActiveIsConfigured, RestTypeOK
    <3> QED BY <1>0, <2>1, <2>3, <3>1 DEF ActiveIsConfigured, linkVars
  <2>5. RestTypeOK' /\ ActiveTargetKnown'
    BY <1>0, <2>1, <2>2, <2>3 DEF RestTypeOK, ActiveTargetKnown, processVars, linkVars
  <2> QED BY <2>3, <2>4, <2>5
    DEF RemoteIInv, RemoteTypeOK, RestTypeOK, AudioFor, AudioTypeOK
<1>7. CASE \E c \in Connections, a \in BOOLEAN : HandleActiveWrite(c, a)
  <2>1. PICK c \in Connections, a \in BOOLEAN : HandleActiveWrite(c, a)
    BY <1>7
  <2>2. RestTypeOK' /\ ActiveTargetKnown' /\ ActiveIsConfigured'
    BY <1>0, <2>1 DEF HandleActiveWrite, RestTypeOK, ActiveTargetKnown, ActiveIsConfigured, processVars, linkVars
  <2>3. AudioFor(activeIdentifier)'
    BY <1>0, <2>1 DEF HandleActiveWrite, audioVars, AudioFor, AudioTypeOK, VoiceFor, ReferencedAlive
  <2> QED BY <2>2, <2>3
    DEF RemoteIInv, RemoteTypeOK, RestTypeOK, AudioFor, AudioTypeOK
<1> QED BY <1>3, <1>4, <1>5, <1>6, <1>7


\* HAP connections and data streams come and go.
LEMMA LinkPreserves ==
  ASSUME RemoteIInv,
         \/ \E c \in Connections : HapConnects(c) \/ HapCloses(c)
         \/ \E s \in Streams, t \in Targets : HandleTargetControlWhoAmI(s, t)
         \/ \E s \in Streams : StreamCloses(s)
         \/ HandleControllerRemoved
  PROVE  RemoteIInv'
<1>0. RestTypeOK /\ AudioFor(activeIdentifier) /\ ActiveIsConfigured /\ ActiveTargetKnown
  BY RemoteParts
<1>1. \A ended : EndStreams(ended) => streamStates' \in [Streams -> {"NEW", "READY", "CLOSING", "CLOSED"}]
  BY <1>0 DEF EndStreams, RestTypeOK
<1>2. UNCHANGED <<audioVars, activeIdentifier>>
  BY DEF HapConnects, HapCloses, HandleTargetControlWhoAmI, StreamCloses, HandleControllerRemoved, targetVars
<1>3. AudioFor(activeIdentifier)'
  BY <1>0, <1>2 DEF audioVars, AudioFor, AudioTypeOK, VoiceFor, ReferencedAlive
<1>4. CASE \E c \in Connections : HapConnects(c)
  BY <1>0, <1>3, <1>4
  DEF HapConnects, RestTypeOK, ActiveIsConfigured, ActiveTargetKnown, targetVars, processVars, audioVars,
      RemoteIInv, RemoteTypeOK, AudioFor, AudioTypeOK
<1>5. CASE \E c \in Connections : HapCloses(c)
  <2>1. PICK c \in Connections : HapCloses(c)
    BY <1>5
  <2>2. /\ openConnections' = openConnections \ {c}
        /\ streamStates' \in [Streams -> {"NEW", "READY", "CLOSING", "CLOSED"}]
        /\ activeConnection' = IF activeConnection = c THEN NoConnection ELSE activeConnection
        /\ remoteCrashed' \in BOOLEAN
        /\ UNCHANGED <<dataStreamConnections, targetConfigurations, activeIdentifier, savedState,
                       restoredIdentifier, releaseTimers, removedRemote>>
    BY <1>1, <2>1 DEF HapCloses
  <2>3. RestTypeOK' /\ ActiveIsConfigured' /\ ActiveTargetKnown'
    BY <1>0, <2>2 DEF RestTypeOK, ActiveIsConfigured, ActiveTargetKnown
  <2> QED BY <1>3, <2>3 DEF RestTypeOK, RemoteIInv, RemoteTypeOK, AudioFor, AudioTypeOK
<1>6. CASE \E s \in Streams, t \in Targets : HandleTargetControlWhoAmI(s, t)
  <2>1. PICK s \in Streams, t \in Targets : HandleTargetControlWhoAmI(s, t)
    BY <1>6
  <2>2. /\ streamStates' \in [Streams -> {"NEW", "READY", "CLOSING", "CLOSED"}]
        /\ dataStreamConnections' \in [Targets -> Streams \cup {NoStream}]
    BY <1>0, <2>1 DEF HandleTargetControlWhoAmI, RestTypeOK
  <2> QED BY <1>0, <1>3, <2>1, <2>2
    DEF HandleTargetControlWhoAmI, RestTypeOK, ActiveIsConfigured, ActiveTargetKnown, targetVars, processVars,
        RemoteIInv, RemoteTypeOK, AudioFor, AudioTypeOK
<1>7. CASE (\E s \in Streams : StreamCloses(s)) \/ HandleControllerRemoved
  <2>1. /\ streamStates' \in [Streams -> {"NEW", "READY", "CLOSING", "CLOSED"}]
        /\ removedRemote' \in BOOLEAN
        /\ UNCHANGED <<openConnections, dataStreamConnections, targetVars, releaseTimers, remoteCrashed>>
    BY <1>0, <1>1, <1>7 DEF StreamCloses, HandleControllerRemoved, processVars, RestTypeOK
  <2> QED BY <1>0, <1>3, <2>1, AudioStepPreserves DEF RestTypeOK
<1> QED BY <1>4, <1>5, <1>6, <1>7

\* A data stream has closed: every session on it ends in the same event.
LEMMA StreamClosedPreserves ==
  ASSUME RemoteIInv, NEW stream \in Streams, HandleDataStreamConnectionClosed(stream)
  PROVE  RemoteIInv'
<1>0. RestTypeOK /\ AudioFor(activeIdentifier) /\ ActiveIsConfigured /\ ActiveTargetKnown
  BY RemoteParts
<1>1. /\ sessions \in [1..MaxSessions -> AudioSession]
      /\ \A i \in 1..MaxSessions : Sound(sessions[i])
  BY <1>0 DEF AudioFor, AudioTypeOK
<1>2. PICK closed \in SUBSET (1..MaxSessions) :
        closed = {i \in DOMAIN sessions : sessions[i].connection = stream /\ sessions[i].state # "CLOSED"}
  BY <1>1
<1>3. /\ sessions' = [i \in DOMAIN sessions |-> IF i \in closed THEN Settled(Cancelled(sessions[i])) ELSE sessions[i]]
      /\ Promote(closed)
      /\ streamStates' = [streamStates EXCEPT ![stream] = "CLOSED"]
      /\ dataStreamConnections' = [t \in Targets |-> IF dataStreamConnections[t] = stream THEN NoStream
                                                     ELSE dataStreamConnections[t]]
      /\ UNCHANGED <<openConnections, targetVars, processVars>>
  BY <1>2 DEF HandleDataStreamConnectionClosed
<1>4. ASSUME NEW i \in 1..MaxSessions
      PROVE  /\ Follows(sessions[i], sessions'[i])
             /\ i \in closed => sessions'[i].state = "CLOSED"
             /\ i \notin closed => sessions'[i] = sessions[i]
  <2>1. Follows(sessions[i], Cancelled(sessions[i])) /\ Cancelled(sessions[i]).state = "CLOSED"
    <3>1. PICK s \in AudioSession : s = sessions[i] /\ Sound(s)
      BY <1>1
    <3>2. Follows(s, Cancelled(s))
      BY <3>1, SessionsFollow
    <3>3. Cancelled(s).state = "CLOSED"
      BY DEF Cancelled, AudioSession
    <3> QED BY <3>1, <3>2, <3>3
  <2>2. /\ Follows(sessions[i], Settled(Cancelled(sessions[i])))
        /\ Settled(Cancelled(sessions[i])).state = "CLOSED"
    BY <2>1, SettledFollows
  <2>3. Follows(sessions[i], sessions[i])
    BY <1>1 DEF Follows
  <2> QED BY <1>1, <1>3, <2>2, <2>3
<1>5. sessions' \in [1..MaxSessions -> AudioSession]
  <2>1. \A i \in 1..MaxSessions : sessions'[i] \in AudioSession
    BY <1>4 DEF Follows
  <2>2. sessions' = [i \in 1..MaxSessions |-> sessions'[i]]
    BY <1>1, <1>3
  <2> QED BY <2>1, <2>2
<1>6. PICK target : target = activeIdentifier
  OBVIOUS
<1>7. AudioFor(target)
  BY <1>0, <1>6
<1>8. AudioFor(target)'
  BY <1>3, <1>4, <1>5, <1>7, PromotePreserves
<1>9. AudioFor(activeIdentifier)'
  BY <1>3, <1>6, <1>8 DEF AudioFor, VoiceFor, targetVars
<1>10. RestTypeOK' /\ ActiveIsConfigured' /\ ActiveTargetKnown'
  BY <1>0, <1>3 DEF RestTypeOK, ActiveIsConfigured, ActiveTargetKnown, targetVars, processVars
<1> QED BY <1>9, <1>10 DEF RestTypeOK, RemoteIInv, RemoteTypeOK, AudioFor, AudioTypeOK

\* A process that has just started, from nothing or from what was saved, has no session.
LEMMA FreshAudio ==
  ASSUME sessions = [i \in 1..MaxSessions |-> NoSession], activeAudioSession = 0, nextAudioSession = 0
  PROVE  AudioFor(activeIdentifier)
<1>1. NoSession \in AudioSession /\ Sound(NoSession) /\ NoSession.state = "CLOSED"
  BY RemoteAssumption DEF NoSession, AudioSession, Sound
<1> QED BY <1>1, RemoteAssumption DEF AudioFor, AudioTypeOK, VoiceFor, ReferencedAlive

\* Init => IInv
LEMMA RemoteInitIInv == RemoteInit => RemoteIInv
<1> SUFFICES ASSUME RemoteInit PROVE RemoteIInv
  OBVIOUS
<1>1. AudioFor(activeIdentifier)
  BY FreshAudio DEF RemoteInit
<1>2. RestTypeOK /\ ActiveIsConfigured /\ ActiveTargetKnown
  BY DEF RemoteInit, RestTypeOK, ActiveIsConfigured, ActiveTargetKnown, NothingSaved
<1> QED BY <1>1, <1>2, RemoteParts

\* IInv /\ [Next]_vars => IInv'
LEMMA RemoteNextIInv == RemoteIInv /\ [RemoteNext]_remoteVars => RemoteIInv'
<1> SUFFICES ASSUME RemoteIInv, [RemoteNext]_remoteVars PROVE RemoteIInv'
  OBVIOUS
<1>1. CASE \/ \E t \in Targets \cup {NoTarget} : SetActiveIdentifier(t)
           \/ \E t \in Targets : AddTarget(t) \/ UpdateTarget(t)
           \/ HandleResetTargets \/ RemoteFactoryReset
           \/ \E c \in Connections, a \in BOOLEAN : HandleActiveWrite(c, a)
  BY <1>1, TargetPreserves
<1>2. CASE \E b \in Buttons : PushButton(b) \/ ReleaseButton(b) \/ PushAndReleaseButton(b) \/ ReleaseTimeout(b)
  BY <1>2, ButtonPreserves
<1>3. CASE \E i \in DOMAIN sessions :
             \/ HandleSiriAudioFrame(i) \/ HandleProducerError(i) \/ OpenResponse(i) \/ OpenTimeout(i)
             \/ HandleDataSendAckEvent(i) \/ HandleDataSendCloseEvent(i)
  BY <1>3, OneSessionPreserves
<1>4. CASE \/ \E c \in Connections : HapConnects(c) \/ HapCloses(c)
           \/ \E s \in Streams, t \in Targets : HandleTargetControlWhoAmI(s, t)
           \/ \E s \in Streams : StreamCloses(s)
           \/ HandleControllerRemoved
  BY <1>4, LinkPreserves
<1>5. CASE \E s \in Streams : HandleDataStreamConnectionClosed(s)
  BY <1>5, StreamClosedPreserves
<1>6. CASE RemoteRestart
  <2>1. sessions' = [i \in 1..MaxSessions |-> NoSession] /\ activeAudioSession' = 0 /\ nextAudioSession' = 0
    BY <1>6 DEF RemoteRestart
  <2>2. NoSession \in AudioSession /\ Sound(NoSession) /\ NoSession.state = "CLOSED"
    BY RemoteAssumption DEF NoSession, AudioSession, Sound
  <2>3. AudioFor(activeIdentifier)'
    BY <2>1, <2>2, RemoteAssumption DEF AudioFor, AudioTypeOK, VoiceFor, ReferencedAlive
  <2>4. RestTypeOK
    BY RemoteParts
  <2>5. RestTypeOK' /\ ActiveIsConfigured' /\ ActiveTargetKnown'
    BY <1>6, <2>4 DEF RemoteRestart, RestTypeOK, ActiveIsConfigured, ActiveTargetKnown
  <2> QED BY <2>3, <2>5 DEF RestTypeOK, RemoteIInv, RemoteTypeOK, AudioFor, AudioTypeOK
<1>7. CASE UNCHANGED remoteVars
  <2>1. UNCHANGED <<targetVars, processVars, linkVars, audioVars>>
    BY <1>7 DEF remoteVars
  <2>2. RestTypeOK /\ AudioFor(activeIdentifier)
    BY RemoteParts
  <2>3. AudioFor(activeIdentifier)'
    BY <2>1, <2>2 DEF targetVars, audioVars, AudioFor, AudioTypeOK, VoiceFor, ReferencedAlive
  <2> QED BY <2>1, <2>2, <2>3, AudioStepPreserves DEF processVars, linkVars, RestTypeOK
<1> QED BY <1>1, <1>2, <1>3, <1>4, <1>5, <1>6, <1>7 DEF RemoteNext

\* RemoteController, SiriAudioSession: whatever buttons, answers, disconnects and restarts interleave,
\* a session that sends is one of the active target, which is configured or was brought back by a
\* restart, and one producer records at a time, but for those a failed dataSend.open or an early
\* acknowledgment left running.
THEOREM VoiceAlwaysInOrder == RemoteSpec => []VoiceInOrder
<1>1. RemoteIInv => VoiceInOrder
  <2> SUFFICES ASSUME RemoteIInv PROVE VoiceInOrder
    OBVIOUS
  <2>1. /\ RemoteTypeOK /\ ActiveIsConfigured /\ AudioFor(activeIdentifier)
        /\ DOMAIN sessions = 1..MaxSessions
    BY DEF RemoteIInv, AudioFor, AudioTypeOK
  <2>2. VoiceOfActiveTarget
    BY <2>1 DEF AudioFor, VoiceFor, VoiceOfActiveTarget
  <2>3. OneProducer
    <3>1. \A i \in 1..MaxSessions :
            /\ sessions[i].state = "SENDING" => sessions[i].producerRunning
            /\ sessions[i].producerRunning => sessions[i].unstopped \/ ~IsClosing(sessions[i])
      BY <2>1 DEF AudioFor, Sound
    <3>2. ASSUME NEW i \in 1..MaxSessions, NEW j \in 1..MaxSessions,
                 ~IsClosing(sessions[i]), ~IsClosing(sessions[j])
          PROVE  i = j
      <4>1. {i, j} \subseteq {activeAudioSession, nextAudioSession} /\ i # 0 /\ j # 0
        BY <2>1, <3>2, RemoteAssumption DEF AudioFor, VoiceFor, IsClosing
      <4> QED BY <2>1, <3>2, <4>1 DEF AudioFor, ReferencedAlive
    <3> QED BY <2>1, <3>1, <3>2 DEF OneProducer
  <2> QED BY <2>1, <2>2, <2>3 DEF VoiceInOrder
<1> QED BY <1>1, RemoteInitIInv, RemoteNextIInv, PTL DEF RemoteSpec

-----------------------------------------------------------------------------
(* AdaptiveLighting.  The search for the current point starts where the    *)
(* last one ended, with a time from which the entries are counted.  The    *)
(* invariant needs that in automatic mode this time is exact, whatever     *)
(* curves followed each other: a renewed curve is looked up at its         *)
(* beginning, where any other last point is found to lie ahead, or its     *)
(* index is not on the renewed curve and nothing is found.                 *)

\* A legal curve: its times are natural numbers, and only the first transition may take none.
IsCurve(c) ==
  /\ c \in Seq([temperature : Int, transitionTime : Nat, duration : Nat])
  /\ \A k \in 2..Len(c) : c[k].transitionTime > 0

\* The curves controllers send are.
LEMMA CurvesAreCurves == \A c \in Curves : IsCurve(c)
  BY AdaptiveLightingAssumption DEF IsCurve

\* The times of an entry.
LEMMA EntryTimes ==
  ASSUME NEW c, IsCurve(c)
  PROVE  /\ Len(c) \in Nat
         /\ \A k \in 1..Len(c) : /\ c[k].transitionTime \in Nat /\ c[k].duration \in Nat
                                 /\ c[k].temperature \in Int
         /\ \A k \in 2..Len(c) : c[k].transitionTime > 0
<1>1. ASSUME NEW k \in 1..Len(c)
      PROVE  c[k] \in [temperature : Int, transitionTime : Nat, duration : Nat]
  BY ElementOfSeq DEF IsCurve
<1>2. Len(c) \in Nat
  BY DEF IsCurve
<1> QED
  BY <1>1, <1>2 DEF IsCurve

\* The time an entry is reached at is the sum of what comes before.
LEMMA ReachedUnfolds ==
  ASSUME NEW c, IsCurve(c)
  PROVE  /\ \A k \in 1..Len(c) : Reached(c)[k] \in Nat
         /\ 1 \in 1..Len(c) => Reached(c)[1] = c[1].transitionTime
         /\ \A k \in 2..Len(c) :
              Reached(c)[k] = Reached(c)[k - 1] + c[k - 1].duration + c[k].transitionTime
<1> DEFINE N == Len(c)
           add(k) == IF k = 1 THEN c[1].transitionTime ELSE c[k - 1].duration + c[k].transitionTime
           step == [p \in (1..N) \X Nat |-> p[2] + add(p[1])]
           Unfolds(f) == f = [k \in 1..N |-> IF k = 1 THEN c[1].transitionTime
                                             ELSE f[k - 1] + c[k - 1].duration + c[k].transitionTime]
           at == CHOOSE f : Unfolds(f)
<1>1. N \in Nat /\ \A k \in 1..N : add(k) \in Nat
  BY EntryTimes
<1>2. step \in [(1..N) \X Nat -> Nat]
  <2> HIDE DEF add, N
  <2> QED
    BY <1>1
<1>3. PICK f : Iterates(f, N, Nat, 0, step)
  <2> HIDE DEF step, N
  <2> QED
    BY <1>1, <1>2, IterationExists
<1>4. /\ f \in [0..N -> Nat] /\ f[0] = 0
      /\ \A k \in 1..N : f[k] = f[k - 1] + add(k)
  <2> HIDE DEF add, N
  <2>1. f \in [0..N -> Nat] /\ f[0] = 0 /\ \A k \in 1..N : f[k] = step[<<k, f[k - 1]>>]
    BY <1>3 DEF Iterates
  <2>2. ASSUME NEW k \in 1..N PROVE f[k] = f[k - 1] + add(k)
    <3>1. f[k - 1] \in Nat
      BY <1>1, <2>1
    <3>2. step[<<k, f[k - 1]>>] = f[k - 1] + add(k)
      BY <3>1
    <3> QED
      BY <2>1, <3>2
  <2> QED
    BY <2>1, <2>2
<1> DEFINE g == [k \in 1..N |-> f[k]]
<1>5. /\ \A k \in 1..N : g[k] \in Nat
      /\ 1 \in 1..N => g[1] = c[1].transitionTime
      /\ \A k \in 2..N : g[k] = g[k - 1] + c[k - 1].duration + c[k].transitionTime
  <2>1. \A k \in 1..N : g[k] \in Nat
    BY <1>1, <1>4
  <2>2. 1 \in 1..N => g[1] = c[1].transitionTime
    BY <1>1, <1>4, EntryTimes
  <2>3. ASSUME NEW k \in 2..N
        PROVE  g[k] = g[k - 1] + c[k - 1].duration + c[k].transitionTime
    <3>1. k \in 1..N /\ k - 1 \in 1..N /\ k # 1
      BY <1>1
    <3>2. f[k] = f[k - 1] + add(k) /\ f[k - 1] \in Nat
      BY <1>1, <1>4, <3>1
    <3>3. add(k) = c[k - 1].duration + c[k].transitionTime
      BY <3>1
    <3>4. c[k - 1].duration \in Nat /\ c[k].transitionTime \in Nat
      BY <3>1, EntryTimes
    <3> QED
      BY <3>1, <3>2, <3>3, <3>4
  <2> QED
    BY <2>1, <2>2, <2>3
<1>6. Unfolds(g)
  <2> SUFFICES ASSUME NEW k \in 1..N
               PROVE  g[k] = IF k = 1 THEN c[1].transitionTime
                             ELSE g[k - 1] + c[k - 1].duration + c[k].transitionTime
    OBVIOUS
  <2>1. k = 1 \/ k \in 2..N
    BY <1>1
  <2> HIDE DEF g
  <2> QED
    BY <1>5, <2>1
<1>7. Unfolds(at)
  <2> HIDE DEF Unfolds
  <2> QED
    BY <1>6
<1>8. at = g
  <2> DEFINE Same == {n \in 0..N : n = 0 \/ at[n] = g[n]}
  <2>1. 0 \in Same
    BY <1>1
  <2>2. ASSUME NEW n \in 1..N, n - 1 \in Same PROVE n \in Same
    <3>1. n = 1 \/ (n \in 2..N /\ n - 1 # 0)
      BY <1>1
    <3>2. at[n] = IF n = 1 THEN c[1].transitionTime ELSE at[n - 1] + c[n - 1].duration + c[n].transitionTime
      <4> HIDE DEF at
      <4> QED
        BY <1>7
    <3> HIDE DEF at, g
    <3>3. at[n] = g[n]
      BY <1>5, <2>2, <3>1, <3>2
    <3> QED
      BY <3>3
  <2>3. 0..N \subseteq Same
    <3> HIDE DEF Same, N
    <3> QED
      BY <1>1, <2>1, <2>2, InductionUpTo
  <2>4. \A n \in 1..N : at[n] = g[n]
    <3> HIDE DEF at, g
    <3> QED
      BY <1>1, <2>3
  <2>5. at = [n \in 1..N |-> at[n]]
    <3> HIDE DEF at
    <3> QED
      BY <1>7
  <2> HIDE DEF at
  <2> QED
    BY <2>4, <2>5
<1>9. Reached(c) = at
  BY DEF Reached
<1> HIDE DEF at, g
<1> QED
  BY <1>5, <1>8, <1>9

\* When the curve counts as begun, for entry k: before its transition.
Start(c, k) == Reached(c)[k] - c[k].transitionTime

\* Entries are reached in order, each after the one before has ended.
LEMMA ReachedInOrder ==
  ASSUME NEW c, IsCurve(c)
  PROVE  /\ \A k \in 1..Len(c) : Start(c, k) \in Nat
         /\ \A k \in 1..Len(c) : \A j \in 1..k : Start(c, j) <= Start(c, k)
         /\ \A k \in 1..Len(c) : \A j \in 1..(k - 1) :
              Reached(c)[j] + c[j].duration + c[j + 1].transitionTime <= Reached(c)[k]
<1> DEFINE N == Len(c)
           Ordered(k) ==
             /\ Start(c, k) \in Nat
             /\ \A j \in 1..k : Start(c, j) <= Start(c, k)
             /\ \A j \in 1..(k - 1) :
                  Reached(c)[j] + c[j].duration + c[j + 1].transitionTime <= Reached(c)[k]
           Good == {k \in 0..N : k = 0 \/ Ordered(k)}
<1>1. N \in Nat /\ \A k \in 1..N : Reached(c)[k] \in Nat /\ c[k].transitionTime \in Nat /\ c[k].duration \in Nat
  BY EntryTimes, ReachedUnfolds
<1>2. ASSUME NEW k \in 1..N, k - 1 \in Good PROVE k \in Good
  <2>1. CASE k = 1
    <3>1. Reached(c)[1] = c[1].transitionTime
      BY <1>2, <2>1, ReachedUnfolds
    <3>2. Start(c, 1) = 0
      BY <1>1, <2>1, <3>1 DEF Start
    <3> QED
      BY <2>1, <3>2
  <2>2. CASE k # 1
    <3>1. k \in 2..N /\ k - 1 \in 1..N /\ Ordered(k - 1)
      BY <1>1, <1>2, <2>2
    <3>2. Reached(c)[k] = Reached(c)[k - 1] + c[k - 1].duration + c[k].transitionTime
      BY <3>1, ReachedUnfolds
    <3>0. /\ Reached(c)[k] \in Nat /\ c[k].transitionTime \in Nat
          /\ Reached(c)[k - 1] \in Nat /\ c[k - 1].transitionTime \in Nat /\ c[k - 1].duration \in Nat
      BY <1>1, <1>2, <3>1
    <3>3. Start(c, k) = Start(c, k - 1) + c[k - 1].transitionTime + c[k - 1].duration
      BY <3>0, <3>2 DEF Start
    <3>4. Start(c, k) \in Nat /\ Start(c, k - 1) <= Start(c, k)
      BY <1>1, <3>1, <3>3
    <3>5. ASSUME NEW j \in 1..k PROVE Start(c, j) <= Start(c, k)
      <4>1. j = k \/ j \in 1..(k - 1)
        BY <1>1
      <4>2. ASSUME j \in 1..(k - 1)
            PROVE  Start(c, j) <= Start(c, k - 1) /\ Start(c, j) \in Int
        <5>1. j \in 1..N
          BY <1>1, <4>2
        <5>2. Reached(c)[j] \in Nat /\ c[j].transitionTime \in Nat
          BY <1>1, <5>1
        <5> QED
          BY <3>1, <4>2, <5>2 DEF Start
      <4> QED
        BY <3>1, <3>4, <4>1, <4>2
    <3>6. ASSUME NEW j \in 1..(k - 1)
          PROVE  Reached(c)[j] + c[j].duration + c[j + 1].transitionTime <= Reached(c)[k]
      <4>1. CASE j = k - 1
        BY <1>1, <3>1, <3>2, <4>1
      <4>2. CASE j # k - 1
        <5>1. j \in 1..(k - 1 - 1) /\ j \in 1..N /\ j + 1 \in 1..N
          BY <1>1, <3>1, <4>2
        <5>2. Reached(c)[j] + c[j].duration + c[j + 1].transitionTime <= Reached(c)[k - 1]
          BY <3>1, <5>1
        <5>3. Reached(c)[k - 1] <= Reached(c)[k]
          BY <3>0, <3>2
        <5>4. Reached(c)[j] \in Nat /\ c[j].duration \in Nat /\ c[j + 1].transitionTime \in Nat
          BY <1>1, <5>1
        <5>5. PICK a \in Nat, b \in Nat, d \in Nat :
                a = Reached(c)[j] /\ b = c[j].duration /\ d = c[j + 1].transitionTime
          BY <5>4
        <5>6. a + b + d = Reached(c)[j] + c[j].duration + c[j + 1].transitionTime /\ a + b + d \in Nat
          BY ONLY <5>5
        <5>7. a + b + d <= Reached(c)[k]
          BY ONLY <3>0, <5>2, <5>3, <5>6
        <5> QED
          BY ONLY <5>6, <5>7
      <4> QED
        BY <4>1, <4>2
    <3> QED
      BY <3>4, <3>5, <3>6
  <2> QED
    BY <2>1, <2>2
<1>3. 0 \in Good
  BY <1>1
<1>4. 0..N \subseteq Good
  <2> HIDE DEF Good, N
  <2> QED
    BY <1>1, <1>2, <1>3, InductionUpTo
<1>5. \A k \in 1..N : Ordered(k)
  <2> HIDE DEF Ordered
  <2> QED
    BY <1>1, <1>4
<1> QED
  BY <1>5

\* Entry k is the lower bound at an offset, by the time it is reached at.
Bounds(c, k, offset) == Within(c, k, Reached(c)[k], offset)

\* A point that was looked up: none, or a lower bound with the time the curve counts as begun.
PointAt(c, offset, point) ==
  \/ point = EndOfCurve
  \/ /\ point.index \in 1..(Len(c) - 1)
     /\ point.lower = Reached(c)[point.index]
     /\ point.info = [curveIndex |-> point.index, lowerBoundTimeOffset |-> Start(c, point.index)]
     /\ Bounds(c, point.index, offset)

\* It is none only if the curve has no lower bound at the offset.
PointOf(c, offset, point) ==
  /\ PointAt(c, offset, point)
  /\ point = EndOfCurve <=> \A k \in 1..(Len(c) - 1) : ~Bounds(c, k, offset)

\* A search of the whole curve finds a point if there is one.
LEMMA StartFindsPoint ==
  ASSUME NEW c, IsCurve(c), NEW offset \in Int
  PROVE  PointOf(c, offset, PointFromStart(c, offset))
<1> DEFINE found == {k \in 1..Len(c) - 1 : Within(c, k, Reached(c)[k], offset)}
<1>1. PointFromStart(c, offset) =
        IF found = {} THEN EndOfCurve ELSE PointFrom(Min(found), Reached(c)[Min(found)], c)
  BY DEF PointFromStart
<1>2. \A k \in 1..(Len(c) - 1) : k \in found <=> Bounds(c, k, offset)
  BY DEF Bounds
<1>3. Len(c) \in Nat /\ found \subseteq Nat /\ found \subseteq 1..(Len(c) - 1)
  BY EntryTimes
<1>4. CASE found = {}
  BY <1>1, <1>2, <1>4 DEF PointOf, PointAt
<1>5. CASE found # {}
  <2>1. PICK k \in found : k = Min(found)
    <3> HIDE DEF found
    <3> QED
      BY <1>3, <1>5, MinIsSmallest
  <2>2. PointFromStart(c, offset) = PointFrom(k, Reached(c)[k], c)
    <3> HIDE DEF found
    <3> QED
      BY <1>1, <1>5, <2>1
  <2>3. k \in 1..(Len(c) - 1) /\ Bounds(c, k, offset)
    BY <1>2, <1>3, <2>1
  <2>4. /\ PointFrom(k, Reached(c)[k], c).index = k /\ PointFrom(k, Reached(c)[k], c).lower = Reached(c)[k]
        /\ PointFrom(k, Reached(c)[k], c).info = [curveIndex |-> k, lowerBoundTimeOffset |-> Start(c, k)]
    BY DEF PointFrom, Start
  <2>5. PointFrom(k, Reached(c)[k], c) # EndOfCurve
    BY <2>3, <2>4, EntryTimes DEF EndOfCurve
  <2> HIDE DEF found
  <2> QED
    BY <2>2, <2>3, <2>4, <2>5 DEF PointOf, PointAt
<1> QED
  BY <1>4, <1>5

\* A last point, or none.
IsPoint(last) ==
  /\ last \in [curveIndex : Nat, lowerBoundTimeOffset : Nat]
  /\ last = NoPoint \/ last.curveIndex # 0

\* The last point lies on a curve of its length.
OnCurve(c, last) ==
  /\ last \in [curveIndex : Nat, lowerBoundTimeOffset : Nat]
  /\ last = NoPoint \/ last.curveIndex \in 1..(Len(c) - 1)

\* It says when the curve counts as begun.
Exact(c, last) == last # NoPoint => last.lowerBoundTimeOffset = Start(c, last.curveIndex)

\* The search from the last point, in steps: the time entry k is reached at by the last point, and
\* the entries it may stop at.
LowerFrom(c, last, k) ==
  last.lowerBoundTimeOffset + Reached(c)[k] - (Reached(c)[last.curveIndex] - c[last.curveIndex].transitionTime)

StopsFrom(c, offset, last) ==
  {k \in last.curveIndex..Len(c) - 1 :
     Within(c, k, LowerFrom(c, last, k), offset) \/ offset < LowerFrom(c, last, k)}

LEMMA SearchInSteps ==
  ASSUME NEW c, NEW offset, NEW last, last # NoPoint,
         NEW k, k = Min(StopsFrom(c, offset, last))
  PROVE  CurrentPoint(c, offset, last) =
           CASE StopsFrom(c, offset, last) = {} -> EndOfCurve
             [] StopsFrom(c, offset, last) # {} /\ offset < LowerFrom(c, last, k) -> PointFromStart(c, offset)
             [] OTHER -> PointFrom(k, LowerFrom(c, last, k), c)
BY DEF CurrentPoint, StopsFrom, LowerFrom

\* The times by a last point on the curve.
LEMMA LowerIsNatural ==
  ASSUME NEW c, IsCurve(c), NEW last, OnCurve(c, last), last # NoPoint,
         NEW k \in last.curveIndex..(Len(c) - 1)
  PROVE  /\ last.curveIndex \in 1..(Len(c) - 1) /\ k \in 1..(Len(c) - 1) /\ k \in 1..Len(c)
         /\ Reached(c)[k] \in Nat /\ Start(c, k) \in Nat
         /\ LowerFrom(c, last, k) = last.lowerBoundTimeOffset + Reached(c)[k] - Start(c, last.curveIndex)
         /\ LowerFrom(c, last, k) - c[k].transitionTime \in Nat
         /\ Exact(c, last) => LowerFrom(c, last, k) = Reached(c)[k]
<1>1. last.curveIndex \in 1..(Len(c) - 1) /\ last.lowerBoundTimeOffset \in Nat /\ Len(c) \in Nat
  BY EntryTimes DEF OnCurve
<1>2. k \in 1..(Len(c) - 1) /\ k \in 1..Len(c) /\ last.curveIndex \in 1..k
  BY <1>1
<1>3. /\ Reached(c)[k] \in Nat /\ c[k].transitionTime \in Nat
      /\ Start(c, k) \in Nat /\ Start(c, last.curveIndex) \in Nat
      /\ Start(c, last.curveIndex) <= Start(c, k)
  BY <1>1, <1>2, ReachedUnfolds, EntryTimes, ReachedInOrder
<1>4. LowerFrom(c, last, k) = last.lowerBoundTimeOffset + Reached(c)[k] - Start(c, last.curveIndex)
  BY DEF LowerFrom, Start
<1>5. LowerFrom(c, last, k) - c[k].transitionTime = last.lowerBoundTimeOffset + Start(c, k) - Start(c, last.curveIndex)
  <2>1. PICK l \in Nat, r \in Nat, t \in Nat, i \in Nat :
          l = last.lowerBoundTimeOffset /\ r = Reached(c)[k] /\ t = c[k].transitionTime /\ i = Start(c, last.curveIndex)
    BY <1>1, <1>3
  <2>2. LowerFrom(c, last, k) = l + r - i /\ Start(c, k) = r - t
    BY <1>4, <2>1 DEF Start
  <2>3. (l + r - i) - t = l + (r - t) - i
    OBVIOUS
  <2>4. LowerFrom(c, last, k) - c[k].transitionTime = (l + r - i) - t
    BY ONLY <2>1, <2>2
  <2>5. last.lowerBoundTimeOffset + Start(c, k) - Start(c, last.curveIndex) = l + (r - t) - i
    BY ONLY <2>1, <2>2
  <2> QED
    BY ONLY <2>3, <2>4, <2>5
<1>6. LowerFrom(c, last, k) - c[k].transitionTime \in Nat
  BY <1>1, <1>3, <1>5
<1>7. Exact(c, last) => LowerFrom(c, last, k) = Reached(c)[k]
  BY <1>1, <1>3, <1>4 DEF Exact
<1> QED
  BY <1>1, <1>2, <1>3, <1>4, <1>6, <1>7

\* Whatever the last point says, the search ends at none, at a search from the first entry, or at an
\* entry from the last point on that bounds the offset by the times of the last point.
LEMMA SearchEnds ==
  ASSUME NEW c, IsCurve(c), NEW last, OnCurve(c, last), last # NoPoint, NEW offset \in Int
  PROVE  \/ /\ CurrentPoint(c, offset, last) = EndOfCurve
            /\ \A k \in last.curveIndex..(Len(c) - 1) :
                 ~Within(c, k, LowerFrom(c, last, k), offset) /\ ~(offset < LowerFrom(c, last, k))
         \/ CurrentPoint(c, offset, last) = PointFromStart(c, offset)
         \/ \E k \in last.curveIndex..(Len(c) - 1) :
              /\ CurrentPoint(c, offset, last) = PointFrom(k, LowerFrom(c, last, k), c)
              /\ Within(c, k, LowerFrom(c, last, k), offset)
              /\ \A j \in last.curveIndex..(k - 1) : ~(offset < LowerFrom(c, last, j))
<1>1. last.curveIndex \in Nat /\ Len(c) \in Nat
  BY EntryTimes DEF OnCurve
<1>2. StopsFrom(c, offset, last) \subseteq Nat
  BY <1>1 DEF StopsFrom
<1>3. CASE StopsFrom(c, offset, last) = {}
  <2>1. CurrentPoint(c, offset, last) = EndOfCurve
    BY <1>3, SearchInSteps
  <2> QED
    BY <1>3, <2>1 DEF StopsFrom
<1>4. CASE StopsFrom(c, offset, last) # {}
  <2>1. PICK k \in StopsFrom(c, offset, last) :
          k = Min(StopsFrom(c, offset, last)) /\ \A y \in StopsFrom(c, offset, last) : k <= y
    BY <1>2, <1>4, MinIsSmallest
  <2>2. CASE offset < LowerFrom(c, last, k)
    BY <1>4, <2>1, <2>2, SearchInSteps
  <2>3. CASE ~(offset < LowerFrom(c, last, k))
    <3>1. CurrentPoint(c, offset, last) = PointFrom(k, LowerFrom(c, last, k), c)
      BY <1>4, <2>1, <2>3, SearchInSteps
    <3>2. k \in last.curveIndex..(Len(c) - 1) /\ Within(c, k, LowerFrom(c, last, k), offset)
      BY <2>1, <2>3 DEF StopsFrom
    <3>3. ASSUME NEW j \in last.curveIndex..(k - 1) PROVE ~(offset < LowerFrom(c, last, j))
      <4>1. j \in last.curveIndex..(Len(c) - 1) /\ ~(k <= j)
        BY <1>1, <3>2
      <4>2. j \notin StopsFrom(c, offset, last)
        BY <2>1, <4>1
      <4> QED
        BY <4>1, <4>2 DEF StopsFrom
    <3> QED
      BY <3>1, <3>2, <3>3
  <2> QED
    BY <2>2, <2>3
<1> QED
  BY <1>3, <1>4

\* A point that a last point leads to.
LEMMA PointFromLast ==
  ASSUME NEW c, IsCurve(c), NEW last, OnCurve(c, last), last # NoPoint,
         NEW k \in last.curveIndex..(Len(c) - 1), NEW p, p = PointFrom(k, LowerFrom(c, last, k), c)
  PROVE  /\ p.index = k /\ k \in 1..(Len(c) - 1) /\ p # EndOfCurve
         /\ Exact(c, last) =>
              /\ p.lower = Reached(c)[k]
              /\ p.info = [curveIndex |-> k, lowerBoundTimeOffset |-> Start(c, k)]
<1>1. PICK l : l = LowerFrom(c, last, k) - c[k].transitionTime
  OBVIOUS
<1>2. /\ k \in 1..(Len(c) - 1) /\ l \in Nat /\ k \in Nat /\ k # 0
      /\ Exact(c, last) => LowerFrom(c, last, k) = Reached(c)[k]
  BY <1>1, LowerIsNatural, EntryTimes
<1>3. p = [index |-> k, lower |-> LowerFrom(c, last, k), info |-> [curveIndex |-> k, lowerBoundTimeOffset |-> l]]
  BY <1>1 DEF PointFrom
<1>4. Exact(c, last) => l = Start(c, k)
  BY <1>1, <1>2 DEF Start
<1> QED
  BY <1>2, <1>3, <1>4 DEF EndOfCurve

\* From an exact last point the search finds what a search of the whole curve would.
LEMMA ExactFindsPoint ==
  ASSUME NEW c, IsCurve(c), NEW last, OnCurve(c, last), Exact(c, last), NEW offset \in Int
  PROVE  PointOf(c, offset, CurrentPoint(c, offset, last))
<1>1. CASE last = NoPoint
  <2>1. CurrentPoint(c, offset, last) = PointFromStart(c, offset)
    BY <1>1 DEF CurrentPoint
  <2> QED
    BY <2>1, StartFindsPoint
<1>2. CASE last # NoPoint
  <2>0. \A k \in last.curveIndex..(Len(c) - 1) : LowerFrom(c, last, k) = Reached(c)[k] /\ Reached(c)[k] \in Nat
    BY <1>2, LowerIsNatural
  <2>1. CASE /\ CurrentPoint(c, offset, last) = EndOfCurve
             /\ \A k \in last.curveIndex..(Len(c) - 1) :
                  ~Within(c, k, LowerFrom(c, last, k), offset) /\ ~(offset < LowerFrom(c, last, k))
    <3>1. ASSUME NEW k \in 1..(Len(c) - 1), Bounds(c, k, offset) PROVE FALSE
      <4>1. PICK i \in 1..(Len(c) - 1) : i = last.curveIndex
        BY <1>2 DEF OnCurve
      <4>2. Len(c) \in Nat /\ i \in 1..Len(c) /\ i \in last.curveIndex..(Len(c) - 1) /\ k \in 1..Len(c)
            /\ i + 1 \in 1..Len(c) /\ k + 1 \in 1..Len(c)
        BY <4>1, EntryTimes
      <4>3. ~Within(c, i, Reached(c)[i], offset) /\ ~(offset < Reached(c)[i]) /\ Reached(c)[i] \in Nat
        BY <2>0, <2>1, <4>2
      <4>4. ~(k \in last.curveIndex..(Len(c) - 1))
        BY <2>0, <2>1, <3>1 DEF Bounds
      <4>5. k \in 1..(i - 1)
        BY <4>1, <4>2, <4>4
      <4>6. /\ Reached(c)[k] + c[k].duration + c[k + 1].transitionTime <= Reached(c)[i]
            /\ Reached(c)[k] \in Nat /\ c[k].duration \in Nat /\ c[k + 1].transitionTime \in Nat
            /\ c[i].duration \in Nat /\ c[i + 1].transitionTime \in Nat
        BY <4>2, <4>5, ReachedInOrder, ReachedUnfolds, EntryTimes
      <4>7. offset <= Reached(c)[k] + c[k].duration + c[k + 1].transitionTime
        BY <3>1 DEF Bounds, Within
      <4>8. offset = Reached(c)[i]
        BY <4>3, <4>6, <4>7
      <4>9. Within(c, i, Reached(c)[i], offset)
        <5>1. offset >= Reached(c)[i] /\ offset <= Reached(c)[i] + c[i].duration + c[i + 1].transitionTime
          <6>1. PICK r \in Nat, d \in Nat, t \in Nat :
                  r = Reached(c)[i] /\ d = c[i].duration /\ t = c[i + 1].transitionTime
            BY <4>3, <4>6
          <6>2. r >= r /\ r <= r + d + t
            OBVIOUS
          <6> QED
            BY <4>8, <6>1, <6>2
        <5> QED
          BY <5>1 DEF Within
      <4> QED
        BY <4>3, <4>9
    <3> QED
      BY <2>1, <3>1 DEF PointOf, PointAt
  <2>2. CASE CurrentPoint(c, offset, last) = PointFromStart(c, offset)
    BY <2>2, StartFindsPoint
  <2>3. ASSUME NEW k \in last.curveIndex..(Len(c) - 1),
               CurrentPoint(c, offset, last) = PointFrom(k, LowerFrom(c, last, k), c),
               Within(c, k, LowerFrom(c, last, k), offset)
        PROVE  PointOf(c, offset, CurrentPoint(c, offset, last))
    <3>1. PICK p : p = PointFrom(k, LowerFrom(c, last, k), c)
      OBVIOUS
    <3>2. /\ p.index = k /\ k \in 1..(Len(c) - 1) /\ p # EndOfCurve /\ p.lower = Reached(c)[k]
          /\ p.info = [curveIndex |-> k, lowerBoundTimeOffset |-> Start(c, k)]
      BY <1>2, <3>1, PointFromLast
    <3>3. Bounds(c, k, offset)
      BY <2>0, <2>3 DEF Bounds
    <3> QED
      BY <2>3, <3>1, <3>2, <3>3 DEF PointOf, PointAt
  <2> QED
    BY <1>2, <2>1, <2>2, <2>3, SearchEnds
<1> QED
  BY <1>1, <1>2

\* At the beginning of a curve any last point is found to lie ahead, or it is exact.
LEMMA BeginningFindsPoint ==
  ASSUME NEW c, IsCurve(c), NEW last, OnCurve(c, last)
  PROVE  PointOf(c, 0, CurrentPoint(c, 0, last))
<1>1. CASE Exact(c, last)
  BY <1>1, ExactFindsPoint
<1>2. CASE ~Exact(c, last)
  <2>1. PICK i \in 1..(Len(c) - 1) : i = last.curveIndex
    BY <1>2 DEF OnCurve, Exact
  <2>2. last # NoPoint /\ Len(c) \in Nat /\ i \in last.curveIndex..(Len(c) - 1) /\ i \in 1..Len(c)
    BY <1>2, <2>1, EntryTimes DEF Exact
  <2>3. LowerFrom(c, last, i) = last.lowerBoundTimeOffset + c[i].transitionTime
    <3>1. LowerFrom(c, last, i) = last.lowerBoundTimeOffset + Reached(c)[i] - (Reached(c)[i] - c[i].transitionTime)
      BY <2>1 DEF LowerFrom
    <3>2. Reached(c)[i] \in Nat /\ c[i].transitionTime \in Nat /\ last.lowerBoundTimeOffset \in Nat
      BY <2>2, ReachedUnfolds, EntryTimes DEF OnCurve
    <3> QED
      BY <3>1, <3>2
  <2>4. last.lowerBoundTimeOffset \in Nat /\ c[i].transitionTime \in Nat
    BY <2>2, EntryTimes DEF OnCurve
  <2>5. 0 < LowerFrom(c, last, i)
    <3> SUFFICES ASSUME ~(0 < LowerFrom(c, last, i)) PROVE FALSE
      OBVIOUS
    <3>1. last.lowerBoundTimeOffset = 0 /\ c[i].transitionTime = 0
      BY <2>3, <2>4
    <3>2. i = 1
      <4>1. ~(i \in 2..Len(c))
        BY <3>1, EntryTimes
      <4> QED
        BY <2>2, <4>1
    <3>3. Start(c, i) = 0
      BY <2>2, <3>1, <3>2, ReachedUnfolds DEF Start
    <3> QED
      BY <1>2, <2>1, <3>1, <3>3 DEF Exact
  <2>6. ASSUME NEW k \in last.curveIndex..(Len(c) - 1),
               Within(c, k, LowerFrom(c, last, k), 0),
               \A j \in last.curveIndex..(k - 1) : ~(0 < LowerFrom(c, last, j))
        PROVE  FALSE
    <3>1. k = i \/ i \in last.curveIndex..(k - 1)
      BY <2>1, <2>2
    <3>2. k # i
      <4> SUFFICES ASSUME k = i PROVE FALSE
        OBVIOUS
      <4>1. 0 >= LowerFrom(c, last, i)
        BY <2>6 DEF Within
      <4> QED
        BY <2>3, <2>4, <2>5, <4>1
    <3> QED
      BY <2>5, <2>6, <3>1, <3>2
  <2>7. CurrentPoint(c, 0, last) = PointFromStart(c, 0)
    BY <2>2, <2>5, <2>6, SearchEnds
  <2> QED
    BY <2>7, StartFindsPoint
<1> QED
  BY <1>1, <1>2

\* Any lookup leaves a last point that lies on the curve.
LEMMA LookupOnCurve ==
  ASSUME NEW c, IsCurve(c), NEW last, OnCurve(c, last), NEW offset \in Int
  PROVE  /\ OnCurve(c, CurrentPoint(c, offset, last).info)
         /\ CurrentPoint(c, offset, last).index = 0 => CurrentPoint(c, offset, last).info = NoPoint
<1>0. OnCurve(c, EndOfCurve.info) /\ EndOfCurve.info = NoPoint
  BY DEF OnCurve, EndOfCurve, NoPoint
<1>1. ASSUME NEW p, PointOf(c, offset, p)
      PROVE  OnCurve(c, p.info) /\ (p.index = 0 => p.info = NoPoint)
  <2>1. CASE p = EndOfCurve
    BY <1>0, <2>1
  <2>2. CASE p # EndOfCurve
    <3>1. /\ p.index \in 1..(Len(c) - 1)
          /\ p.info = [curveIndex |-> p.index, lowerBoundTimeOffset |-> Start(c, p.index)]
      BY <1>1, <2>2 DEF PointOf, PointAt
    <3>2. Start(c, p.index) \in Nat /\ p.index \in Nat /\ p.index # 0
      BY <3>1, ReachedInOrder, EntryTimes
    <3> QED
      BY <3>1, <3>2 DEF OnCurve
  <2> QED
    BY <2>1, <2>2
<1>2. PointOf(c, offset, PointFromStart(c, offset))
  BY StartFindsPoint
<1>3. CASE last = NoPoint
  <2>1. CurrentPoint(c, offset, last) = PointFromStart(c, offset)
    BY <1>3 DEF CurrentPoint
  <2> QED
    BY <1>1, <1>2, <2>1
<1>4. CASE last # NoPoint
  <2>1. ASSUME NEW k \in last.curveIndex..(Len(c) - 1),
               CurrentPoint(c, offset, last) = PointFrom(k, LowerFrom(c, last, k), c)
        PROVE  OnCurve(c, CurrentPoint(c, offset, last).info) /\ CurrentPoint(c, offset, last).index # 0
    <3>1. PICK l : l = LowerFrom(c, last, k) - c[k].transitionTime
      OBVIOUS
    <3>2. k \in 1..(Len(c) - 1) /\ l \in Nat /\ k \in Nat /\ k # 0
      BY <1>4, <3>1, LowerIsNatural, EntryTimes
    <3>3. CurrentPoint(c, offset, last)
            = [index |-> k, lower |-> LowerFrom(c, last, k), info |-> [curveIndex |-> k, lowerBoundTimeOffset |-> l]]
      BY <2>1, <3>1 DEF PointFrom
    <3>4. OnCurve(c, [curveIndex |-> k, lowerBoundTimeOffset |-> l])
      BY <3>2 DEF OnCurve
    <3> QED
      BY <3>2, <3>3, <3>4
  <2> QED
    BY <1>0, <1>1, <1>2, <1>4, <2>1, SearchEnds
<1> QED
  BY <1>3, <1>4

\* An index that is not on the curve finds nothing.
LEMMA BeyondCurve ==
  ASSUME NEW c, IsCurve(c), NEW last, IsPoint(last), last # NoPoint, ~OnCurve(c, last), NEW offset \in Int
  PROVE  CurrentPoint(c, offset, last) = EndOfCurve /\ last.curveIndex >= Len(c)
<1>1. last.curveIndex \in Nat \ {0} /\ Len(c) \in Nat /\ ~(last.curveIndex \in 1..(Len(c) - 1))
  BY EntryTimes DEF OnCurve, IsPoint
<1>2. last.curveIndex >= Len(c) /\ last.curveIndex..(Len(c) - 1) = {}
  BY <1>1
<1>3. StopsFrom(c, offset, last) = {}
  BY <1>2 DEF StopsFrom
<1> QED
  BY <1>2, <1>3, SearchInSteps

\* Any lookup leaves a last point.
LEMMA LookupIsPoint ==
  ASSUME NEW c, IsCurve(c), NEW last, IsPoint(last), NEW offset \in Int
  PROVE  /\ IsPoint(CurrentPoint(c, offset, last).info)
         /\ CurrentPoint(c, offset, last).index = 0 => CurrentPoint(c, offset, last).info = NoPoint
<1>0. EndOfCurve.info = NoPoint /\ NoPoint \in [curveIndex : Nat, lowerBoundTimeOffset : Nat]
  BY DEF EndOfCurve, NoPoint
<1>1. CASE OnCurve(c, last)
  <2>1. PICK i : i = CurrentPoint(c, offset, last).info
    OBVIOUS
  <2>2. OnCurve(c, i) /\ (CurrentPoint(c, offset, last).index = 0 => i = NoPoint)
    BY <1>1, <2>1, LookupOnCurve
  <2>3. i \in [curveIndex : Nat, lowerBoundTimeOffset : Nat] /\ (i = NoPoint \/ i.curveIndex \in 1..(Len(c) - 1))
    BY <2>2 DEF OnCurve
  <2>4. i = NoPoint \/ i.curveIndex # 0
    BY <2>3, EntryTimes
  <2> QED
    BY <2>1, <2>2, <2>3, <2>4 DEF IsPoint
<1>2. CASE ~OnCurve(c, last)
  <2>1. last # NoPoint
    BY <1>2 DEF OnCurve, IsPoint
  <2> QED
    BY <1>0, <1>2, <2>1, BeyondCurve DEF IsPoint
<1> QED
  BY <1>1, <1>2

\* Between its first entry and its last a curve has an entry in force at every offset.
LEMMA EntriesCover ==
  ASSUME NEW c, IsCurve(c), 1 < Len(c), NEW offset \in Int,
         \A k \in 1..(Len(c) - 1) : ~Bounds(c, k, offset)
  PROVE  offset < Reached(c)[1] \/ offset > Reached(c)[Len(c)]
<1> DEFINE N == Len(c)
           Past == {k \in 0..N : k = 0 \/ offset < Reached(c)[1] \/ offset > Reached(c)[k] \/ k = 1}
<1>1. N \in Nat /\ \A k \in 1..N : Reached(c)[k] \in Nat
  BY EntryTimes, ReachedUnfolds
<1>2. ASSUME NEW k \in 1..N, k - 1 \in Past PROVE k \in Past
  <2>1. CASE k = 1
    BY <2>1
  <2>2. CASE k # 1
    <3>1. k \in 2..N /\ k - 1 \in 1..(N - 1) /\ k - 1 \in 1..N /\ k \in 0..N /\ k - 1 + 1 = k
      BY <1>1, <2>2
    <3>2. /\ Reached(c)[k] = Reached(c)[k - 1] + c[k - 1].duration + c[k].transitionTime
          /\ Reached(c)[k] \in Nat /\ Reached(c)[k - 1] \in Nat
      BY <1>1, <3>1, ReachedUnfolds
    <3>3. ~Within(c, k - 1, Reached(c)[k - 1], offset)
      BY <3>1 DEF Bounds
    <3>4. offset < Reached(c)[k - 1] \/ offset > Reached(c)[k]
      BY <3>1, <3>2, <3>3 DEF Within
    <3>5. offset < Reached(c)[1] \/ offset > Reached(c)[k - 1] \/ k - 1 = 1
      BY <1>2, <3>1
    <3> QED
      BY <3>1, <3>2, <3>4, <3>5
  <2> QED
    BY <2>1, <2>2
<1>3. 0..N \subseteq Past
  <2>1. 0 \in Past
    BY <1>1
  <2> HIDE DEF Past, N
  <2> QED
    BY <1>1, <1>2, <2>1, InductionUpTo
<1>4. N \in 0..N /\ N # 0 /\ N # 1
  <2>1. N \in Nat /\ 1 < N
    BY <1>1
  <2> HIDE DEF N
  <2> QED
    BY <2>1
<1>5. N \in Past
  <2> HIDE DEF N, Past
  <2> QED
    BY <1>3, <1>4
<1> QED
  BY <1>4, <1>5

\* In automatic mode what was looked up last lies on the active curve, and says when it counts as begun.
LastExact ==
  mode = "automatic" /\ activeTransition # NoCurve =>
    OnCurve(activeTransition, lastTransitionPointInfo) /\ Exact(activeTransition, lastTransitionPointInfo)

\* Only a timer of automatic mode waits for a read to end.
PostponedIsAutomatic == readPostponed => mode = "automatic"

LightingIInv ==
  /\ LightingKept
  /\ lookedUp.curve # NoCurve => lookedUp.curve \in Curves
  /\ IsPoint(lastTransitionPointInfo)
  /\ LastExact
  /\ PostponedIsAutomatic

\* No last point lies on every curve.
LEMMA NoPointOnCurves ==
  /\ \A c : OnCurve(c, NoPoint) /\ Exact(c, NoPoint)
  /\ IsPoint(NoPoint)
  /\ NoPoint.curveIndex = 0 /\ NoPoint.lowerBoundTimeOffset = 0
BY DEF OnCurve, Exact, NoPoint, IsPoint

\* What ends a transition leaves nothing of it.
LEMMA DisabledIInv ==
  ASSUME LightingIInv, Disabled, mode' = mode, lookedUp' = lookedUp \/ PointIsCurrent',
         lookedUp'.curve # NoCurve => lookedUp'.curve \in Curves,
         transitionOffset' \in Offsets, readPostponed' \in BOOLEAN, readPostponed' => mode = "automatic"
  PROVE  LightingIInv'
<1>1. /\ activeTransition' = NoCurve /\ lastTransitionPointInfo' = NoPoint /\ updateTimeout' = FALSE
      /\ activeTransitionCount' = 0 /\ savedTransition' = NoCurve
      /\ listeners' = IF listeners > 0 THEN listeners - 1 ELSE 0
  BY DEF Disabled
<1>2. listeners \in {0, 1} /\ mode \in Modes
  BY DEF LightingIInv, LightingKept, LightingConsistent, LightingTypeOK
<1>3. listeners' = 0
  BY <1>1, <1>2
<1>4. LightingTypeOK'
  <2>1. lastTransitionPointInfo'.curveIndex \in Nat /\ lastTransitionPointInfo'.lowerBoundTimeOffset \in Nat
    BY <1>1, NoPointOnCurves
  <2>2. mode' \in Modes /\ updateTimeout' \in BOOLEAN
    BY <1>1, <1>2
  <2> QED
    BY <1>1, <1>3, <2>1, <2>2 DEF LightingTypeOK
<1>5. LightingConsistent'
  BY <1>1, <1>3 DEF LightingConsistent
<1>6. PointIsCurrent'
  <2>1. CASE lookedUp' = lookedUp
    BY <2>1 DEF LightingIInv, LightingKept, PointIsCurrent, LookupIsRight
  <2> QED
    BY <2>1
<1>7. IsPoint(lastTransitionPointInfo') /\ LastExact' /\ PostponedIsAutomatic'
  BY <1>1, NoPointOnCurves DEF LastExact, PostponedIsAutomatic
<1> QED
  BY <1>4, <1>5, <1>6, <1>7 DEF LightingIInv, LightingKept

\* A point that was found right, or beyond the curve, keeps the lookups right.
LEMMA LookupIsCurrent ==
  ASSUME NEW c \in Curves, NEW offset \in Int, NEW last, IsPoint(last), NEW p,
         PointOf(c, offset, p) \/ (p = EndOfCurve /\ last # NoPoint /\ last.curveIndex >= Len(c)),
         lookedUp' = Lookup(c, offset, last, p)
  PROVE  PointIsCurrent' /\ lookedUp'.curve \in Curves
<1>1. IsCurve(c) /\ Len(c) \in Nat
  BY CurvesAreCurves, EntryTimes
<1>2. /\ lookedUp'.curve = c /\ lookedUp'.offset = offset /\ lookedUp'.index = p.index /\ lookedUp'.lower = p.lower
      /\ lookedUp'.from = IF last = NoPoint THEN 1 ELSE last.curveIndex
  BY DEF Lookup
<1>3. EndOfCurve.index = 0
  BY DEF EndOfCurve
<1>4. CASE p # EndOfCurve
  <2>1. p.index \in 1..Len(c) - 1 /\ p.lower = Reached(c)[p.index] /\ Within(c, p.index, Reached(c)[p.index], offset)
    BY <1>4 DEF PointOf, PointAt, Bounds
  <2>2. p.index # 0
    BY <1>1, <2>1
  <2> QED
    BY <1>2, <2>1, <2>2 DEF PointIsCurrent, LookupIsRight
<1>5. CASE p = EndOfCurve /\ lookedUp'.from >= Len(c)
  BY <1>2, <1>3, <1>5 DEF PointIsCurrent, LookupIsRight
<1>6. CASE p = EndOfCurve /\ ~(lookedUp'.from >= Len(c))
  <2>1. /\ \A k \in 1..(Len(c) - 1) : ~Bounds(c, k, offset)
        /\ last.curveIndex \in Nat /\ (last = NoPoint \/ last.curveIndex # 0)
    BY <1>2, <1>6 DEF PointOf, IsPoint
  <2>2. 1 < Len(c)
    <3>1. PICK f \in Nat : f = lookedUp'.from /\ f >= 1
      <4>1. lookedUp'.from = 1 \/ (lookedUp'.from \in Nat /\ lookedUp'.from # 0)
        <5>1. CASE last = NoPoint
          BY <1>2, <5>1
        <5>2. CASE last # NoPoint
          BY <1>2, <2>1, <5>2
        <5> QED
          BY <5>1, <5>2
      <4>2. \A f : f = 1 \/ (f \in Nat /\ f # 0) => f \in Nat /\ f >= 1
        OBVIOUS
      <4> QED
        BY <4>1, <4>2
    <3>2. ~(f >= Len(c)) /\ Len(c) \in Nat
      BY <1>1, <1>6, <3>1
    <3> QED
      BY ONLY <3>1, <3>2
  <2>3. offset < Reached(c)[1] \/ offset > Reached(c)[Len(c)]
    BY <1>1, <2>1, <2>2, EntriesCover
  <2> QED
    BY <1>2, <1>3, <1>6, <2>3 DEF PointIsCurrent, LookupIsRight
<1> QED
  BY <1>2, <1>4, <1>5, <1>6

\* scheduleNextUpdate: for a curve that is active, or when it becomes so, at its beginning or from an
\* exact point.
LEMMA ScheduleIInv ==
  ASSUME LightingIInv, NEW c \in Curves, NEW offset \in Offsets, NEW last, IsPoint(last),
         offset = 0 \/ (OnCurve(c, last) /\ Exact(c, last)), NEW dryRun \in BOOLEAN,
         dryRun => activeTransition = c,
         mode = "automatic", mode' = mode, ScheduleNextUpdate(c, offset, last, dryRun),
         transitionOffset' \in Offsets, readPostponed' \in BOOLEAN
  PROVE  LightingIInv'
<1>0. offset \in Int /\ IsCurve(c) /\ c # NoCurve
  BY CurvesAreCurves, AdaptiveLightingAssumption DEF Offsets
<1>1. PICK p : p = CurrentPoint(c, offset, last)
  OBVIOUS
<1>2. PointOf(c, offset, p) \/ (p = EndOfCurve /\ last # NoPoint /\ last.curveIndex >= Len(c))
  <2>1. CASE OnCurve(c, last)
    BY <1>0, <1>1, <2>1, BeginningFindsPoint, ExactFindsPoint
  <2>2. CASE ~OnCurve(c, last)
    <3>1. last # NoPoint
      BY <2>2, NoPointOnCurves
    <3> QED
      BY <1>0, <1>1, <2>2, <3>1, BeyondCurve
  <2> QED
    BY <2>1, <2>2
<1>3. IsPoint(p.info) /\ (p.index = 0 => p.info = NoPoint)
  BY <1>0, <1>1, LookupIsPoint
<1>4. /\ lookedUp' = Lookup(c, offset, last, p)
      /\ IF p.index = 0 THEN AtEnd(c, dryRun) ELSE \E disables \in BOOLEAN : Continues(c, p, dryRun, disables)
  BY <1>1 DEF ScheduleNextUpdate
<1>5. PointIsCurrent' /\ lookedUp'.curve \in Curves
  BY <1>0, <1>2, <1>4, LookupIsCurrent
<1>6. CASE Disabled
  BY <1>5, <1>6, DisabledIInv
<1>7. /\ listeners \in {0, 1} /\ mode \in Modes /\ updateTimeout \in BOOLEAN
      /\ dryRun => updateTimeout = TRUE
  BY <1>0 DEF LightingIInv, LightingKept, LightingConsistent, LightingTypeOK
<1>8. CASE p.index = 0 /\ dryRun
  <2>1. /\ lastTransitionPointInfo' = NoPoint
        /\ UNCHANGED <<activeTransition, updateTimeout, listeners, activeTransitionCount, savedTransition>>
    BY <1>4, <1>8 DEF AtEnd
  <2>2. LightingTypeOK'
    BY <2>1, NoPointOnCurves DEF LightingTypeOK, LightingIInv, LightingKept
  <2>3. LightingConsistent'
    BY <2>1 DEF LightingConsistent, LightingIInv, LightingKept
  <2>4. IsPoint(lastTransitionPointInfo') /\ LastExact' /\ PostponedIsAutomatic'
    BY <2>1, NoPointOnCurves DEF LastExact, PostponedIsAutomatic
  <2> QED
    BY <1>5, <2>2, <2>3, <2>4 DEF LightingIInv, LightingKept
<1>9. CASE p.index # 0 /\ ~Disabled
  <2>1. /\ activeTransition' = c
        /\ lastTransitionPointInfo' = p.info
        /\ updateTimeout' = (updateTimeout \/ ~dryRun)
        /\ listeners' = IF listeners = 0 THEN 1 ELSE listeners
        /\ activeTransitionCount' = 1
        /\ savedTransition' = c
    BY <1>4, <1>9 DEF Continues
  <2>2. listeners' = 1
    BY <1>7, <2>1
  <2>3. updateTimeout' = TRUE
    BY <1>7, <2>1
  <2>4. p.info.curveIndex \in Nat /\ p.info.lowerBoundTimeOffset \in Nat
    BY <1>3 DEF IsPoint
  <2>5. LightingTypeOK'
    BY <1>7, <2>1, <2>2, <2>3, <2>4 DEF LightingTypeOK
  <2>6. LightingConsistent'
    BY <1>0, <2>1, <2>2, <2>3 DEF LightingConsistent
  <2>7. OnCurve(c, p.info) /\ Exact(c, p.info)
    <3>1. PICK k \in 1..(Len(c) - 1) : p.info = [curveIndex |-> k, lowerBoundTimeOffset |-> Start(c, k)]
      BY <1>2, <1>9 DEF PointOf, PointAt, EndOfCurve
    <3>2. Start(c, k) \in Nat /\ k \in Nat
      BY <1>0, <3>1, ReachedInOrder, EntryTimes
    <3> QED
      BY <3>1, <3>2 DEF Exact, OnCurve
  <2>8. LastExact' /\ PostponedIsAutomatic'
    BY <2>1, <2>7 DEF LastExact, PostponedIsAutomatic
  <2> QED
    BY <1>3, <1>5, <2>1, <2>5, <2>6, <2>8 DEF LightingIInv, LightingKept
<1>10. p.index = 0 /\ ~dryRun => Disabled
  BY <1>4 DEF AtEnd
<1> QED
  BY <1>6, <1>8, <1>9, <1>10

\* What the invariant says of an active transition.
LEMMA ActiveTransition ==
  ASSUME LightingIInv
  PROVE  /\ mode \in Modes /\ (mode = "automatic" \/ mode = "manual")
         /\ activeTransition \in Curves \/ activeTransition = NoCurve
         /\ activeTransition # NoCurve => activeTransition \in Curves
         /\ transitionOffset \in Offsets /\ readPostponed \in BOOLEAN
         /\ savedTransition = activeTransition
         /\ updateTimeout \/ listeners > 0 => activeTransition # NoCurve /\ mode = "automatic"
         /\ IsPoint(lastTransitionPointInfo)
         /\ mode = "automatic" /\ activeTransition # NoCurve =>
              OnCurve(activeTransition, lastTransitionPointInfo) /\ Exact(activeTransition, lastTransitionPointInfo)
BY AdaptiveLightingAssumption
   DEF LightingIInv, LightingKept, LightingTypeOK, LightingConsistent, LastExact

\* In manual mode there is neither a timer nor a listener; a curve is kept for the plugin.
LEMMA ManualIInv ==
  ASSUME LightingIInv, mode = "manual", mode' = mode, readPostponed' \in BOOLEAN, ~readPostponed',
         transitionOffset' \in Offsets, UNCHANGED <<updateTimeout, listeners>>,
         activeTransition' \in Curves, activeTransitionCount' = 1, savedTransition' = activeTransition',
         IsPoint(lastTransitionPointInfo'),
         lookedUp'.curve # NoCurve => lookedUp'.curve \in Curves
  PROVE  LightingIInv'
<1>1. activeTransition' # NoCurve /\ mode \in Modes
  BY AdaptiveLightingAssumption DEF LightingIInv, LightingKept, LightingTypeOK
<1>2. /\ lastTransitionPointInfo'.curveIndex \in Nat /\ lastTransitionPointInfo'.lowerBoundTimeOffset \in Nat
      /\ listeners = 0 /\ updateTimeout = FALSE
  BY <1>1 DEF IsPoint, LightingIInv, LightingKept, LightingTypeOK, LightingConsistent
<1>3. LightingTypeOK'
  BY <1>1, <1>2 DEF LightingTypeOK
<1>4. LightingConsistent'
  BY <1>1, <1>2 DEF LightingConsistent
<1>5. PointIsCurrent' /\ LastExact' /\ PostponedIsAutomatic'
  BY DEF PointIsCurrent, LastExact, PostponedIsAutomatic
<1> QED
  BY <1>3, <1>4, <1>5 DEF LightingIInv, LightingKept

\* Nothing but the clock or the waiting read changes.
LEMMA UnchangedIInv ==
  ASSUME LightingIInv, UNCHANGED <<mode, transition, lookedUp>>, transitionOffset' \in Offsets,
         readPostponed' \in BOOLEAN, readPostponed' => mode = "automatic"
  PROVE  LightingIInv'
<1> USE DEF transition
<1>1. LightingTypeOK'
  BY DEF LightingIInv, LightingKept, LightingTypeOK
<1>2. LightingConsistent' /\ IsPoint(lastTransitionPointInfo') /\ LastExact' /\ PostponedIsAutomatic'
  BY DEF LightingIInv, LightingKept, LightingConsistent, LastExact, PostponedIsAutomatic
<1>3. PointIsCurrent'
  BY DEF LightingIInv, LightingKept, PointIsCurrent, LookupIsRight
<1> QED
  BY <1>1, <1>2, <1>3 DEF LightingIInv, LightingKept

\* A curve is enabled, renewed or restored.
LEMMA ActivatedIInv ==
  ASSUME LightingIInv, NEW c \in Curves, NEW offset \in Offsets, NEW last, IsPoint(last),
         offset = 0 \/ (OnCurve(c, last) /\ Exact(c, last)), Activated(c, offset, last), mode' = mode,
         transitionOffset' \in Offsets, readPostponed' \in BOOLEAN, readPostponed' => readPostponed
  PROVE  LightingIInv'
<1>1. CASE mode = "automatic"
  <2>1. ScheduleNextUpdate(c, offset, last, FALSE)
    BY <1>1 DEF Activated
  <2>2. PICK dryRun \in BOOLEAN : dryRun = FALSE
    OBVIOUS
  <2> QED
    BY <1>1, <2>1, <2>2, ScheduleIInv
<1>2. CASE mode # "automatic"
  <2>1. /\ activeTransition' = c /\ activeTransitionCount' = 1 /\ savedTransition' = c
        /\ lastTransitionPointInfo' = last /\ UNCHANGED <<updateTimeout, listeners, lookedUp>>
    BY <1>2 DEF Activated
  <2>2. mode = "manual" /\ ~readPostponed'
    BY <1>2, ActiveTransition DEF LightingIInv, PostponedIsAutomatic
  <2>3. lookedUp'.curve # NoCurve => lookedUp'.curve \in Curves
    BY <2>1 DEF LightingIInv
  <2> QED
    BY <2>1, <2>2, <2>3, ManualIInv
<1> QED
  BY <1>1, <1>2

\* The steps but a restart.
LEMMA LightingStepIInv ==
  ASSUME LightingIInv
  PROVE  /\ \A c \in Curves : UpdateTransition(c) => LightingIInv'
         /\ UpdateTimeout \/ PostponedUpdate \/ GetCurrentPoint \/ DisableAdaptiveLighting => LightingIInv'
         /\ \A byRead \in BOOLEAN : BrightnessChanged(byRead) => LightingIInv'
         /\ \A offset \in Offsets : Clock(offset) => LightingIInv'
<1>0. 0 \in Offsets
  BY AdaptiveLightingAssumption DEF Offsets
<1>1. ASSUME NEW c \in Curves, UpdateTransition(c)
      PROVE  LightingIInv'
  <2>1. /\ transitionOffset' = 0 /\ Activated(c, 0, lastTransitionPointInfo)
        /\ UNCHANGED <<mode, readPostponed>>
    BY <1>1 DEF UpdateTransition
  <2> QED
    BY <1>0, <2>1, ActivatedIInv, ActiveTransition
<1>2. ASSUME UpdateTimeout
      PROVE  LightingIInv'
  <2>1. /\ ScheduleNextUpdate(activeTransition, transitionOffset, lastTransitionPointInfo, FALSE)
        /\ UNCHANGED <<mode, transitionOffset, readPostponed>>
        /\ activeTransition # NoCurve /\ mode = "automatic"
    BY <1>2, ActiveTransition DEF UpdateTimeout
  <2>2. PICK dryRun \in BOOLEAN : dryRun = FALSE
    OBVIOUS
  <2> QED
    BY <2>1, <2>2, ActiveTransition, ScheduleIInv
<1>3. ASSUME activeTransition # NoCurve, mode = "automatic", readPostponed' \in BOOLEAN,
             ScheduleNextUpdate(activeTransition, transitionOffset, lastTransitionPointInfo, TRUE),
             UNCHANGED <<mode, transitionOffset>>
      PROVE  LightingIInv'
  <2>1. PICK dryRun \in BOOLEAN : dryRun = TRUE
    OBVIOUS
  <2> QED
    BY <1>3, <2>1, ActiveTransition, ScheduleIInv
<1>4. ASSUME PostponedUpdate
      PROVE  LightingIInv'
  <2>1. /\ mode = "automatic" /\ readPostponed' = FALSE /\ UNCHANGED <<mode, transitionOffset>>
        /\ IF activeTransition = NoCurve THEN UNCHANGED <<transition, lookedUp>>
           ELSE ScheduleNextUpdate(activeTransition, transitionOffset, lastTransitionPointInfo, TRUE)
    BY <1>4 DEF PostponedUpdate, LightingIInv, PostponedIsAutomatic
  <2>2. readPostponed' \in BOOLEAN
    BY <2>1
  <2>3. CASE activeTransition = NoCurve
    BY <2>1, <2>2, <2>3, ActiveTransition, UnchangedIInv
  <2>4. CASE activeTransition # NoCurve
    BY <1>3, <2>1, <2>2, <2>4
  <2> QED
    BY <2>3, <2>4
<1>5. ASSUME GetCurrentPoint
      PROVE  LightingIInv'
  <2>1. PICK p : p = CurrentPoint(activeTransition, transitionOffset, lastTransitionPointInfo)
    OBVIOUS
  <2>2. /\ mode = "manual" /\ activeTransition # NoCurve
        /\ lastTransitionPointInfo' = p.info
        /\ lookedUp' = Lookup(activeTransition, transitionOffset, lastTransitionPointInfo, p)
        /\ UNCHANGED <<mode, transitionOffset, readPostponed, activeTransition, updateTimeout, listeners,
                       activeTransitionCount, savedTransition>>
    BY <1>5, <2>1 DEF GetCurrentPoint
  <2>3. PICK c \in Curves : c = activeTransition
    BY <2>2, ActiveTransition
  <2>4. transitionOffset \in Int /\ IsPoint(lastTransitionPointInfo) /\ IsCurve(c)
    BY ActiveTransition, CurvesAreCurves, AdaptiveLightingAssumption DEF Offsets
  <2>5. IsPoint(p.info)
    BY <2>1, <2>3, <2>4, LookupIsPoint
  <2>6. IsPoint(lastTransitionPointInfo')
    BY <2>2, <2>5
  <2>7. lookedUp'.curve = activeTransition
    BY <2>2 DEF Lookup
  <2>8. /\ ~readPostponed' /\ readPostponed' \in BOOLEAN /\ activeTransitionCount' = 1
        /\ savedTransition' = activeTransition'
    BY <2>2, ActiveTransition DEF LightingIInv, PostponedIsAutomatic, LightingKept, LightingConsistent
  <2>9. transitionOffset' \in Offsets /\ activeTransition' \in Curves
    BY <2>2, <2>3, ActiveTransition
  <2> QED
    BY <2>2, <2>3, <2>6, <2>7, <2>8, <2>9, ManualIInv
<1>6. ASSUME DisableAdaptiveLighting
      PROVE  LightingIInv'
  <2>1. Disabled /\ UNCHANGED <<mode, transitionOffset, readPostponed, lookedUp>>
    BY <1>6 DEF DisableAdaptiveLighting
  <2> QED
    BY <2>1, ActiveTransition, DisabledIInv DEF LightingIInv, PostponedIsAutomatic
<1>7. ASSUME NEW byRead \in BOOLEAN, BrightnessChanged(byRead)
      PROVE  LightingIInv'
  <2>1. /\ activeTransition # NoCurve /\ mode = "automatic" /\ readPostponed' = (readPostponed \/ byRead)
        /\ IF byRead THEN UNCHANGED <<transition, lookedUp>>
           ELSE ScheduleNextUpdate(activeTransition, transitionOffset, lastTransitionPointInfo, TRUE)
        /\ UNCHANGED <<mode, transitionOffset>>
    BY <1>7, ActiveTransition DEF BrightnessChanged
  <2>2. readPostponed' \in BOOLEAN
    BY <2>1
  <2>3. CASE byRead
    BY <2>1, <2>2, <2>3, ActiveTransition, UnchangedIInv
  <2>4. CASE ~byRead
    BY <1>3, <2>1, <2>2, <2>4
  <2> QED
    BY <2>3, <2>4
<1>8. ASSUME NEW offset \in Offsets, Clock(offset)
      PROVE  LightingIInv'
  <2>1. transitionOffset' = offset /\ UNCHANGED <<mode, transition, readPostponed, lookedUp>>
    BY <1>8 DEF Clock
  <2> QED
    BY <2>1, ActiveTransition, UnchangedIInv DEF LightingIInv, PostponedIsAutomatic
<1> QED
  BY <1>1, <1>2, <1>4, <1>5, <1>6, <1>7, <1>8

\* A restart restores what was stored, or starts without a transition.
LEMMA RestartIInv ==
  ASSUME LightingIInv, NEW offset \in Offsets, RestartLighting(offset)
  PROVE  LightingIInv'
<1>1. /\ transitionOffset' = offset /\ readPostponed' = FALSE /\ mode' = mode
      /\ IF savedTransition = NoCurve
         THEN /\ activeTransition' = NoCurve
              /\ lastTransitionPointInfo' = NoPoint
              /\ updateTimeout' = FALSE
              /\ listeners' = 0
              /\ activeTransitionCount' = 0
              /\ UNCHANGED <<savedTransition, lookedUp>>
         ELSE Activated(savedTransition, offset, NoPoint)
  BY DEF RestartLighting
<1>2. readPostponed' \in BOOLEAN /\ ~readPostponed'
  BY <1>1
<1>3. CASE savedTransition = NoCurve
  <2>1. listeners > 0 => listeners = 1
    BY DEF LightingIInv, LightingKept, LightingConsistent
  <2>2. listeners = 0
    BY <1>3, ActiveTransition DEF LightingIInv, LightingKept, LightingConsistent, LightingTypeOK
  <2>3. Disabled
    BY <1>1, <1>3, <2>2 DEF Disabled
  <2> QED
    BY <1>1, <1>2, <1>3, <2>3, DisabledIInv DEF LightingIInv
<1>4. CASE savedTransition # NoCurve
  BY <1>1, <1>2, <1>4, ActiveTransition, NoPointOnCurves, ActivatedIInv
<1> QED
  BY <1>3, <1>4

\* AdaptiveLightingController: for any curves, whenever they are sent, restored and given up and however
\* the clock is set, timer, listeners, count and stored transition agree with the transition; and in
\* automatic mode a lookup from the last point finds the entry in force at that time and when it was
\* reached, or none: past the last entry, before the first, or where the last point has an index the
\* renewed curve does not.
THEOREM LightingAlwaysKept == LightingSpec => []LightingKept
<1>1. LightingInit => LightingIInv
  <2> SUFFICES ASSUME LightingInit PROVE LightingIInv
    OBVIOUS
  <2>1. /\ mode \in Modes /\ activeTransition = NoCurve /\ transitionOffset = 0
        /\ lastTransitionPointInfo = NoPoint /\ updateTimeout = FALSE /\ listeners = 0
        /\ activeTransitionCount = 0 /\ savedTransition = NoCurve /\ readPostponed = FALSE
        /\ lookedUp.curve = NoCurve
    BY DEF LightingInit
  <2>2. LightingTypeOK
    <3>1. lastTransitionPointInfo.curveIndex \in Nat /\ lastTransitionPointInfo.lowerBoundTimeOffset \in Nat
      BY <2>1, NoPointOnCurves
    <3>2. updateTimeout \in BOOLEAN /\ readPostponed \in BOOLEAN
      BY <2>1
    <3>3. transitionOffset \in Offsets
      BY <2>1, AdaptiveLightingAssumption DEF Offsets
    <3> QED
      BY <2>1, <3>1, <3>2, <3>3 DEF LightingTypeOK
  <2>3. LightingConsistent /\ PointIsCurrent /\ LastExact /\ PostponedIsAutomatic
    BY <2>1 DEF LightingConsistent, PointIsCurrent, LookupIsRight, LastExact, PostponedIsAutomatic
  <2>4. IsPoint(lastTransitionPointInfo)
    BY <2>1, NoPointOnCurves
  <2> QED
    BY <2>1, <2>2, <2>3, <2>4 DEF LightingIInv, LightingKept
<1>2. LightingIInv /\ [LightingNext]_lightingVars => LightingIInv'
  <2> SUFFICES ASSUME LightingIInv, [LightingNext]_lightingVars PROVE LightingIInv'
    OBVIOUS
  <2>1. CASE UNCHANGED lightingVars
    BY <2>1, ActiveTransition, UnchangedIInv DEF lightingVars, LightingIInv, PostponedIsAutomatic
  <2>2. CASE LightingNext
    BY <2>2, LightingStepIInv, RestartIInv DEF LightingNext
  <2> QED
    BY <2>1, <2>2
<1>3. LightingIInv => LightingKept
  BY DEF LightingIInv
<1> QED
  BY <1>1, <1>2, <1>3, PTL DEF LightingSpec

-----------------------------------------------------------------------------
(* NetworkBinding.  What a connection came in on is remembered with the    *)
(* interfaces the host had at the time.                                    *)

\* What comes first of S in a sequence is in S.
LEMMA FirstIsOne ==
  ASSUME NEW T, NEW s \in Seq(T), NEW S, \E x \in Range(s) : x \in S
  PROVE  FirstOf(s, S) \in S /\ FirstOf(s, S) \in Range(s)
<1> DEFINE at == {i \in DOMAIN s : s[i] \in S}
<1>1. at \subseteq Nat /\ at # {}
  <2>1. DOMAIN s = 1..Len(s) /\ Len(s) \in Nat
    OBVIOUS
  <2> QED
    BY <2>1 DEF Range
<1>2. Min(at) \in at
  <2> HIDE DEF at
  <2> QED
    BY <1>1, MinIsSmallest
<1>3. FirstOf(s, S) = s[Min(at)]
  BY DEF FirstOf
<1>4. \A m \in at : s[m] \in S /\ s[m] \in Range(s)
  BY DEF Range
<1> HIDE DEF at
<1> QED
  BY <1>2, <1>3, <1>4

\* A connection that came in on an address of the host has been given an interface with it.
CameInThere ==
  connection # NotConnected =>
    /\ \A n \in Names : connection.host[n] \in HostAddresses[n]
    /\ (\E n \in Names : connection.local \in Range(connection.host[n])) =>
         /\ connection.networkInterface \in Names
         /\ connection.local \in Range(connection.host[connection.networkInterface])

\* A server for IPv4 only is announced with IPv4 addresses only.
BoundToIPv4 ==
  server = "0.0.0.0" =>
    \/ disabledIpv6
    \/ /\ restriction # NoRestriction /\ restriction.names = {}
       /\ \A a \in restriction.addresses : a.family = 4

NetworkIInv ==
  /\ NetworkTypeOK /\ DOMAIN host = Names /\ advertiser \in Advertisers
  /\ CameInThere /\ BoundToIPv4

\* What an interface carries are addresses.
LEMMA CarriesAddresses ==
  ASSUME NetworkTypeOK
  PROVE  \A n \in Names : /\ host[n] \in Seq(Addresses) /\ host[n] \in HostAddresses[n]
                          /\ AllOf(n) \subseteq Addresses
<1>1. ASSUME NEW n \in Names
      PROVE  host[n] \in Seq(Addresses) /\ host[n] \in HostAddresses[n]
  BY NetworkAssumption DEF NetworkTypeOK
<1>2. ASSUME NEW n \in Names
      PROVE  AllOf(n) \subseteq Addresses
  BY <1>1 DEF AllOf, Addresses
<1> QED
  BY <1>1, <1>2

\* The interface of a socket whose address the host has is one that carries the address.
LEMMA InterfaceCarriesIt ==
  ASSUME NEW local, local.form \in {"plain", "mapped"}, local = [form |-> local.form, address |-> local.address],
         NEW n \in Names, local.address \in AllOf(n)
  PROVE  /\ LocalNetworkInterface(local) \in Names
         /\ local.address \in AllOf(LocalNetworkInterface(local))
<1> DEFINE l == Unmapped(local)
           exact == {m \in Names : \E a \in AllOf(m) : Written("plain", a) = l}
<1>1. l = [form |-> "plain", address |-> local.address]
  BY DEF Unmapped
<1>2. \A m \in Names : m \in exact <=> local.address \in AllOf(m)
  <2>1. \A a : Written("plain", a) = l <=> a = local.address
    BY <1>1 DEF Written
  <2> HIDE DEF l
  <2> QED
    BY <2>1
<1>3. n \in exact
  BY <1>2
<1>4. LocalNetworkInterface(local) = FirstOf(NameOrder, exact)
  <2>1. exact # {}
    BY <1>3
  <2> QED
    BY <2>1 DEF LocalNetworkInterface
<1>5. FirstOf(NameOrder, exact) \in exact /\ FirstOf(NameOrder, exact) \in Names
  <2> HIDE DEF exact
  <2> QED
    BY <1>3, NetworkAssumption, FirstIsOne DEF Names
<1> HIDE DEF exact
<1> QED
  BY <1>2, <1>4, <1>5

\* A name is given to an address of a family the interface has.
LEMMA HasLocalAddress ==
  ASSUME NEW n \in Names, NEW a \in AllOf(n)
  PROVE  LocalAddress(n, a.family) # {}
<1> DEFINE all    == {b \in IF n \in Names THEN AllOf(n) ELSE {} : b.family = a.family}
           global == {b \in all : a.family = 6 /\ ~b.scoped}
<1>1. a \in all
  OBVIOUS
<1>2. PICK S : S = (IF global # {} THEN global ELSE all) /\ S # {}
  <2>1. all # {}
    BY <1>1
  <2> HIDE DEF all
  <2>2. (IF global # {} THEN global ELSE all) # {}
    BY <2>1
  <2> HIDE DEF global
  <2> QED
    BY <2>2
<1>3. LocalAddress(n, a.family) = {FirstOf(host[n], R) : R \in {S} \ {{}}}
  BY <1>2 DEF LocalAddress
<1>4. S \in {S} \ {{}}
  BY <1>2
<1> QED
  BY <1>3, <1>4

\* The loopback address is one of the host.
LEMMA LoopbackIsAddress ==
  ASSUME NetworkTypeOK
  PROVE  OSLoopbackAddress \subseteq Addresses
<1> DEFINE Inside(n)  == {a \in AllOf(n) : a.internal}
           loops      == {n \in Names : \E a \in AllOf(n) : a.internal}
           name       == FirstOf(NameOrder, loops)
<1>1. CASE loopback # {}
  BY <1>1 DEF OSLoopbackAddress, NetworkTypeOK
<1>2. CASE loopback = {} /\ \A n \in Names : \A a \in AllOf(n) : ~a.internal
  BY <1>2 DEF OSLoopbackAddress, FindLoopback
<1>3. CASE loopback = {} /\ \E n \in Names : \E a \in AllOf(n) : a.internal
  <2>1. name \in loops
    <3>1. \E n \in Range(NameOrder) : n \in loops
      BY <1>3 DEF Names
    <3> HIDE DEF loops
    <3> QED
      BY <3>1, NetworkAssumption, FirstIsOne
  <2>2. PICK m \in Names : m = name /\ Inside(m) # {}
    <3> HIDE DEF name
    <3> QED
      BY <2>1
  <2> DEFINE ipv4 == {a \in Inside(m) : a.family = 4}
             ipv6 == {a \in Inside(m) : a.family = 6 /\ ~a.scoped}
             pick == IF ipv4 # {} THEN ipv4 ELSE IF ipv6 # {} THEN ipv6 ELSE Inside(m)
  <2>3. OSLoopbackAddress = {FirstOf(host[m], pick)}
    BY <1>3, <2>2 DEF OSLoopbackAddress, FindLoopback
  <2>4. PICK x \in AllOf(m) : x \in pick
    BY <2>2
  <2>5. FirstOf(host[m], pick) \in AllOf(m)
    <3> HIDE DEF pick
    <3> QED
      BY <2>4, CarriesAddresses, FirstIsOne DEF AllOf
  <2> HIDE DEF pick
  <2> QED
    BY <2>3, <2>5, CarriesAddresses
<1> QED
  BY <1>1, <1>2, <1>3

\* publish keeps what is announced served.
LEMMA PublishIInv ==
  ASSUME NetworkIInv, NEW bind \in BindOptions, Publish(bind)
  PROVE  NetworkIInv'
<1>1. /\ server' = IF bind = NoRestriction THEN "::" ELSE ServerAddress(bind)
      /\ restriction' = [bind EXCEPT !.unspecified = @ \ {server'}]
      /\ disabledIpv6' = (bind.unspecified = {"0.0.0.0"})
      /\ UNCHANGED <<host, advertiser, connection, loopback>>
  BY DEF Publish
<1>2. bind \in [unspecified : SUBSET {"::", "0.0.0.0"}, names : SUBSET Names, addresses : SUBSET Addresses]
  BY NetworkAssumption
<1>3. restriction'.names = bind.names /\ restriction'.addresses = bind.addresses
  BY <1>1, <1>2
<1>4. ServerAddress(bind) \in {"::", "0.0.0.0"}
  BY <1>2 DEF ServerAddress
<1>5. NetworkTypeOK'
  <2>1. disabledIpv6' \in BOOLEAN /\ server' \in {"none", "::", "0.0.0.0"}
    BY <1>1, <1>4
  <2> QED
    BY <1>1, <1>2, <1>3, <2>1 DEF NetworkIInv, NetworkTypeOK
<1>6. BoundToIPv4'
  <2> SUFFICES ASSUME server' = "0.0.0.0", ~disabledIpv6'
               PROVE  /\ restriction' # NoRestriction /\ restriction'.names = {}
                      /\ \A a \in restriction'.addresses : a.family = 4
    BY DEF BoundToIPv4
  <2>1. bind # NoRestriction /\ ServerAddress(bind) = "0.0.0.0" /\ bind.unspecified # {"0.0.0.0"}
    BY <1>1
  <2>2. /\ "::" \notin bind.unspecified /\ bind.names = {}
        /\ \A a \in bind.addresses : ~(a.family = 6)
    BY <2>1 DEF ServerAddress
  <2>3. bind.unspecified = {}
    BY <1>2, <2>1, <2>2
  <2>4. \A a \in bind.addresses : a.family = 4
    BY <1>2, <2>2, NetworkAssumption
  <2>5. bind = [unspecified |-> {}, names |-> {}, addresses |-> bind.addresses]
    BY <1>2, <2>2, <2>3
  <2>6. bind.addresses # {}
    BY <2>1, <2>5 DEF NoRestriction
  <2>7. NoRestriction.addresses = {}
    BY DEF NoRestriction
  <2> QED
    BY <1>3, <2>2, <2>4, <2>6, <2>7
<1>7. CameInThere'
  BY <1>1 DEF NetworkIInv, CameInThere, NotConnected
<1> QED
  BY <1>1, <1>5, <1>6, <1>7 DEF NetworkIInv

\* A connection is given its interface.
LEMMA ConnectIInv ==
  ASSUME NetworkIInv, NEW form \in {"plain", "mapped"}, NEW a \in Addresses, Connect(Written(form, a))
  PROVE  NetworkIInv'
<1>1. PICK local : local = Written(form, a)
  OBVIOUS
<1>2. local.form = form /\ local.address = a /\ local = [form |-> local.form, address |-> local.address]
  BY <1>1 DEF Written
<1>3. /\ loopback' = OSLoopbackAddress
      /\ connection' = [local |-> a, networkInterface |-> LocalNetworkInterface(local),
                        server |-> loopback', host |-> host]
      /\ UNCHANGED <<host, server, advertiser, restriction, disabledIpv6>>
  BY <1>1, <1>2 DEF Connect
<1>4. NetworkTypeOK'
  BY <1>3, LoopbackIsAddress DEF NetworkIInv, NetworkTypeOK
<1>5. BoundToIPv4'
  BY <1>3 DEF NetworkIInv, BoundToIPv4
<1>6. CameInThere'
  <2>1. /\ connection'.host = host /\ connection'.local = a
        /\ connection'.networkInterface = LocalNetworkInterface(local)
    BY <1>3
  <2>2. ASSUME NEW n \in Names, a \in Range(host[n])
        PROVE  /\ LocalNetworkInterface(local) \in Names
               /\ a \in Range(host[LocalNetworkInterface(local)])
    BY <1>2, <2>2, InterfaceCarriesIt DEF AllOf
  <2> QED
    BY <2>1, <2>2, CarriesAddresses DEF CameInThere, NetworkIInv
<1> QED
  BY <1>3, <1>4, <1>5, <1>6 DEF NetworkIInv

\* An interface changes; what a connection came in on is remembered.
LEMMA ReaddressIInv ==
  ASSUME NetworkIInv, NEW n \in Names, NEW s \in HostAddresses[n], Readdress(n, s)
  PROVE  NetworkIInv'
<1>1. /\ host' = [host EXCEPT ![n] = s]
      /\ UNCHANGED <<server, advertiser, restriction, disabledIpv6, connection, loopback>>
  BY DEF Readdress
<1>2. ASSUME NEW m \in Names PROVE host'[m] \in HostAddresses[m]
  <2>1. host[m] \in HostAddresses[m]
    BY DEF NetworkIInv, NetworkTypeOK
  <2>2. m \in DOMAIN host
    BY DEF NetworkIInv
  <2> QED
    BY <1>1, <2>1, <2>2
<1>3. NetworkTypeOK' /\ BoundToIPv4' /\ CameInThere' /\ DOMAIN host' = Names /\ advertiser' \in Advertisers
  BY <1>1, <1>2 DEF NetworkIInv, NetworkTypeOK, BoundToIPv4, CameInThere, NotConnected
<1> QED
  BY <1>3 DEF NetworkIInv

LEMMA NetworkPreserved == NetworkIInv /\ [NetworkNext]_networkVars => NetworkIInv'
<1> SUFFICES ASSUME NetworkIInv, [NetworkNext]_networkVars PROVE NetworkIInv'
  OBVIOUS
<1>1. CASE UNCHANGED networkVars
  <2>1. NetworkTypeOK' /\ BoundToIPv4' /\ CameInThere' /\ DOMAIN host' = Names /\ advertiser' \in Advertisers
    BY <1>1 DEF networkVars, NetworkIInv, NetworkTypeOK, BoundToIPv4, CameInThere, NotConnected
  <2> QED
    BY <2>1 DEF NetworkIInv
<1>2. CASE NetworkNext
  BY <1>2, PublishIInv, ConnectIInv, ReaddressIInv DEF NetworkNext
<1> QED
  BY <1>1, <1>2

\* Accessory.parseBindOption, HAPConnection.getLocalNetworkInterface and getLocalAddress: for any
\* interfaces and bind options, with an advertiser of its own (ciao, bonjour), no address is announced
\* that the server does not listen on, and a stream goes back the way its request came.
THEOREM HostAlwaysAddressed ==
  ASSUME Advertisers \cap {"avahi", "resolved"} = {}
  PROVE  NetworkSpec => []HostAddressed
<1>1. NetworkInit => NetworkIInv
  <2> SUFFICES ASSUME NetworkInit PROVE NetworkIInv
    OBVIOUS
  <2>1. disabledIpv6 \in BOOLEAN
    BY DEF NetworkInit
  <2>2. NetworkTypeOK
    BY <2>1 DEF NetworkInit, NetworkTypeOK, NoRestriction
  <2>3. CameInThere /\ BoundToIPv4 /\ DOMAIN host = Names /\ advertiser \in Advertisers
    BY DEF NetworkInit, CameInThere, BoundToIPv4
  <2> QED
    BY <2>2, <2>3 DEF NetworkIInv
<1>2. NetworkIInv /\ [NetworkNext]_networkVars => NetworkIInv'
  BY NetworkPreserved
<1>3. NetworkIInv => HostAddressed
  <2> SUFFICES ASSUME NetworkIInv PROVE HostAddressed
    OBVIOUS
  <2>1. NetworkTypeOK
    BY DEF NetworkIInv
  <2>2. AnnouncedIsServed
    <3> SUFFICES ASSUME server = "0.0.0.0", NEW a \in Announced PROVE a.family = 4
      BY DEF AnnouncedIsServed
    <3>1. advertiser \notin {"avahi", "resolved"}
      BY DEF NetworkIInv
    <3>2. a \in Restricted /\ (disabledIpv6 => a.family = 4)
      BY <3>1 DEF Announced
    <3>3. CASE disabledIpv6
      BY <3>2, <3>3
    <3>4. CASE ~disabledIpv6
      <4>1. /\ restriction # NoRestriction /\ restriction.names = {}
            /\ \A b \in restriction.addresses : b.family = 4
        BY <3>4 DEF NetworkIInv, BoundToIPv4
      <4>2. Restricted = Carried(restriction.names) \cup (Carried(Names) \cap restriction.addresses)
        BY <4>1 DEF Restricted
      <4>3. Carried(restriction.names) = {}
        BY <4>1 DEF Carried
      <4>4. a \in restriction.addresses
        BY <3>2, <4>2, <4>3
      <4> QED
        BY <4>1, <4>4
    <3> QED
      BY <3>3, <3>4
  <2>3. StreamLeavesWhereItCameIn
    <3> SUFFICES ASSUME connection # NotConnected, connection.host = host,
                        NEW n \in Names, connection.local \in AllOf(n)
                 PROVE  /\ connection.local \in AllOf(connection.networkInterface)
                        /\ LocalAddress(connection.networkInterface, connection.local.family) # {}
      BY DEF StreamLeavesWhereItCameIn
    <3>1. PICK m \in Names : m = connection.networkInterface /\ connection.local \in AllOf(m)
      BY DEF NetworkIInv, CameInThere, AllOf
    <3> QED
      BY <3>1, HasLocalAddress
  <2> QED
    BY <2>1, <2>2, <2>3 DEF HostAddressed
<1> QED
  BY <1>1, <1>2, <1>3, PTL DEF NetworkSpec

-----------------------------------------------------------------------------
(* Advertiser: the inductive invariant.  Functions of the two D-Bus        *)
(* advertisers overlap, and each reads this.path after its await.  What    *)
(* orders them is that the bus answers in order.  With resolved only an    *)
(* update withdraws what is registered, and it registers again.  With      *)
(* avahi every group is made before one of them is filled, and filled      *)
(* before one is committed, so that all of them fill and commit the last;  *)
(* only where the name of the host is settled anew in between does this    *)
(* order fail, which is why the property does not speak of that.           *)

BusObjects == 1..MaxPaths \cup {NoPath}
CallType == [member : Members, function : {"start", "update", "destroy"}, object : BusObjects, txt : 0..MaxTxt]
DaemonRecord == [txt : 0..MaxTxt, committed : BOOLEAN]

\* The daemon holds something for an object.
Live(p) == p \in 1..MaxPaths /\ records[p] # NoPath
Is(k, member) == calls[k].member = member
Waits(member) == \E k \in DOMAIN calls : Is(k, member)
Tells(k) == calls[k].object = path /\ calls[k].member \in {"AddService", "UpdateServiceTxt"}

\* What no order of events may upset: paths are used once, the daemon's records go with it.
AdvertiserTypes ==
  /\ backend \in Backends
  /\ advertised \in 0..MaxTxt
  /\ port \in BOOLEAN /\ bus \in BOOLEAN /\ stateListener \in BOOLEAN
  /\ path \in BusObjects
  /\ calls \in Seq(CallType)
  /\ daemon \in BOOLEAN
  /\ records \in [1..MaxPaths -> DaemonRecord \cup {NoPath}]
  /\ nextPath \in 1..(MaxPaths + 1)
  /\ interrupted \in {"no", "stopped", "settled"} /\ unhandled \in BOOLEAN

PathsInOrder ==
  /\ \A p \in 1..MaxPaths : Live(p) => p < nextPath
  /\ path # NoPath => path < nextPath
  /\ \A k \in DOMAIN calls : calls[k].object # NoPath => calls[k].object < nextPath

\* While the daemon is down it holds nothing.
DownHoldsNothing == ~daemon => interrupted = "stopped" /\ \A p \in 1..MaxPaths : ~Live(p)

\* Before the server listens nothing was asked of the bus.
NothingBeforePort ==
  ~port => calls = <<>> /\ path = NoPath /\ ~stateListener /\ \A p \in 1..MaxPaths : ~Live(p)

\* resolved: what is registered is current, or an update is under way.
ResolvedCalls ==
  /\ ~stateListener
  /\ \A k \in DOMAIN calls :
       /\ calls[k].member \in {"RegisterService", "UnregisterService"}
       /\ calls[k].function = "start" => Is(k, "RegisterService")
       /\ calls[k].function = "destroy" => Is(k, "UnregisterService")
ResolvedAnnounces == \A p \in 1..MaxPaths : Live(p) => records[p].committed
ResolvedOnce == \A p, q \in 1..MaxPaths : Live(p) /\ Live(q) => p = q
UpdateWaits == \E k \in DOMAIN calls : calls[k].function = "update"
RegisteredIsCurrent ==
  /\ \A k \in DOMAIN calls : Is(k, "RegisterService") =>
       calls[k].txt = advertised \/ \E j \in DOMAIN calls : j > k /\ calls[j].function = "update"
  /\ Live(path) => records[path].txt = advertised \/ UpdateWaits
FirstRegistration ==
  \A k \in DOMAIN calls : calls[k].function = "start" =>
    k = 1 /\ path = NoPath /\ \A p \in 1..MaxPaths : ~Live(p)
ResolvedHasPath ==
  interrupted = "no" /\ port => IF path = NoPath THEN Waits("RegisterService") ELSE Live(path)

ResolvedIInv ==
  /\ ResolvedCalls /\ ResolvedAnnounces /\ ResolvedOnce /\ RegisteredIsCurrent /\ FirstRegistration
  /\ ResolvedHasPath /\ interrupted # "settled"

\* avahi: groups are made before any of them is filled, and filled before any is committed, all of
\* them by the path of the last one.
AvahiCalls ==
  \A k \in DOMAIN calls :
    /\ calls[k].member \in {"EntryGroupNew", "AddService", "Commit", "GetInterface", "UpdateServiceTxt", "Free"}
    /\ calls[k].function = "update" <=> Is(k, "UpdateServiceTxt")
    /\ calls[k].function = "destroy" <=> Is(k, "Free")
    /\ calls[k].member \in {"AddService", "Commit", "UpdateServiceTxt"} => calls[k].object # NoPath
    /\ calls[k].object # NoPath => path # NoPath
GroupsFirst ==
  \A k \in DOMAIN calls : Is(k, "EntryGroupNew") =>
    /\ \A j \in DOMAIN calls : j < k \/ Is(j, "Commit") => ~Live(calls[j].object)
    /\ \A p \in 1..MaxPaths : ~ServicesAnnounced(p)
FilledBeforeCommitted ==
  \A k \in DOMAIN calls : Is(k, "AddService") /\ Live(calls[k].object) =>
    /\ \A j \in DOMAIN calls : j < k /\ Is(j, "Commit") => ~Live(calls[j].object)
    /\ \A p \in 1..MaxPaths : ~ServicesAnnounced(p)
CommittedIsPath ==
  /\ \A k \in DOMAIN calls : Is(k, "Commit") /\ Live(calls[k].object) => calls[k].object = path
  /\ \A p \in 1..MaxPaths : ServicesAnnounced(p) => p = path
LastIsLive == \A p \in 1..MaxPaths : Live(p) => Live(path)
ToldIsCurrent ==
  Live(path) =>
    /\ records[path].txt = advertised \/ \E k \in DOMAIN calls : Tells(k)
    /\ \A k \in DOMAIN calls : Tells(k) =>
         calls[k].txt = advertised \/ \E j \in DOMAIN calls : j > k /\ Tells(j)
AvahiGoesOn ==
  interrupted = "no" /\ port =>
    \/ Waits("EntryGroupNew")
    \/ /\ Live(path)
       /\ \/ records[path].committed
          \/ \E k \in DOMAIN calls : calls[k].object = path /\ calls[k].member \in {"AddService", "Commit"}

AvahiQueue ==
  /\ GroupsFirst /\ FilledBeforeCommitted /\ CommittedIsPath /\ LastIsLive
  /\ ToldIsCurrent /\ AvahiGoesOn
AvahiIInv == AvahiCalls /\ (interrupted # "settled" => AvahiQueue)

BusBasics == PathsInOrder /\ DownHoldsNothing /\ NothingBeforePort

AdvertiserIInv ==
  /\ AdvertiserTypes
  /\ Alive =>
       /\ BusBasics
       /\ backend = "resolved" => ResolvedIInv
       /\ backend = "avahi" => AvahiIInv

\* A call is sent after the others.
LEMMA CallAppended ==
  ASSUME NEW S, NEW q \in Seq(S), NEW c \in S, NEW r, r = Append(q, c)
  PROVE  /\ r \in Seq(S) /\ DOMAIN r = 1..(Len(q) + 1) /\ DOMAIN q = 1..Len(q) /\ Len(q) \in Nat
         /\ \A k \in DOMAIN q : k \in DOMAIN r /\ r[k] = q[k]
         /\ \A k \in DOMAIN r : (k \in DOMAIN q /\ r[k] = q[k]) \/ (k = Len(q) + 1 /\ r[k] = c)
         /\ r[Len(q) + 1] = c /\ Len(q) + 1 \in DOMAIN r
         /\ r # <<>>
OBVIOUS

\* The oldest call was answered, and its function may make another.
Answers(q, r, more) ==
  /\ \A k \in DOMAIN q : k > 1 => k - 1 \in DOMAIN r /\ r[k - 1] = q[k]
  /\ \A k \in DOMAIN r :
       \/ k + 1 \in DOMAIN q /\ r[k] = q[k + 1]
       \/ k = Len(q) /\ more # <<>> /\ r[k] = more[1]
  /\ more # <<>> => Len(q) \in DOMAIN r /\ r[Len(q)] = more[1]

\* The queue after its oldest call is dropped, and another may be sent.
LEMMA CallAnswered ==
  ASSUME NEW S, NEW q \in Seq(S), q # <<>>, NEW more,
         more = <<>> \/ \E c \in S : more = <<c>>, NEW r, r = Tail(q) \o more
  PROVE  /\ r \in Seq(S) /\ DOMAIN q = 1..Len(q) /\ Len(q) \in Nat /\ Len(q) >= 1
         /\ DOMAIN r \subseteq 1..Len(q)
         /\ Answers(q, r, more)
<1>1. Len(q) \in Nat /\ Len(q) >= 1 /\ DOMAIN q = 1..Len(q)
  BY EmptySeq
<1>2. /\ Tail(q) \in Seq(S) /\ Len(Tail(q)) = Len(q) - 1
      /\ \A k \in 1..(Len(q) - 1) : Tail(q)[k] = q[k + 1]
  BY HeadTailProperties
<1>3. PICK t \in Seq(S) : t = Tail(q)
  BY <1>2
<1>4. CASE more = <<>>
  <2>1. r = t
    BY <1>3, <1>4
  <2> QED
    BY <1>1, <1>2, <1>3, <1>4, <2>1 DEF Answers
<1>5. CASE \E c \in S : more = <<c>>
  <2>1. PICK c \in S : more = <<c>>
    BY <1>5
  <2>2. more \in Seq(S) /\ Len(more) = 1 /\ more[1] = c /\ more # <<>>
    BY <2>1
  <2>3. PICK m \in Seq(S) : m = more /\ Len(m) = 1
    BY <2>2
  <2>9. /\ t \o m \in Seq(S) /\ Len(t \o m) = Len(t) + Len(m)
        /\ \A k \in 1..(Len(t) + Len(m)) : (t \o m)[k] = IF k <= Len(t) THEN t[k] ELSE m[k - Len(t)]
    BY ONLY t \in Seq(S), m \in Seq(S), ConcatProperties, Zenon
  <2>4. /\ t \o m \in Seq(S) /\ Len(t \o m) = Len(t) + 1
        /\ \A k \in 1..(Len(t) + 1) : (t \o m)[k] = IF k <= Len(t) THEN t[k] ELSE m[k - Len(t)]
    BY <2>3, <2>9
  <2>5. r = t \o m
    BY <1>3, <2>3
  <2>6. r \in Seq(S) /\ Len(r) = Len(q)
    BY <1>1, <1>2, <1>3, <2>4, <2>5
  <2>7. \A k \in 1..Len(q) : r[k] = IF k <= Len(q) - 1 THEN q[k + 1] ELSE c
    BY <1>1, <1>2, <1>3, <2>2, <2>3, <2>4, <2>5
  <2> QED
    BY <1>1, <2>2, <2>6, <2>7 DEF Answers
<1> QED
  BY <1>4, <1>5

\* What is known when an answer is there.
Answering(c, ok) ==
  /\ c \in CallType /\ c = calls[1] /\ 1 \in DOMAIN calls
  /\ ok = Accepts(c)

\* The calls that wait are calls.
LEMMA CallTypes ==
  ASSUME AdvertiserTypes
  PROVE  /\ \A k \in DOMAIN calls : calls[k] \in CallType
         /\ calls # <<>> => 1 \in DOMAIN calls /\ Head(calls) = calls[1]
         /\ DOMAIN calls = 1..Len(calls) /\ Len(calls) \in Nat
<1>1. calls \in Seq(CallType)
  BY DEF AdvertiserTypes
<1>2. \A k \in DOMAIN calls : calls[k] \in CallType
  BY <1>1, ElementOfSeq
<1>3. calls # <<>> => Len(calls) >= 1
  BY <1>1, EmptySeq
<1> QED
  BY <1>1, <1>2, <1>3

\* The call a function makes next.
LEMMA NextCallType ==
  ASSUME AdvertiserTypes, NEW c \in CallType, NEW ok \in BOOLEAN, NEW p \in BusObjects
  PROVE  CallContinues(c, ok, p) = <<>> \/ \E d \in CallType : CallContinues(c, ok, p) = <<d>>
<1>1. advertised \in 0..MaxTxt /\ NoPath \in BusObjects
  BY DEF AdvertiserTypes, BusObjects
<1>2. /\ c.function \in {"start", "update", "destroy"} /\ c.txt \in 0..MaxTxt
  BY DEF CallType
<1>3. /\ Call("AddService", c.function, p, advertised) \in CallType
      /\ Call("Commit", c.function, p, c.txt) \in CallType
      /\ Call("GetInterface", c.function, NoPath, c.txt) \in CallType
      /\ Call("RegisterService", "update", NoPath, advertised) \in CallType
  BY <1>1, <1>2 DEF Call, CallType, Members
<1> QED
  BY <1>3 DEF CallContinues

\* An answer is a result or an error.
LEMMA AcceptsIsBoolean == \A c : Accepts(c) \in BOOLEAN
BY DEF Accepts

\* The step that answers c with ok, and makes the call in more.
AnswerStep(c, ok, more) ==
  /\ calls # <<>> /\ 1 \in DOMAIN calls /\ c = calls[1] /\ ok = Accepts(c)
  /\ New(c) /\ ok => nextPath <= MaxPaths
  /\ nextPath' = IF New(c) /\ ok THEN nextPath + 1 ELSE nextPath
  /\ records' = IF ok THEN Effect(c) ELSE records
  /\ path' = PathAfter(c, ok) /\ path' \in BusObjects
  /\ unhandled' = (c.member = "RegisterService" /\ c.function = "update" /\ ~ok)
  /\ interrupted' = IF interrupted = "stopped" /\ ok /\ c.member \in {"RegisterService", "Commit"}
                    THEN "no" ELSE interrupted
  /\ more = CallContinues(c, ok, path')
  /\ more = <<>> \/ \E d \in CallType : more = <<d>>
  /\ c.function = "destroy" => CloseBus
  /\ c.function # "destroy" =>
       /\ calls' = Tail(calls) \o more
       /\ stateListener' = (stateListener \/ (c.member = "GetInterface" /\ ok))
       /\ bus' = bus
  /\ backend' = backend /\ advertised' = advertised /\ port' = port /\ daemon' = daemon

\* Each answer is such a step.
LEMMA AnswerParts ==
  ASSUME AdvertiserTypes, Answered
  PROVE  \E c \in CallType, ok \in BOOLEAN, more \in Seq(CallType) : AnswerStep(c, ok, more)
<1>1. calls # <<>> /\ 1 \in DOMAIN calls /\ Head(calls) = calls[1] /\ calls[1] \in CallType
  BY CallTypes DEF Answered
<1>2. PICK c \in CallType, ok \in BOOLEAN : c = Head(calls) /\ ok = Accepts(c)
  BY <1>1, AcceptsIsBoolean
<1>3. /\ New(c) /\ ok => nextPath <= MaxPaths
      /\ nextPath' = IF New(c) /\ ok THEN nextPath + 1 ELSE nextPath
      /\ records' = IF ok THEN Effect(c) ELSE records
      /\ path' = PathAfter(c, ok)
      /\ unhandled' = (c.member = "RegisterService" /\ c.function = "update" /\ ~ok)
      /\ interrupted' = IF interrupted = "stopped" /\ ok /\ c.member \in {"RegisterService", "Commit"}
                        THEN "no" ELSE interrupted
      /\ c.function = "destroy" => CloseBus
      /\ c.function # "destroy" =>
           /\ calls' = Tail(calls) \o CallContinues(c, ok, path')
           /\ stateListener' = (stateListener \/ (c.member = "GetInterface" /\ ok))
           /\ bus' = bus
      /\ backend' = backend /\ advertised' = advertised /\ port' = port /\ daemon' = daemon
  BY <1>2 DEF Answered
<1>4. path' \in BusObjects
  BY <1>3 DEF PathAfter, AdvertiserTypes, BusObjects
<1>5. PICK more : more = CallContinues(c, ok, path')
  OBVIOUS
<1>6. more = <<>> \/ \E d \in CallType : more = <<d>>
  BY <1>4, <1>5, NextCallType
<1>7. c = calls[1]
  BY <1>1, <1>2
<1>9. more \in Seq(CallType)
  <2>1. <<>> \in Seq(CallType) /\ \A d \in CallType : <<d>> \in Seq(CallType)
    OBVIOUS
  <2> QED
    BY <1>6, <2>1, Zenon
<1>8. AnswerStep(c, ok, more)
  BY <1>1, <1>2, <1>3, <1>4, <1>5, <1>6, <1>7 DEF AnswerStep
<1> QED
  BY <1>8, <1>9

\* The call a registration begins with.
LEMMA FirstCallType ==
  ASSUME AdvertiserTypes, NEW f \in {"start", "update", "destroy"}
  PROVE  FirstCall(f) \in CallType
<1>1. advertised \in 0..MaxTxt /\ NoPath \in BusObjects
  BY DEF AdvertiserTypes, BusObjects
<1> QED
  BY <1>1 DEF FirstCall, Call, CallType, Members

\* What was asked leaves records.
LEMMA EffectType ==
  ASSUME AdvertiserTypes, NEW c \in CallType, Accepts(c), New(c) => nextPath <= MaxPaths
  PROVE  Effect(c) \in [1..MaxPaths -> DaemonRecord \cup {NoPath}]
<1>1. records \in [1..MaxPaths -> DaemonRecord \cup {NoPath}] /\ MaxPaths \in Nat /\ NoPath \notin Nat
  BY AdvertiserAssumption DEF AdvertiserTypes
<1>2. c.txt \in 0..MaxTxt /\ c.object \in BusObjects /\ c.member \in Members
  BY DEF CallType
<1>3. CASE New(c)
  <2>1. [txt |-> c.txt, committed |-> TRUE] \in DaemonRecord /\ [txt |-> c.txt, committed |-> FALSE] \in DaemonRecord
    BY <1>2 DEF DaemonRecord
  <2>2. nextPath \in 1..MaxPaths
    BY <1>3, <1>1 DEF AdvertiserTypes
  <2> QED
    BY <1>1, <1>3, <2>1, <2>2 DEF Effect, New
<1>4. CASE c.member \in {"AddService", "UpdateServiceTxt"}
  <2>1. Effect(c) = [records EXCEPT ![c.object].txt = c.txt]
    BY <1>4 DEF Effect
  <2>2. records[c.object] # NoPath
    BY <1>4 DEF Accepts
  <2>3. CASE c.object \in 1..MaxPaths
    <3>1. records[c.object] \in DaemonRecord
      BY <1>1, <2>2, <2>3
    <3>2. [records[c.object] EXCEPT !.txt = c.txt] \in DaemonRecord
      BY <1>2, <3>1 DEF DaemonRecord
    <3> QED
      BY <1>1, <2>1, <2>3, <3>2
  <2>4. CASE c.object \notin 1..MaxPaths
    BY <1>1, <2>1, <2>4
  <2> QED
    BY <2>3, <2>4
<1>5. CASE c.member = "Commit"
  <2>1. Effect(c) = [records EXCEPT ![c.object].committed = TRUE]
    BY <1>5 DEF Effect
  <2>2. records[c.object] # NoPath
    BY <1>5 DEF Accepts
  <2>3. CASE c.object \in 1..MaxPaths
    <3>1. records[c.object] \in DaemonRecord
      BY <1>1, <2>2, <2>3
    <3>2. [records[c.object] EXCEPT !.committed = TRUE] \in DaemonRecord
      BY <1>2, <3>1 DEF DaemonRecord
    <3> QED
      BY <1>1, <2>1, <2>3, <3>2
  <2>4. CASE c.object \notin 1..MaxPaths
    BY <1>1, <2>1, <2>4
  <2> QED
    BY <2>3, <2>4
<1>6. CASE c.member \in {"UnregisterService", "Free"}
  BY <1>1, <1>6 DEF Effect
<1>7. CASE c.member = "GetInterface"
  BY <1>1, <1>7 DEF Effect
<1> QED
  BY <1>2, <1>3, <1>4, <1>5, <1>6, <1>7 DEF Members, New

\* The types at the start.
LEMMA AdvertiserTypesInit == AdvertiserInit => AdvertiserTypes
<1> SUFFICES ASSUME AdvertiserInit PROVE AdvertiserTypes
  OBVIOUS
<1>1. calls \in Seq(CallType) /\ path \in BusObjects
  BY DEF AdvertiserInit, BusObjects
<1>2. records \in [1..MaxPaths -> DaemonRecord \cup {NoPath}]
  BY DEF AdvertiserInit
<1>3. advertised \in 0..MaxTxt /\ nextPath \in 1..(MaxPaths + 1)
  BY AdvertiserAssumption DEF AdvertiserInit
<1> QED
  BY <1>1, <1>2, <1>3 DEF AdvertiserInit, AdvertiserTypes

\* Each step keeps the types.
LEMMA AdvertiserTypesPreserved == AdvertiserTypes /\ [AdvertiserNext]_advertiserVars => AdvertiserTypes'
<1> SUFFICES ASSUME AdvertiserTypes, [AdvertiserNext]_advertiserVars PROVE AdvertiserTypes'
  OBVIOUS
<1>0. calls \in Seq(CallType) /\ MaxPaths \in Nat /\ MaxTxt \in Nat /\ advertised \in 0..MaxTxt
  BY AdvertiserAssumption DEF AdvertiserTypes
<1>1. CASE StartAdvertising
  <2>1. calls' \in Seq(CallType)
    BY <1>0, <1>1, FirstCallType, CallAppended DEF StartAdvertising
  <2> QED
    BY <1>1, <2>1 DEF StartAdvertising, AdvertiserTypes, BusObjects, DaemonRecord, CallType
<1>2. CASE UpdateAdvertisement
  <2>1. advertised' \in 0..MaxTxt
    BY <1>0, <1>2 DEF UpdateAdvertisement
  <2>2. path \in BusObjects /\ NoPath \in BusObjects
    BY DEF AdvertiserTypes, BusObjects
  <2>3. /\ Call("UpdateServiceTxt", "update", path, advertised') \in CallType
        /\ Call("UnregisterService", "update", path, advertised') \in CallType
        /\ Call("RegisterService", "update", NoPath, advertised') \in CallType
    BY <2>1, <2>2 DEF Call, CallType, Members
  <2>4. calls' = calls \/ \E c \in CallType : calls' = Append(calls, c)
    BY <1>2, <2>3 DEF UpdateAdvertisement
  <2>5. calls' \in Seq(CallType)
    BY <1>0, <2>4, CallAppended
  <2>6. unhandled' \in BOOLEAN
    BY <1>2 DEF UpdateAdvertisement
  <2> QED
    BY <1>2, <2>1, <2>5, <2>6 DEF UpdateAdvertisement, AdvertiserTypes, BusObjects, DaemonRecord, CallType
<1>3. CASE DestroyAdvertiser
  <2>1. calls' \in Seq(CallType) /\ bus' \in BOOLEAN /\ stateListener' \in BOOLEAN
    <3>1. CASE path # NoPath
      <4>1. Call(IF backend = "avahi" THEN "Free" ELSE "UnregisterService", "destroy", path, advertised) \in CallType
        BY DEF Call, CallType, Members, AdvertiserTypes
      <4> QED
        BY <1>0, <1>3, <3>1, <4>1, CallAppended DEF DestroyAdvertiser, AdvertiserTypes
    <3>2. CASE path = NoPath
      <4>1. calls' = <<>> /\ bus' = FALSE /\ stateListener' = FALSE
        BY <1>3, <3>2 DEF DestroyAdvertiser, CloseBus
      <4>2. <<>> \in Seq(CallType)
        OBVIOUS
      <4>3. calls' \in Seq(CallType)
        BY <4>1, <4>2
      <4>4. bus' \in BOOLEAN /\ stateListener' \in BOOLEAN
        BY <4>1
      <4> QED
        BY <4>3, <4>4
    <3> QED
      BY <3>1, <3>2
  <2> QED
    BY <1>3, <2>1 DEF DestroyAdvertiser, AdvertiserTypes, BusObjects, DaemonRecord, CallType
<1>4. CASE Answered
  <2>8. PICK c \in CallType, ok \in BOOLEAN, more \in Seq(CallType) : AnswerStep(c, ok, more)
    BY <1>4, AnswerParts
  <2>2. calls' \in Seq(CallType)
    <3>1. CASE c.function = "destroy"
      BY <2>8, <3>1 DEF AnswerStep, CloseBus
    <3>2. CASE c.function # "destroy"
      BY <1>0, <2>8, <3>2, CallAnswered DEF AnswerStep
    <3> QED
      BY <3>1, <3>2
  <2>3. records' \in [1..MaxPaths -> DaemonRecord \cup {NoPath}]
    BY <2>8, EffectType DEF AnswerStep, AdvertiserTypes
  <2>4. nextPath' \in 1..(MaxPaths + 1)
    BY <1>0, <2>8 DEF AnswerStep, AdvertiserTypes
  <2>5. bus' \in BOOLEAN /\ stateListener' \in BOOLEAN
    BY <2>8 DEF AnswerStep, CloseBus, AdvertiserTypes
  <2>6. interrupted' \in {"no", "stopped", "settled"} /\ unhandled' \in BOOLEAN
    BY <2>8 DEF AnswerStep, AdvertiserTypes
  <2>7. calls' \in Seq(CallType)'
    BY <2>2 DEF CallType, BusObjects, Members
  <2> QED
    BY <2>8, <2>3, <2>4, <2>5, <2>6, <2>7 DEF AnswerStep, AdvertiserTypes, BusObjects, DaemonRecord
<1>5. CASE DaemonStops
  BY <1>5 DEF DaemonStops, AdvertiserTypes, BusObjects, DaemonRecord, CallType
<1>6. CASE DaemonStarts
  <2>1. calls' \in Seq(CallType)
    BY <1>0, <1>6, FirstCallType, CallAppended DEF DaemonStarts, HandleStateChanged
  <2> QED
    BY <1>6, <2>1 DEF DaemonStarts, AdvertiserTypes, BusObjects, DaemonRecord, CallType
<1>7. CASE HostNameSettled
  <2>1. calls' \in Seq(CallType)
    BY <1>0, <1>7, FirstCallType, CallAppended DEF HostNameSettled, HandleStateChanged
  <2> QED
    BY <1>7, <2>1 DEF HostNameSettled, AdvertiserTypes, BusObjects, DaemonRecord, CallType
<1>8. CASE UNCHANGED advertiserVars
  BY <1>8 DEF advertiserVars, AdvertiserTypes, BusObjects, DaemonRecord, CallType
<1> QED
  BY <1>1, <1>2, <1>3, <1>4, <1>5, <1>6, <1>7, <1>8 DEF AdvertiserNext

\* A record that is committed keeps what it announces.
LEMMA RecordCommitted ==
  ASSUME NEW r \in DaemonRecord
  PROVE  [r EXCEPT !.committed = TRUE] = [txt |-> r.txt, committed |-> TRUE]
<1>1. PICK b \in BOOLEAN : b = TRUE
  OBVIOUS
<1>2. [r EXCEPT !.committed = b] = [txt |-> r.txt, committed |-> b]
  BY DEF DaemonRecord
<1> QED
  BY <1>1, <1>2

\* What the daemon holds for each object after it did what was asked.
LEMMA EffectOf ==
  ASSUME AdvertiserTypes, NEW c \in CallType, Accepts(c), NEW p \in 1..MaxPaths, NEW e, e = Effect(c)
  PROVE  /\ c.member = "RegisterService" =>
              e[p] = IF p = nextPath THEN [txt |-> c.txt, committed |-> TRUE] ELSE records[p]
         /\ c.member = "EntryGroupNew" =>
              e[p] = IF p = nextPath THEN [txt |-> c.txt, committed |-> FALSE] ELSE records[p]
         /\ c.member \in {"AddService", "UpdateServiceTxt"} =>
              e[p] = IF p = c.object THEN [txt |-> c.txt, committed |-> records[p].committed] ELSE records[p]
         /\ c.member = "Commit" =>
              e[p] = IF p = c.object THEN [txt |-> records[p].txt, committed |-> TRUE] ELSE records[p]
         /\ c.member \in {"UnregisterService", "Free"} =>
              e[p] = IF p = c.object THEN NoPath ELSE records[p]
         /\ c.member = "GetInterface" => e[p] = records[p]
<1>1. records \in [1..MaxPaths -> DaemonRecord \cup {NoPath}]
  BY DEF AdvertiserTypes
<1>2. ASSUME p = c.object, c.member \in {"AddService", "UpdateServiceTxt", "Commit"}
      PROVE  records[p] \in DaemonRecord
  BY <1>1, <1>2 DEF Accepts
<1>3. CASE c.member = "RegisterService"
  BY <1>1, <1>3 DEF Effect
<1>4. CASE c.member = "EntryGroupNew"
  BY <1>1, <1>4 DEF Effect
<1>5. CASE c.member \in {"AddService", "UpdateServiceTxt"}
  <2>1. e = [records EXCEPT ![c.object].txt = c.txt]
    BY <1>5 DEF Effect
  <2>2. p = c.object => [records[p] EXCEPT !.txt = c.txt] = [txt |-> c.txt, committed |-> records[p].committed]
    BY <1>2, <1>5 DEF DaemonRecord
  <2> QED
    BY <1>1, <1>5, <2>1, <2>2
<1>6. CASE c.member = "Commit"
  <2>1. e = [records EXCEPT ![c.object].committed = TRUE]
    BY <1>6 DEF Effect
  <2>2. p = c.object => [records[p] EXCEPT !.committed = TRUE] = [txt |-> records[p].txt, committed |-> TRUE]
    BY <1>2, <1>6, RecordCommitted
  <2> QED
    BY <1>1, <1>6, <2>1, <2>2
<1>7. CASE c.member \in {"UnregisterService", "Free"}
  BY <1>1, <1>7 DEF Effect
<1>8. CASE c.member = "GetInterface"
  BY <1>8 DEF Effect
<1> QED
  BY <1>3, <1>4, <1>5, <1>6, <1>7, <1>8 DEF CallType, Members

\* An answer only brings an object to life that the daemon has just made.
LEMMA LiveAfter ==
  ASSUME AdvertiserTypes, NEW c \in CallType, NEW ok \in BOOLEAN, NEW more, AnswerStep(c, ok, more), NEW p \in 1..MaxPaths
  PROVE  /\ Live(p)' => Live(p) \/ (New(c) /\ ok /\ p = nextPath)
         /\ ok /\ New(c) /\ p = nextPath => Live(p)'
         /\ Live(p) /\ c.member \notin {"UnregisterService", "Free"} /\ (New(c) => p # nextPath) => Live(p)'
<1>1. records' = IF ok THEN Effect(c) ELSE records
  BY DEF AnswerStep
<1>2. ok => Accepts(c)
  BY DEF AnswerStep
<1>3. NoPath \notin Nat /\ NoPath \notin DaemonRecord
  BY AdvertiserAssumption DEF DaemonRecord
<1>4. records[p] \in DaemonRecord \cup {NoPath}
  BY DEF AdvertiserTypes
<1>5. c.txt \in 0..MaxTxt /\ c.member \in Members
  BY DEF CallType
<1>6. \A b \in BOOLEAN : [txt |-> c.txt, committed |-> b] # NoPath
  BY <1>3, <1>5 DEF DaemonRecord
<1>7. records[p] # NoPath => [txt |-> c.txt, committed |-> records[p].committed] # NoPath
  BY <1>4, <1>6 DEF DaemonRecord
<1>8. records[p] # NoPath => [txt |-> records[p].txt, committed |-> TRUE] # NoPath
  <2>1. records[p] # NoPath => [records[p] EXCEPT !.committed = TRUE] \in DaemonRecord
    BY <1>4 DEF DaemonRecord
  <2> QED
    BY <2>1, <1>3, <1>4, RecordCommitted
<1>9. CASE ~ok
  BY <1>1, <1>9 DEF Live
<1>10. CASE ok
  <2>1. Accepts(c)
    BY <1>2, <1>10
  <2>2. PICK e : e = Effect(c) /\ records' = e
    BY <1>1, <1>10
  <2>3. CASE New(c)
    <3>1. \E b \in BOOLEAN : e[p] = IF p = nextPath THEN [txt |-> c.txt, committed |-> b] ELSE records[p]
      BY <2>1, <2>2, <2>3, EffectOf DEF New
    <3>2. e[p] = records[p] \/ (p = nextPath /\ e[p] # NoPath)
      BY <1>6, <3>1
    <3>3. p = nextPath => e[p] # NoPath
      BY <1>6, <3>1
    <3> QED
      BY <1>10, <2>2, <2>3, <3>2, <3>3 DEF Live, New
  <2>4. CASE c.member \in {"AddService", "UpdateServiceTxt"}
    <3>1. e[p] = records[p] \/ e[p] = [txt |-> c.txt, committed |-> records[p].committed]
      BY <2>1, <2>2, <2>4, EffectOf
    <3>2. p = c.object => records[p] # NoPath
      BY <2>1, <2>4 DEF Accepts
    <3>3. p # c.object => e[p] = records[p]
      BY <2>1, <2>2, <2>4, EffectOf
    <3>4. e[p] # NoPath <=> records[p] # NoPath
      BY <1>7, <3>1, <3>2, <3>3
    <3> QED
      BY <2>2, <2>4, <3>4 DEF Live, New
  <2>5. CASE c.member = "Commit"
    <3>1. e[p] = IF p = c.object THEN [txt |-> records[p].txt, committed |-> TRUE] ELSE records[p]
      BY <2>1, <2>2, <2>5, EffectOf, Zenon
    <3>2. p = c.object => records[p] # NoPath
      BY <2>1, <2>5 DEF Accepts
    <3>4. e[p] # NoPath <=> records[p] # NoPath
      BY <1>8, <3>1, <3>2
    <3> QED
      BY <2>2, <2>5, <3>4 DEF Live, New
  <2>6. CASE c.member \in {"UnregisterService", "Free", "GetInterface"}
    <3>1. e[p] = records[p] \/ (e[p] = NoPath /\ c.member \in {"UnregisterService", "Free"})
      BY <2>1, <2>2, <2>6, EffectOf
    <3>2. ~New(c)
      BY <2>6 DEF New
    <3>3. records' = e
      BY <2>2
    <3> QED
      BY <3>1, <3>2, <3>3 DEF Live
  <2> QED
    BY <1>5, <2>3, <2>4, <2>5, <2>6 DEF New, Members
<1> QED
  BY <1>9, <1>10

\* The queue after an answer, as long as the bus is not closed.
LEMMA AnswerQueue ==
  ASSUME AdvertiserTypes, NEW c \in CallType, NEW ok \in BOOLEAN, NEW more, AnswerStep(c, ok, more), Alive'
  PROVE  /\ c.function # "destroy" /\ ~unhandled' /\ (c.member = "RegisterService" /\ c.function = "update" => ok)
         /\ c = calls[1] /\ 1 \in DOMAIN calls
         /\ DOMAIN calls = 1..Len(calls) /\ Len(calls) \in Nat /\ Len(calls) >= 1
         /\ DOMAIN calls' \subseteq 1..Len(calls)
         /\ Answers(calls, calls', more)
         /\ stateListener' = (stateListener \/ (c.member = "GetInterface" /\ ok))
<1>1. c.function # "destroy" /\ ~unhandled'
  BY DEF AnswerStep, CloseBus, Alive
<1>2. calls \in Seq(CallType) /\ calls # <<>> /\ (more = <<>> \/ \E d \in CallType : more = <<d>>)
  BY DEF AdvertiserTypes, AnswerStep
<1>3. calls' = Tail(calls) \o more
  BY <1>1 DEF AnswerStep
<1>4. /\ DOMAIN calls = 1..Len(calls) /\ Len(calls) \in Nat /\ Len(calls) >= 1
      /\ DOMAIN calls' \subseteq 1..Len(calls)
      /\ Answers(calls, calls', more)
  BY ONLY <1>2, <1>3, CallAnswered
<1> QED
  BY <1>1, <1>4 DEF AnswerStep

\* The call a function makes next is one for the current path, or for none.
LEMMA MoreIsSent ==
  ASSUME AdvertiserTypes, NEW c \in CallType, NEW ok \in BOOLEAN, NEW more, AnswerStep(c, ok, more), more # <<>>
  PROVE  /\ more[1].object \in {path', NoPath}
         /\ \/ /\ c.member = "EntryGroupNew" /\ ok
               /\ more[1] = Call("AddService", c.function, path', advertised)
            \/ /\ c.member = "AddService" /\ ok
               /\ more[1] = Call("Commit", c.function, path', c.txt)
            \/ /\ c.member = "Commit" /\ ok
               /\ more[1] = Call("GetInterface", c.function, NoPath, c.txt)
            \/ /\ c.member = "UnregisterService" /\ c.function = "update"
               /\ more[1] = Call("RegisterService", "update", NoPath, advertised)
<1>1. more = CallContinues(c, ok, path')
  BY DEF AnswerStep
<1>2. PICK d \in CallType : more = <<d>>
  BY DEF AnswerStep
<1>3. more[1] = d
  BY <1>2
<1>4. \/ /\ c.member = "EntryGroupNew" /\ ok
         /\ more = <<Call("AddService", c.function, path', advertised)>>
      \/ /\ c.member = "AddService" /\ ok
         /\ more = <<Call("Commit", c.function, path', c.txt)>>
      \/ /\ c.member = "Commit" /\ ok
         /\ more = <<Call("GetInterface", c.function, NoPath, c.txt)>>
      \/ /\ c.member = "UnregisterService" /\ c.function = "update"
         /\ more = <<Call("RegisterService", "update", NoPath, advertised)>>
  BY <1>1 DEF CallContinues
<1>5. more[1].object \in {path', NoPath}
  BY <1>3, <1>4 DEF Call
<1> QED
  BY <1>3, <1>4, <1>5

\* Each step uses a path once, and a daemon that is down holds nothing.
LEMMA BasicsPreserved ==
  ASSUME AdvertiserTypes, BusBasics, Alive, Alive', AdvertiserNext, AdvertiserTypes'
  PROVE  BusBasics'
<1>0. /\ calls \in Seq(CallType) /\ MaxPaths \in Nat /\ nextPath \in Nat /\ NoPath \notin Nat /\ nextPath \in 1..(MaxPaths + 1)
      /\ path \in BusObjects
  BY AdvertiserAssumption DEF AdvertiserTypes
<1> USE DEF BusBasics
<1>1. CASE StartAdvertising
  <2>1. calls = <<>> /\ calls' = Append(calls, FirstCall("start")) /\ FirstCall("start") \in CallType
    BY <1>1, FirstCallType DEF StartAdvertising, NothingBeforePort
  <2>2. FirstCall("start").object = NoPath
    BY DEF FirstCall, Call
  <2>3. \A k \in DOMAIN calls' : calls'[k].object = NoPath
    BY <1>0, <2>1, <2>2, CallAppended
  <2>4. PathsInOrder'
    BY <1>1, <2>3 DEF StartAdvertising, PathsInOrder, Live
  <2> QED
    BY <1>1, <2>4 DEF StartAdvertising, DownHoldsNothing, NothingBeforePort, Live
<1>2. CASE UpdateAdvertisement
  <2>1. calls' = calls \/ \E c \in CallType : c.object \in {path, NoPath} /\ calls' = Append(calls, c) /\ (path # NoPath \/ port)
    <3>1. advertised' \in 0..MaxTxt /\ NoPath \in BusObjects
      BY DEF AdvertiserTypes, BusObjects
    <3>2. /\ Call("UpdateServiceTxt", "update", path, advertised') \in CallType
          /\ Call("UnregisterService", "update", path, advertised') \in CallType
          /\ Call("RegisterService", "update", NoPath, advertised') \in CallType
      BY <1>0, <3>1 DEF Call, CallType, Members
    <3>3. /\ Call("UpdateServiceTxt", "update", path, advertised').object = path
          /\ Call("UnregisterService", "update", path, advertised').object = path
          /\ Call("RegisterService", "update", NoPath, advertised').object = NoPath
      BY DEF Call
    <3> QED
      BY <1>2, <3>2, <3>3 DEF UpdateAdvertisement
  <2>2. \A k \in DOMAIN calls' : calls'[k].object # NoPath => calls'[k].object < nextPath
    BY <1>0, <2>1, CallAppended DEF PathsInOrder
  <2>3. PathsInOrder'
    BY <1>2, <2>2 DEF UpdateAdvertisement, PathsInOrder, Live
  <2>4. NothingBeforePort'
    BY <1>2, <2>1 DEF UpdateAdvertisement, NothingBeforePort, Live
  <2> QED
    BY <1>2, <2>3, <2>4 DEF UpdateAdvertisement, DownHoldsNothing, Live
<1>3. CASE DestroyAdvertiser
  <2>1. path # NoPath
    BY <1>3 DEF DestroyAdvertiser, CloseBus, Alive
  <2>2. PICK c \in CallType : c.object = path /\ calls' = Append(calls, c)
    <3>1. Call(IF backend = "avahi" THEN "Free" ELSE "UnregisterService", "destroy", path, advertised) \in CallType
      BY DEF Call, CallType, Members, AdvertiserTypes
    <3> QED
      BY <1>3, <2>1, <3>1 DEF DestroyAdvertiser, Call
  <2>3. \A k \in DOMAIN calls' : calls'[k].object # NoPath => calls'[k].object < nextPath
    BY <1>0, <2>1, <2>2, CallAppended DEF PathsInOrder
  <2>4. PathsInOrder'
    BY <1>3, <2>3 DEF DestroyAdvertiser, PathsInOrder, Live
  <2> QED
    BY <1>3, <2>1, <2>4 DEF DestroyAdvertiser, DownHoldsNothing, NothingBeforePort, Live
<1>4. CASE Answered
  <2>1. PICK c \in CallType, ok \in BOOLEAN, more \in Seq(CallType) : AnswerStep(c, ok, more)
    BY <1>4, AnswerParts
  <2>2. \A p \in 1..MaxPaths : Live(p)' => Live(p) \/ (New(c) /\ ok /\ p = nextPath)
    BY <2>1, LiveAfter
  <2>3. /\ nextPath' = IF New(c) /\ ok THEN nextPath + 1 ELSE nextPath
        /\ path' = PathAfter(c, ok)
    BY <2>1 DEF AnswerStep
  <2>4. nextPath' \in Nat /\ nextPath <= nextPath'
    BY <1>0, <2>3
  <2>5. path' # NoPath => path' < nextPath'
    BY <1>0, <2>3 DEF PathAfter, PathsInOrder, BusObjects
  <2>6. \A k \in DOMAIN calls' : calls'[k].object # NoPath => calls'[k].object < nextPath'
    <3> SUFFICES ASSUME NEW k \in DOMAIN calls', calls'[k].object # NoPath
                 PROVE  calls'[k].object < nextPath'
      OBVIOUS
    <3>1. Answers(calls, calls', more)
      BY <2>1, AnswerQueue
    <3>2. CASE k + 1 \in DOMAIN calls /\ calls'[k] = calls[k + 1]
      <4>1. calls[k + 1] \in CallType
        BY <3>2, CallTypes
      <4>2. calls[k + 1].object \in Nat /\ calls[k + 1].object < nextPath
        BY <3>2, <4>1 DEF CallType, BusObjects, PathsInOrder
      <4> QED
        BY <1>0, <2>4, <3>2, <4>2
    <3>3. CASE more # <<>> /\ calls'[k] = more[1]
      <4>1. more[1].object \in {path', NoPath}
        BY <2>1, <3>3, MoreIsSent
      <4> QED
        BY <2>5, <3>3, <4>1
    <3> QED
      BY <3>1, <3>2, <3>3 DEF Answers
  <2>7. PathsInOrder'
    <3>1. \A p \in 1..MaxPaths : Live(p)' => p < nextPath'
      BY <1>0, <2>2, <2>3, <2>4 DEF PathsInOrder
    <3> QED
      BY <2>5, <2>6, <3>1 DEF PathsInOrder
  <2>8. DownHoldsNothing'
    <3>1. daemon' = daemon /\ (~daemon => ~ok)
      BY <2>1 DEF AnswerStep, Accepts
    <3>2. ~ok => interrupted' = interrupted /\ records' = records
      BY <2>1 DEF AnswerStep
    <3> QED
      BY <3>1, <3>2 DEF DownHoldsNothing, Live
  <2>9. port /\ port' = port
    BY <2>1 DEF AnswerStep, NothingBeforePort
  <2> QED
    BY <2>7, <2>8, <2>9 DEF NothingBeforePort
<1>5. CASE DaemonStops
  <2>1. \A p \in 1..MaxPaths : ~Live(p)'
    BY <1>5 DEF DaemonStops, Live
  <2> QED
    BY <1>5, <2>1 DEF DaemonStops, PathsInOrder, DownHoldsNothing, NothingBeforePort
<1>6. ASSUME DaemonStarts \/ HostNameSettled PROVE BusBasics'
  <2>1. calls' = calls \/ (calls' = Append(calls, FirstCall("start")) /\ path # NoPath)
    BY <1>6 DEF DaemonStarts, HostNameSettled, HandleStateChanged
  <2>2. FirstCall("start") \in CallType /\ FirstCall("start").object = NoPath
    BY FirstCallType DEF FirstCall, Call
  <2>3. \A k \in DOMAIN calls' : calls'[k].object # NoPath => calls'[k].object < nextPath
    BY <1>0, <2>1, <2>2, CallAppended DEF PathsInOrder
  <2>4. UNCHANGED <<path, records, nextPath, port, stateListener>> /\ daemon'
    BY <1>6 DEF DaemonStarts, HostNameSettled
  <2>5. PathsInOrder'
    BY <2>3, <2>4 DEF PathsInOrder, Live
  <2> QED
    BY <2>1, <2>4, <2>5 DEF DownHoldsNothing, NothingBeforePort, Live
<1> QED
  BY <1>1, <1>2, <1>3, <1>4, <1>5, <1>6 DEF AdvertiserNext

\* resolved: what an answer leaves.
LEMMA ResolvedAnswered ==
  ASSUME AdvertiserTypes, BusBasics, ResolvedIInv, Alive, Alive', Answered
  PROVE  ResolvedIInv'
<1> USE DEF ResolvedIInv
<1>0. /\ MaxPaths \in Nat /\ NoPath \notin Nat /\ nextPath \in Nat
      /\ path \in BusObjects
  BY AdvertiserAssumption DEF AdvertiserTypes
<1>1. PICK c \in CallType, ok \in BOOLEAN, more \in Seq(CallType) : AnswerStep(c, ok, more)
  BY AnswerParts
<1>2. /\ c.function # "destroy" /\ (c.member = "RegisterService" /\ c.function = "update" => ok)
      /\ c = calls[1] /\ 1 \in DOMAIN calls
      /\ DOMAIN calls = 1..Len(calls) /\ Len(calls) \in Nat /\ Len(calls) >= 1
      /\ DOMAIN calls' \subseteq 1..Len(calls)
      /\ Answers(calls, calls', more)
      /\ stateListener' = (stateListener \/ (c.member = "GetInterface" /\ ok))
  BY <1>1, AnswerQueue
<1>3. c.member \in {"RegisterService", "UnregisterService"} /\ (c.member = "UnregisterService" => c.function = "update")
  <2>1. c.function \in {"start", "update", "destroy"}
    BY DEF CallType
  <2> QED
    BY <1>2, <2>1 DEF ResolvedCalls, Is
<1>4. /\ records' = IF ok THEN Effect(c) ELSE records
      /\ path' = PathAfter(c, ok)
      /\ ok = Accepts(c)
      /\ advertised' = advertised /\ daemon' = daemon /\ port' = port
      /\ interrupted' = IF interrupted = "stopped" /\ ok /\ c.member \in {"RegisterService", "Commit"}
                        THEN "no" ELSE interrupted
  BY <1>1 DEF AnswerStep
<1>5. \A k \in DOMAIN calls' :
        \/ k + 1 \in DOMAIN calls /\ calls'[k] = calls[k + 1]
        \/ /\ k = Len(calls) /\ calls'[k] = Call("RegisterService", "update", NoPath, advertised)
           /\ c.member = "UnregisterService"
  <2> SUFFICES ASSUME NEW k \in DOMAIN calls'
               PROVE  \/ k + 1 \in DOMAIN calls /\ calls'[k] = calls[k + 1]
                      \/ /\ k = Len(calls) /\ calls'[k] = Call("RegisterService", "update", NoPath, advertised)
                         /\ c.member = "UnregisterService"
    OBVIOUS
  <2>1. CASE k + 1 \in DOMAIN calls /\ calls'[k] = calls[k + 1]
    BY <2>1
  <2>2. CASE k = Len(calls) /\ more # <<>> /\ calls'[k] = more[1]
    <3>1. c.member = "UnregisterService" /\ more[1] = Call("RegisterService", "update", NoPath, advertised)
      BY <1>1, <1>3, <2>2, MoreIsSent
    <3> QED
      BY <2>2, <3>1
  <2> QED
    BY <1>2, <2>1, <2>2 DEF Answers
<1>6. \A k \in DOMAIN calls : k > 1 => k - 1 \in DOMAIN calls' /\ calls'[k - 1] = calls[k]
  BY <1>2 DEF Answers
<1>7. ResolvedCalls'
  <2>1. ~stateListener'
    BY <1>2, <1>3 DEF ResolvedCalls
  <2>2. /\ Call("RegisterService", "update", NoPath, advertised).function = "update"
        /\ Call("RegisterService", "update", NoPath, advertised).member = "RegisterService"
    BY DEF Call
  <2>3. \A k \in DOMAIN calls' :
          /\ calls'[k].member \in {"RegisterService", "UnregisterService"}
          /\ calls'[k].function = "start" => calls'[k].member = "RegisterService"
          /\ calls'[k].function = "destroy" => calls'[k].member = "UnregisterService"
    BY <1>5, <2>2 DEF ResolvedCalls, Is
  <2> QED
    BY <2>1, <2>3 DEF ResolvedCalls, Is
<1>8. FirstRegistration'
  <2> SUFFICES ASSUME NEW k \in DOMAIN calls', calls'[k].function = "start"
               PROVE  FALSE
    BY DEF FirstRegistration
  <2>1. k \in 1..Len(calls)
    BY <1>2
  <2>2. Call("RegisterService", "update", NoPath, advertised).function = "update"
    BY DEF Call
  <2>3. k + 1 \in DOMAIN calls /\ calls[k + 1].function = "start"
    BY <1>5, <2>2
  <2>4. k + 1 = 1
    BY <2>3 DEF FirstRegistration
  <2> QED
    BY <2>1, <2>4
<1>9. \A k \in DOMAIN calls' : Is(k, "RegisterService")' =>
        calls'[k].txt = advertised \/ \E j \in DOMAIN calls' : j > k /\ calls'[j].function = "update"
  <2> SUFFICES ASSUME NEW k \in DOMAIN calls', Is(k, "RegisterService")', calls'[k].txt # advertised
               PROVE  \E j \in DOMAIN calls' : j > k /\ calls'[j].function = "update"
    OBVIOUS
  <2>1. k \in 1..Len(calls)
    BY <1>2
  <2>2. Call("RegisterService", "update", NoPath, advertised).txt = advertised
    BY DEF Call
  <2>3. k + 1 \in DOMAIN calls /\ Is(k + 1, "RegisterService") /\ calls[k + 1].txt # advertised
    BY <1>5, <2>2 DEF Is
  <2>4. PICK j \in DOMAIN calls : j > k + 1 /\ calls[j].function = "update"
    BY <2>3 DEF RegisteredIsCurrent
  <2>5. j - 1 \in DOMAIN calls' /\ calls'[j - 1] = calls[j] /\ j - 1 > k
    BY <1>2, <1>6, <2>1, <2>4
  <2> QED
    BY <2>4, <2>5
<1>10. CASE c.member = "RegisterService" /\ ok
  <2>1. \A p \in 1..MaxPaths : ~Live(p)
    BY <1>4, <1>10 DEF Accepts, ServicesAnnounced, ResolvedAnnounces, Live
  <2>2. path' = nextPath
    BY <1>4, <1>10 DEF PathAfter, New
  <2>3. nextPath \in 1..MaxPaths
    BY <1>0, <1>1, <1>10 DEF AnswerStep, New, AdvertiserTypes
  <2>4. Accepts(c)
    BY <1>4, <1>10
  <2>5. PICK e : e = Effect(c) /\ records' = e
    BY <1>4, <1>10
  <2>6. \A p \in 1..MaxPaths :
          e[p] = IF p = nextPath THEN [txt |-> c.txt, committed |-> TRUE] ELSE records[p]
    BY <1>10, <2>4, <2>5, EffectOf
  <2>7. records'[nextPath].committed /\ records'[nextPath].txt = c.txt
    BY <2>3, <2>5, <2>6
  <2>8. \A p \in 1..MaxPaths : Live(p)' <=> p = nextPath
    BY <1>1, <1>10, <2>1, LiveAfter DEF New
  <2>9. ResolvedAnnounces' /\ ResolvedOnce'
    BY <2>7, <2>8 DEF ResolvedAnnounces, ResolvedOnce
  <2>10. c.txt = advertised \/ UpdateWaits'
    <3> SUFFICES ASSUME c.txt # advertised PROVE UpdateWaits'
      OBVIOUS
    <3>1. PICK j \in DOMAIN calls : j > 1 /\ calls[j].function = "update"
      BY <1>2, <1>10 DEF RegisteredIsCurrent, Is
    <3> QED
      BY <1>6, <3>1 DEF UpdateWaits
  <2>11. RegisteredIsCurrent'
    BY <1>4, <1>9, <2>2, <2>7, <2>10 DEF RegisteredIsCurrent
  <2>12. ResolvedHasPath'
    BY <1>0, <2>2, <2>3, <2>8 DEF ResolvedHasPath
  <2>13. interrupted' # "settled"
    BY <1>4
  <2> QED
    BY <1>7, <1>8, <2>9, <2>11, <2>12, <2>13
<1>11. CASE c.member = "RegisterService" /\ ~ok
  <2>1. c.function = "start"
    BY <1>2, <1>11 DEF CallType
  <2>2. path = NoPath /\ \A p \in 1..MaxPaths : ~Live(p)
    BY <1>2, <2>1 DEF FirstRegistration
  <2>3. ~daemon
    BY <1>4, <1>11, <2>2 DEF Accepts, ServicesAnnounced, Live
  <2>4. interrupted = "stopped"
    BY <2>3 DEF BusBasics, DownHoldsNothing
  <2>5. records' = records /\ path' = NoPath /\ interrupted' = "stopped"
    BY <1>4, <1>11, <2>2, <2>4 DEF PathAfter, New
  <2>6. \A p : ~Live(p)'
    BY <2>2, <2>5 DEF Live
  <2>7. RegisteredIsCurrent'
    BY <1>4, <1>9, <2>6 DEF RegisteredIsCurrent
  <2> QED
    BY <1>7, <1>8, <2>5, <2>6, <2>7 DEF ResolvedAnnounces, ResolvedOnce, ResolvedHasPath
<1>12. CASE c.member = "UnregisterService"
  <2>1. path' = NoPath
    BY <1>4, <1>12 DEF PathAfter, New
  <2>2. ~Live(NoPath)'
    BY <1>0 DEF Live
  <2>3. \A p \in 1..MaxPaths : Live(p)' => Live(p) /\ records'[p] = records[p]
    <3> SUFFICES ASSUME NEW p \in 1..MaxPaths, Live(p)' PROVE Live(p) /\ records'[p] = records[p]
      OBVIOUS
    <3>1. CASE ok
      <4>1. PICK e : e = Effect(c) /\ records' = e
        BY <1>4, <3>1
      <4>2. e[p] = IF p = c.object THEN NoPath ELSE records[p]
        BY <1>4, <1>12, <3>1, <4>1, EffectOf
      <4> QED
        BY <4>1, <4>2 DEF Live
    <3>2. CASE ~ok
      BY <1>4, <3>2 DEF Live
    <3> QED
      BY <3>1, <3>2
  <2>4. ResolvedAnnounces' /\ ResolvedOnce'
    BY <2>3 DEF ResolvedAnnounces, ResolvedOnce
  <2>5. RegisteredIsCurrent'
    BY <1>4, <1>9, <2>1, <2>2 DEF RegisteredIsCurrent
  <2>6. Waits("RegisterService")'
    <3>1. more # <<>>
      BY <1>1, <1>3, <1>12 DEF AnswerStep, CallContinues
    <3>2. more[1] = Call("RegisterService", "update", NoPath, advertised)
      BY <1>1, <1>12, <3>1, MoreIsSent
    <3>3. Len(calls) \in DOMAIN calls' /\ calls'[Len(calls)].member = "RegisterService"
      BY <1>2, <3>1, <3>2 DEF Answers, Call
    <3> QED
      BY <3>3 DEF Waits, Is
  <2>7. ResolvedHasPath' /\ interrupted' # "settled"
    BY <1>4, <2>1, <2>6 DEF ResolvedHasPath
  <2> QED
    BY <1>7, <1>8, <2>4, <2>5, <2>7
<1> QED
  BY <1>3, <1>10, <1>11, <1>12

\* resolved: a call is sent after the others, and what it may change is the advertised record.
LEMMA ResolvedSent ==
  ASSUME AdvertiserTypes, ResolvedIInv, NEW c \in CallType, calls' = Append(calls, c),
         c.member \in {"RegisterService", "UnregisterService"},
         c.function = "start" => c.member = "RegisterService" /\ calls = <<>> /\ path = NoPath /\ \A p \in 1..MaxPaths : ~Live(p),
         c.function = "destroy" => c.member = "UnregisterService",
         c.txt = advertised' \/ c.member = "UnregisterService",
         advertised' = advertised \/ c.function = "update",
         UNCHANGED <<path, records, stateListener, interrupted>>,
         port' = port \/ (c.member = "RegisterService" /\ path = NoPath)
  PROVE  ResolvedIInv'
<1> USE DEF ResolvedIInv
<1>1. /\ DOMAIN calls = 1..Len(calls) /\ Len(calls) \in Nat
      /\ \A k \in DOMAIN calls : k \in DOMAIN calls' /\ calls'[k] = calls[k]
      /\ \A k \in DOMAIN calls' : (k \in DOMAIN calls /\ calls'[k] = calls[k]) \/ (k = Len(calls) + 1 /\ calls'[k] = c)
      /\ calls'[Len(calls) + 1] = c /\ Len(calls) + 1 \in DOMAIN calls'
  <2>1. calls \in Seq(CallType)
    BY DEF AdvertiserTypes
  <2> QED
    BY <2>1, CallAppended
<1>2. ResolvedCalls'
  BY <1>1 DEF ResolvedCalls, Is
<1>3. ResolvedAnnounces' /\ ResolvedOnce' /\ interrupted' # "settled"
  BY DEF ResolvedAnnounces, ResolvedOnce, Live
<1>4. \A p : Live(p)' <=> Live(p)
  BY DEF Live
<1>5. FirstRegistration'
  <2> SUFFICES ASSUME NEW k \in DOMAIN calls', calls'[k].function = "start"
               PROVE  k = 1 /\ path = NoPath /\ \A p \in 1..MaxPaths : ~Live(p)
    BY <1>4 DEF FirstRegistration
  <2>1. CASE k \in DOMAIN calls /\ calls'[k] = calls[k]
    BY <2>1 DEF FirstRegistration
  <2>2. CASE k = Len(calls) + 1 /\ calls'[k] = c
    BY <2>2
  <2> QED
    BY <1>1, <2>1, <2>2
<1>6. UpdateWaits \/ c.function = "update" => UpdateWaits'
  BY <1>1 DEF UpdateWaits
<1>7. \A k \in DOMAIN calls' : Is(k, "RegisterService")' =>
        calls'[k].txt = advertised' \/ \E j \in DOMAIN calls' : j > k /\ calls'[j].function = "update"
  <2> SUFFICES ASSUME NEW k \in DOMAIN calls', Is(k, "RegisterService")', calls'[k].txt # advertised'
               PROVE  \E j \in DOMAIN calls' : j > k /\ calls'[j].function = "update"
    OBVIOUS
  <2>1. k \in DOMAIN calls /\ calls'[k] = calls[k]
    BY <1>1 DEF Is
  <2>2. CASE advertised' = advertised
    <3>1. PICK j \in DOMAIN calls : j > k /\ calls[j].function = "update"
      BY <2>1, <2>2 DEF RegisteredIsCurrent, Is
    <3> QED
      BY <1>1, <3>1
  <2>3. CASE c.function = "update"
    BY <1>1, <2>1, <2>3
  <2> QED
    BY <2>2, <2>3
<1>8. RegisteredIsCurrent'
  BY <1>4, <1>6, <1>7 DEF RegisteredIsCurrent
<1>9. ResolvedHasPath'
  BY <1>1, <1>4 DEF ResolvedHasPath, Waits, Is
<1> QED
  BY <1>2, <1>3, <1>5, <1>8, <1>9

\* resolved: each step keeps the registration current, or leaves an update under way.
LEMMA ResolvedPreserved ==
  ASSUME AdvertiserTypes, BusBasics, ResolvedIInv, backend = "resolved", Alive, Alive', AdvertiserNext
  PROVE  ResolvedIInv'
<1>1. CASE StartAdvertising
  <2>1. calls = <<>> /\ path = NoPath /\ \A p \in 1..MaxPaths : ~Live(p)
    BY <1>1 DEF StartAdvertising, BusBasics, NothingBeforePort
  <2>2. PICK c : c = FirstCall("start")
    OBVIOUS
  <2>3. c \in CallType /\ c.member = "RegisterService" /\ c.function = "start" /\ c.txt = advertised
    BY <2>2, FirstCallType DEF FirstCall, Call
  <2>4. /\ calls' = Append(calls, c) /\ advertised' = advertised
        /\ UNCHANGED <<path, records, stateListener, interrupted>>
    BY <1>1, <2>2 DEF StartAdvertising
  <2> QED
    BY <2>1, <2>3, <2>4, ResolvedSent
<1>2. CASE UpdateAdvertisement
  <2>1. UNCHANGED <<path, records, stateListener, interrupted, port>> /\ ~unhandled'
    BY <1>2 DEF UpdateAdvertisement, Alive
  <2>2. advertised' \in 0..MaxTxt /\ path \in BusObjects /\ NoPath \in BusObjects
    BY <1>2, AdvertiserAssumption DEF UpdateAdvertisement, AdvertiserTypes, BusObjects
  <2>3. CASE path # NoPath
    <3>1. PICK c : c = Call("UnregisterService", "update", path, advertised')
      OBVIOUS
    <3>2. c \in CallType /\ c.member = "UnregisterService" /\ c.function = "update"
      BY <2>2, <3>1 DEF Call, CallType, Members
    <3>3. calls' = Append(calls, c)
      BY <1>2, <2>3, <3>1 DEF UpdateAdvertisement
    <3> QED
      BY <2>1, <3>2, <3>3, ResolvedSent
  <2>4. CASE path = NoPath
    <3>1. PICK c : c = Call("RegisterService", "update", NoPath, advertised')
      OBVIOUS
    <3>2. c \in CallType /\ c.member = "RegisterService" /\ c.function = "update" /\ c.txt = advertised'
      BY <2>2, <3>1 DEF Call, CallType, Members
    <3>3. calls' = Append(calls, c)
      BY <1>2, <2>1, <2>4, <3>1 DEF UpdateAdvertisement
    <3> QED
      BY <2>1, <3>2, <3>3, ResolvedSent
  <2> QED
    BY <2>3, <2>4
<1>3. CASE DestroyAdvertiser
  <2>1. path # NoPath
    BY <1>3 DEF DestroyAdvertiser, CloseBus, Alive
  <2>2. PICK c : c = Call("UnregisterService", "destroy", path, advertised)
    OBVIOUS
  <2>3. c \in CallType /\ c.member = "UnregisterService" /\ c.function = "destroy"
    BY <2>2 DEF Call, CallType, Members, AdvertiserTypes
  <2>4. calls' = Append(calls, c) /\ UNCHANGED <<path, records, stateListener, interrupted, port, advertised>>
    BY <1>3, <2>1, <2>2 DEF DestroyAdvertiser
  <2> QED
    BY <2>3, <2>4, ResolvedSent
<1>4. CASE Answered
  BY <1>4, ResolvedAnswered
<1>5. CASE DaemonStops
  <2>1. UNCHANGED <<path, calls, stateListener, advertised, port>> /\ interrupted' = "stopped"
    BY <1>5 DEF DaemonStops
  <2>2. \A p : ~Live(p)'
    BY <1>5 DEF DaemonStops, Live
  <2> QED
    BY <2>1, <2>2 DEF ResolvedIInv, ResolvedCalls, ResolvedAnnounces, ResolvedOnce, RegisteredIsCurrent,
                      FirstRegistration, ResolvedHasPath, Is
<1>6. CASE DaemonStarts
  <2>1. ~stateListener
    BY DEF ResolvedIInv, ResolvedCalls
  <2>2. UNCHANGED <<path, calls, stateListener, advertised, port, records, interrupted>>
    BY <1>6, <2>1 DEF DaemonStarts, HandleStateChanged
  <2> QED
    BY <2>2 DEF ResolvedIInv, ResolvedCalls, ResolvedAnnounces, ResolvedOnce, RegisteredIsCurrent,
                FirstRegistration, ResolvedHasPath, Is, Live, UpdateWaits, Waits
<1>7. CASE HostNameSettled
  BY <1>7 DEF HostNameSettled
<1> QED
  BY <1>1, <1>2, <1>3, <1>4, <1>5, <1>6, <1>7 DEF AdvertiserNext

\* avahi: what an answer changes of the groups that are there.
LEMMA AvahiEffect ==
  ASSUME AdvertiserTypes, NEW c \in CallType, NEW ok \in BOOLEAN, NEW more, AnswerStep(c, ok, more),
         c.member \in {"AddService", "Commit", "GetInterface", "UpdateServiceTxt"}, NEW p \in 1..MaxPaths
  PROVE  /\ Live(p)' <=> Live(p)
         /\ Live(p) => (records'[p].committed <=> records[p].committed \/ (c.member = "Commit" /\ ok /\ p = c.object))
         /\ Live(p) => records'[p].txt = IF ok /\ c.member \in {"AddService", "UpdateServiceTxt"} /\ p = c.object
                                         THEN c.txt ELSE records[p].txt
<1>1. Live(p)' <=> Live(p)
  BY LiveAfter DEF New
<1>2. records' = IF ok THEN Effect(c) ELSE records
  BY DEF AnswerStep
<1>3. CASE ~ok
  BY <1>1, <1>2, <1>3
<1>4. CASE ok
  <2>1. PICK e : e = Effect(c) /\ records' = e
    BY <1>2, <1>4
  <2>2. Accepts(c)
    BY <1>4 DEF AnswerStep
  <2>3. CASE c.member \in {"AddService", "UpdateServiceTxt"}
    <3>1. e[p] = IF p = c.object THEN [txt |-> c.txt, committed |-> records[p].committed] ELSE records[p]
      BY <2>1, <2>2, <2>3, EffectOf
    <3> QED
      BY <1>1, <1>4, <2>1, <2>3, <3>1
  <2>4. CASE c.member = "Commit"
    <3>1. e[p] = IF p = c.object THEN [txt |-> records[p].txt, committed |-> TRUE] ELSE records[p]
      BY <2>1, <2>2, <2>4, EffectOf, Zenon
    <3> QED
      BY <1>1, <1>4, <2>1, <2>4, <3>1
  <2>5. CASE c.member = "GetInterface"
    <3>1. e[p] = records[p]
      BY <2>1, <2>2, <2>5, EffectOf
    <3> QED
      BY <1>1, <1>4, <2>1, <2>5, <3>1
  <2> QED
    BY <2>3, <2>4, <2>5
<1> QED
  BY <1>3, <1>4

\* Without any group, and before a registration, there is nothing to say.
LEMMA NothingLiveQueue ==
  ASSUME \A p \in 1..MaxPaths : ~Live(p)', interrupted' # "no"
  PROVE  AvahiQueue'
<1>1. \A p : ~Live(p)'
  BY DEF Live
<1>2. \A p \in 1..MaxPaths : ~ServicesAnnounced(p)'
  BY <1>1 DEF Live, ServicesAnnounced
<1> QED
  BY <1>1, <1>2 DEF AvahiQueue, GroupsFirst, FilledBeforeCommitted, CommittedIsPath, LastIsLive, ToldIsCurrent, AvahiGoesOn

\* avahi: which calls wait after an answer.
LEMMA AvahiCallsAnswered ==
  ASSUME AdvertiserTypes, BusBasics, AvahiCalls, NEW c \in CallType, NEW ok \in BOOLEAN, NEW more, AnswerStep(c, ok, more), Alive'
  PROVE  /\ AvahiCalls'
         /\ c.member \in {"EntryGroupNew", "AddService", "Commit", "GetInterface", "UpdateServiceTxt"}
         /\ c.member # "EntryGroupNew" => path' = path
         /\ c.member \in {"AddService", "Commit", "UpdateServiceTxt"} => c.object \in 1..MaxPaths
<1>0. NoPath \notin Nat /\ MaxPaths \in Nat /\ nextPath \in Nat
  BY AdvertiserAssumption DEF AdvertiserTypes
<1>1. c.function # "destroy" /\ c = calls[1] /\ 1 \in DOMAIN calls /\ Answers(calls, calls', more)
  BY AnswerQueue
<1>2. c.member \in {"EntryGroupNew", "AddService", "Commit", "GetInterface", "UpdateServiceTxt"}
  BY <1>1 DEF AvahiCalls, Is
<1>3. c.member \in {"AddService", "Commit", "UpdateServiceTxt"} => c.object \in 1..MaxPaths /\ path # NoPath
  BY <1>1 DEF AvahiCalls, CallType, BusObjects
<1>4. path' = IF c.member = "EntryGroupNew" /\ ok THEN nextPath ELSE path
  BY <1>2 DEF AnswerStep, PathAfter, New
<1>5. path # NoPath => path' # NoPath
  BY <1>0, <1>4
<1>6. more # <<>> =>
        /\ more[1].member \in {"AddService", "Commit", "GetInterface"}
        /\ more[1].function = c.function
        /\ more[1].object = IF more[1].member = "GetInterface" THEN NoPath ELSE path'
        /\ path' # NoPath
        /\ c.member # "UpdateServiceTxt"
  <2> SUFFICES ASSUME more # <<>>
               PROVE  /\ more[1].member \in {"AddService", "Commit", "GetInterface"}
                      /\ more[1].function = c.function
                      /\ more[1].object = IF more[1].member = "GetInterface" THEN NoPath ELSE path'
                      /\ path' # NoPath
                      /\ c.member # "UpdateServiceTxt"
    OBVIOUS
  <2>1. CASE c.member = "EntryGroupNew" /\ ok /\ more[1] = Call("AddService", c.function, path', advertised)
    BY <1>0, <1>4, <2>1 DEF Call
  <2>2. CASE c.member = "AddService" /\ ok /\ more[1] = Call("Commit", c.function, path', c.txt)
    BY <1>3, <1>5, <2>2 DEF Call
  <2>3. CASE c.member = "Commit" /\ ok /\ more[1] = Call("GetInterface", c.function, NoPath, c.txt)
    BY <1>3, <1>5, <2>3 DEF Call
  <2> QED
    BY <1>2, <2>1, <2>2, <2>3, MoreIsSent
<1>7. \A k \in DOMAIN calls' :
        /\ calls'[k].member \in {"EntryGroupNew", "AddService", "Commit", "GetInterface", "UpdateServiceTxt", "Free"}
        /\ calls'[k].function = "update" <=> calls'[k].member = "UpdateServiceTxt"
        /\ calls'[k].function = "destroy" <=> calls'[k].member = "Free"
        /\ calls'[k].member \in {"AddService", "Commit", "UpdateServiceTxt"} => calls'[k].object # NoPath
        /\ calls'[k].object # NoPath => path' # NoPath
  <2> TAKE k \in DOMAIN calls'
  <2>1. CASE k + 1 \in DOMAIN calls /\ calls'[k] = calls[k + 1]
    BY <1>5, <2>1 DEF AvahiCalls, Is
  <2>2. CASE more # <<>> /\ calls'[k] = more[1]
    BY <1>1, <1>6, <2>2 DEF AvahiCalls, Is
  <2> QED
    BY <1>1, <2>1, <2>2 DEF Answers
<1> QED
  BY <1>2, <1>3, <1>4, <1>7 DEF AvahiCalls, Is

\* avahi: a new group leaves the queue in order.
LEMMA AvahiGroupMade ==
  ASSUME AdvertiserTypes, BusBasics, AvahiCalls, AvahiQueue, NEW c \in CallType, NEW ok \in BOOLEAN, NEW more,
         AnswerStep(c, ok, more), Alive', c.member = "EntryGroupNew", daemon
  PROVE  AvahiQueue'
<1> USE DEF AvahiQueue
<1>0. NoPath \notin Nat /\ MaxPaths \in Nat /\ nextPath \in Nat
  BY AdvertiserAssumption DEF AdvertiserTypes
<1>1. ok /\ Accepts(c)
  BY DEF AnswerStep, Accepts
<1>2. /\ c = calls[1] /\ 1 \in DOMAIN calls
      /\ DOMAIN calls = 1..Len(calls) /\ Len(calls) \in Nat /\ Len(calls) >= 1
      /\ DOMAIN calls' \subseteq 1..Len(calls)
      /\ Answers(calls, calls', more)
  BY AnswerQueue
<1>3. path' = nextPath /\ advertised' = advertised /\ nextPath \in 1..MaxPaths
  BY <1>0, <1>1 DEF AnswerStep, PathAfter, New, AdvertiserTypes
<1>4. more # <<>> /\ more[1] = Call("AddService", c.function, nextPath, advertised)
  <2>1. more # <<>>
    BY <1>1 DEF AnswerStep, CallContinues
  <2> QED
    BY <1>3, <2>1, MoreIsSent
<1>5. \A k \in DOMAIN calls' :
        \/ k + 1 \in DOMAIN calls /\ calls'[k] = calls[k + 1] /\ (calls[k + 1].object # NoPath => calls[k + 1].object < nextPath)
        \/ k = Len(calls) /\ calls'[k].object = nextPath /\ calls'[k].txt = advertised /\ calls'[k].member = "AddService"
  BY <1>2, <1>4 DEF Answers, Call, BusBasics, PathsInOrder
<1>6. \A p : Live(p)' <=> Live(p) \/ p = nextPath
  BY <1>1, <1>3, LiveAfter DEF New, Live
<1>7. \A p \in 1..MaxPaths : ~ServicesAnnounced(p)
  BY <1>2 DEF GroupsFirst, Is
<1>8. PICK e : e = Effect(c) /\ records' = e
  BY <1>1 DEF AnswerStep
<1>9. \A p \in 1..MaxPaths : e[p] = IF p = nextPath THEN [txt |-> c.txt, committed |-> FALSE] ELSE records[p]
  BY <1>1, <1>8, EffectOf
<1>10. records'[nextPath].committed = FALSE /\ \A p \in 1..MaxPaths : p # nextPath => records'[p] = records[p]
  BY <1>3, <1>8, <1>9
<1>11. \A p \in 1..MaxPaths : ~ServicesAnnounced(p)'
  BY <1>7, <1>10 DEF ServicesAnnounced
<1>12. \A j \in DOMAIN calls' : Is(j, "Commit")' => ~Live(calls[j].object)'
  <2> SUFFICES ASSUME NEW j \in DOMAIN calls', Is(j, "Commit")' PROVE ~Live(calls[j].object)'
    OBVIOUS
  <2>1. /\ j + 1 \in DOMAIN calls /\ calls'[j] = calls[j + 1] /\ Is(j + 1, "Commit")
        /\ calls[j + 1].object # NoPath => calls[j + 1].object < nextPath
    BY <1>5 DEF Is
  <2>2. calls[j + 1].object # nextPath
    BY <1>0, <2>1
  <2>3. ~Live(calls[j + 1].object)
    BY <1>2, <2>1 DEF GroupsFirst, Is
  <2> QED
    BY <1>6, <2>1, <2>2, <2>3 DEF Live
<1>13. GroupsFirst'
  <2> SUFFICES ASSUME NEW k \in DOMAIN calls', Is(k, "EntryGroupNew")', NEW j \in DOMAIN calls', j < k
               PROVE  ~Live(calls[j].object)'
    BY <1>11, <1>12 DEF GroupsFirst
  <2>1. k + 1 \in DOMAIN calls /\ Is(k + 1, "EntryGroupNew")
    BY <1>5 DEF Is
  <2>2. j \in 1..Len(calls) /\ k \in 1..Len(calls) /\ j + 1 < k + 1 /\ j # Len(calls)
    BY <1>2, <2>1
  <2>3. /\ j + 1 \in DOMAIN calls /\ calls'[j] = calls[j + 1]
        /\ calls[j + 1].object # NoPath => calls[j + 1].object < nextPath
    BY <1>5, <2>2
  <2>4. calls[j + 1].object # nextPath
    BY <1>0, <2>3
  <2>5. ~Live(calls[j + 1].object)
    BY <2>1, <2>2, <2>3 DEF GroupsFirst
  <2> QED
    BY <1>6, <2>3, <2>4, <2>5 DEF Live
<1>14. FilledBeforeCommitted' /\ CommittedIsPath'
  BY <1>11, <1>12 DEF FilledBeforeCommitted, CommittedIsPath
<1>15. LastIsLive'
  BY <1>3, <1>6 DEF LastIsLive
<1>16. Len(calls) \in DOMAIN calls' /\ calls'[Len(calls)].object = nextPath /\ calls'[Len(calls)].member = "AddService"
  BY <1>2, <1>4 DEF Answers, Call
<1>17. ToldIsCurrent'
  <2>1. \A k \in DOMAIN calls' : calls'[k].object = nextPath => calls'[k].txt = advertised
    BY <1>0, <1>5
  <2> QED
    BY <1>3, <1>16, <2>1 DEF ToldIsCurrent, Tells
<1>18. AvahiGoesOn'
  BY <1>3, <1>6, <1>16 DEF AvahiGoesOn
<1> QED
  BY <1>13, <1>14, <1>15, <1>17, <1>18

\* avahi: what a step along the groups that are there leaves.
LEMMA AvahiGroupTold ==
  ASSUME AdvertiserTypes, BusBasics, AvahiCalls, AvahiQueue, NEW c \in CallType, NEW ok \in BOOLEAN, NEW more,
         AnswerStep(c, ok, more), Alive', c.member # "EntryGroupNew", daemon
  PROVE  AvahiQueue'
<1> USE DEF AvahiQueue
<1>1. /\ c = calls[1] /\ 1 \in DOMAIN calls
      /\ DOMAIN calls = 1..Len(calls) /\ Len(calls) \in Nat /\ Len(calls) >= 1
      /\ DOMAIN calls' \subseteq 1..Len(calls)
      /\ Answers(calls, calls', more)
  BY AnswerQueue
<1>2. /\ c.member \in {"AddService", "Commit", "GetInterface", "UpdateServiceTxt"}
      /\ path' = path
      /\ c.member \in {"AddService", "Commit", "UpdateServiceTxt"} => c.object \in 1..MaxPaths
  BY AvahiCallsAnswered
<1>3. advertised' = advertised /\ port' = port /\ ok = Accepts(c)
  BY DEF AnswerStep
<1>4. c.member \in {"AddService", "Commit", "UpdateServiceTxt"} => (ok <=> Live(c.object))
  <2>1. CASE ok
    BY <1>2, <1>3, <2>1 DEF Accepts, Live
  <2>2. CASE ~ok /\ c.member \in {"AddService", "Commit", "UpdateServiceTxt"}
    <3>1. Live(c.object) => c.member = "AddService" /\ \E p \in 1..MaxPaths : ServicesAnnounced(p)
      BY <1>3, <2>2 DEF Accepts, Live
    <3>2. c.member = "AddService" /\ Live(c.object) => \A p \in 1..MaxPaths : ~ServicesAnnounced(p)
      BY <1>1 DEF FilledBeforeCommitted, Is
    <3> QED
      BY <2>2, <3>1, <3>2
  <2> QED
    BY <2>1, <2>2
<1>5. c.member = "GetInterface" => ok
  BY <1>3 DEF Accepts
<1>6. more # <<>> =>
        \/ c.member = "AddService" /\ Live(c.object) /\ more[1] = Call("Commit", c.function, path, c.txt)
        \/ c.member = "Commit" /\ Live(c.object) /\ more[1] = Call("GetInterface", c.function, NoPath, c.txt)
  BY <1>2, <1>4, MoreIsSent
<1>7. \A k \in DOMAIN calls' :
        \/ k + 1 \in DOMAIN calls /\ calls'[k] = calls[k + 1]
        \/ /\ k = Len(calls) /\ c.member = "AddService" /\ Live(c.object)
           /\ calls'[k].member = "Commit" /\ calls'[k].object = path
        \/ k = Len(calls) /\ c.member = "Commit" /\ Live(c.object) /\ calls'[k].member = "GetInterface"
  BY <1>1, <1>6 DEF Answers, Call
<1>8. \A k \in DOMAIN calls : k > 1 => k - 1 \in DOMAIN calls' /\ calls'[k - 1] = calls[k]
  BY <1>1 DEF Answers
<1>9. \A p : Live(p)' <=> Live(p)
  BY <1>2, AvahiEffect DEF Live
<1>10. \A p \in 1..MaxPaths : ServicesAnnounced(p)' <=>
          ServicesAnnounced(p) \/ (c.member = "Commit" /\ Live(c.object) /\ p = c.object)
  BY <1>2, <1>4, <1>9, AvahiEffect DEF ServicesAnnounced, Live
<1>11. Live(c.object) => \A k \in DOMAIN calls : Is(k, "EntryGroupNew") => k = 1
  BY <1>1 DEF GroupsFirst
<1>12. GroupsFirst'
  <2> SUFFICES ASSUME NEW k \in DOMAIN calls', Is(k, "EntryGroupNew")'
               PROVE  /\ \A j \in DOMAIN calls' : j < k \/ Is(j, "Commit")' => ~Live(calls[j].object)'
                      /\ \A p \in 1..MaxPaths : ~ServicesAnnounced(p)'
    BY DEF GroupsFirst
  <2>1. k + 1 \in DOMAIN calls /\ Is(k + 1, "EntryGroupNew") /\ k \in 1..Len(calls)
    BY <1>1, <1>7 DEF Is
  <2>2. ~Live(c.object)
    BY <1>11, <2>1
  <2>3. \A j \in DOMAIN calls' : j + 1 \in DOMAIN calls /\ calls'[j] = calls[j + 1] /\ j \in 1..Len(calls)
    BY <1>1, <1>7, <2>2
  <2>4. \A j \in DOMAIN calls' : j < k \/ Is(j, "Commit")' => ~Live(calls[j].object)'
    <3> SUFFICES ASSUME NEW j \in DOMAIN calls', j < k \/ Is(j, "Commit")' PROVE ~Live(calls[j].object)'
      OBVIOUS
    <3>1. j + 1 < k + 1 \/ Is(j + 1, "Commit")
      BY <2>1, <2>3 DEF Is
    <3>2. ~Live(calls[j + 1].object)
      BY <2>1, <2>3, <3>1 DEF GroupsFirst
    <3> QED
      BY <1>9, <2>3, <3>2 DEF Live
  <2>5. \A p \in 1..MaxPaths : ~ServicesAnnounced(p)'
    BY <1>10, <2>1, <2>2 DEF GroupsFirst
  <2> QED
    BY <2>4, <2>5
<1>13. FilledBeforeCommitted'
  <2> SUFFICES ASSUME NEW k \in DOMAIN calls', Is(k, "AddService")', Live(calls[k].object)'
               PROVE  /\ \A j \in DOMAIN calls' : j < k /\ Is(j, "Commit")' => ~Live(calls[j].object)'
                      /\ \A p \in 1..MaxPaths : ~ServicesAnnounced(p)'
    BY DEF FilledBeforeCommitted
  <2>1. k + 1 \in DOMAIN calls /\ Is(k + 1, "AddService") /\ Live(calls[k + 1].object) /\ k \in 1..Len(calls)
    BY <1>1, <1>7, <1>9 DEF Is, Live
  <2>2. \A j \in DOMAIN calls' : j < k /\ Is(j, "Commit")' => ~Live(calls[j].object)'
    <3> SUFFICES ASSUME NEW j \in DOMAIN calls', j < k, Is(j, "Commit")' PROVE ~Live(calls[j].object)'
      OBVIOUS
    <3>1. j \in 1..Len(calls) /\ j # Len(calls) /\ j + 1 < k + 1
      BY <1>1, <2>1
    <3>2. j + 1 \in DOMAIN calls /\ calls'[j] = calls[j + 1] /\ Is(j + 1, "Commit")
      BY <1>7, <3>1 DEF Is
    <3>3. ~Live(calls[j + 1].object)
      BY <2>1, <3>1, <3>2 DEF FilledBeforeCommitted
    <3> QED
      BY <1>9, <3>2, <3>3 DEF Live
  <2>3. c.member = "Commit" => ~Live(c.object)
    BY <1>1, <2>1 DEF FilledBeforeCommitted, Is
  <2>4. \A p \in 1..MaxPaths : ~ServicesAnnounced(p)'
    BY <1>10, <2>1, <2>3 DEF FilledBeforeCommitted
  <2> QED
    BY <2>2, <2>4
<1>14. CommittedIsPath'
  <2>1. \A k \in DOMAIN calls' : Is(k, "Commit")' /\ Live(calls[k].object)' => calls'[k].object = path
    BY <1>7, <1>9 DEF CommittedIsPath, Is, Live
  <2>2. c.member = "Commit" /\ Live(c.object) => c.object = path
    BY <1>1 DEF CommittedIsPath, Is
  <2>3. \A p \in 1..MaxPaths : ServicesAnnounced(p)' => p = path
    BY <1>10, <2>2 DEF CommittedIsPath
  <2> QED
    BY <1>2, <2>1, <2>3 DEF CommittedIsPath
<1>15. LastIsLive'
  BY <1>2, <1>9 DEF LastIsLive
<1>16. \A k \in DOMAIN calls' : Tells(k)' => k + 1 \in DOMAIN calls /\ calls'[k] = calls[k + 1] /\ Tells(k + 1)
  BY <1>2, <1>7 DEF Tells
<1>17. \A k \in DOMAIN calls : k > 1 /\ Tells(k) => k - 1 \in DOMAIN calls' /\ calls'[k - 1] = calls[k] /\ Tells(k - 1)'
  BY <1>2, <1>8 DEF Tells
<1>18. ToldIsCurrent'
  <2> SUFFICES ASSUME Live(path)
               PROVE  /\ records'[path].txt = advertised \/ \E k \in DOMAIN calls' : Tells(k)'
                      /\ \A k \in DOMAIN calls' : Tells(k)' =>
                           calls'[k].txt = advertised \/ \E j \in DOMAIN calls' : j > k /\ Tells(j)'
    BY <1>2, <1>3, <1>9 DEF ToldIsCurrent
  <2>1. \A k \in DOMAIN calls' : Tells(k)' =>
          calls'[k].txt = advertised \/ \E j \in DOMAIN calls' : j > k /\ Tells(j)'
    <3> SUFFICES ASSUME NEW k \in DOMAIN calls', Tells(k)', calls'[k].txt # advertised
                 PROVE  \E j \in DOMAIN calls' : j > k /\ Tells(j)'
      OBVIOUS
    <3>1. k + 1 \in DOMAIN calls /\ calls'[k] = calls[k + 1] /\ Tells(k + 1) /\ k \in 1..Len(calls)
      BY <1>1, <1>16
    <3>2. PICK j \in DOMAIN calls : j > k + 1 /\ Tells(j)
      BY <3>1 DEF ToldIsCurrent
    <3>3. j > 1 /\ j - 1 > k
      BY <1>1, <3>1, <3>2
    <3> QED
      BY <1>17, <3>2, <3>3
  <2>2. path \in 1..MaxPaths
    BY DEF Live
  <2>3. CASE c.member \in {"AddService", "UpdateServiceTxt"} /\ path = c.object
    <3>1. records'[path].txt = c.txt /\ Tells(1)
      BY <1>1, <1>4, <2>2, <2>3, AvahiEffect DEF Tells
    <3>2. c.txt = advertised \/ \E j \in DOMAIN calls : j > 1 /\ Tells(j)
      BY <1>1, <3>1 DEF ToldIsCurrent
    <3>3. records'[path].txt = advertised \/ \E k \in DOMAIN calls' : Tells(k)'
      BY <1>17, <3>1, <3>2
    <3> QED
      BY <2>1, <3>3
  <2>4. CASE ~(c.member \in {"AddService", "UpdateServiceTxt"} /\ path = c.object)
    <3>1. records'[path].txt = records[path].txt
      BY <1>2, <2>2, <2>4, AvahiEffect
    <3>2. ~Tells(1)
      BY <1>1, <2>4 DEF Tells
    <3>3. records[path].txt = advertised \/ \E k \in DOMAIN calls : k > 1 /\ Tells(k)
      BY <1>1, <3>2 DEF ToldIsCurrent
    <3>4. records'[path].txt = advertised \/ \E k \in DOMAIN calls' : Tells(k)'
      BY <1>17, <3>1, <3>3
    <3> QED
      BY <2>1, <3>4
  <2> QED
    BY <2>3, <2>4
<1>19. AvahiGoesOn'
  <2> SUFFICES ASSUME interrupted' = "no", port
               PROVE  \/ Waits("EntryGroupNew")'
                      \/ /\ Live(path)
                         /\ \/ ServicesAnnounced(path)'
                            \/ \E k \in DOMAIN calls' : calls'[k].object = path /\ calls'[k].member \in {"AddService", "Commit"}
    BY <1>2, <1>3, <1>9 DEF AvahiGoesOn, ServicesAnnounced, Live
  <2>1. CASE interrupted = "no"
    <3>1. CASE Waits("EntryGroupNew")
      <4>1. PICK k \in DOMAIN calls : Is(k, "EntryGroupNew")
        BY <3>1 DEF Waits
      <4>2. k > 1
        BY <1>1, <4>1 DEF Is
      <4> QED
        BY <1>8, <4>1, <4>2 DEF Waits, Is
    <3>2. CASE Live(path) /\ records[path].committed
      <4>1. path \in 1..MaxPaths /\ ServicesAnnounced(path)
        BY <3>2 DEF Live, ServicesAnnounced
      <4> QED
        BY <1>2, <1>10, <3>2, <4>1 DEF ServicesAnnounced
    <3>3. ASSUME Live(path), NEW k \in DOMAIN calls, calls[k].object = path, calls[k].member \in {"AddService", "Commit"}
          PROVE  \/ ServicesAnnounced(path)'
                 \/ \E j \in DOMAIN calls' : calls'[j].object = path /\ calls'[j].member \in {"AddService", "Commit"}
      <4>1. CASE k > 1
        BY <1>8, <3>3, <4>1
      <4>2. CASE k = 1 /\ c.member = "Commit"
        <5>1. path \in 1..MaxPaths /\ c.object = path
          BY <1>1, <3>3, <4>2 DEF Live
        <5> QED
          BY <1>2, <1>10, <3>3, <4>2, <5>1 DEF ServicesAnnounced
      <4>3. CASE k = 1 /\ c.member = "AddService"
        <5>1. ok /\ more # <<>>
          BY <1>1, <1>4, <3>3, <4>3 DEF AnswerStep, CallContinues
        <5>2. Len(calls) \in DOMAIN calls' /\ calls'[Len(calls)] = more[1]
          BY <1>1, <5>1 DEF Answers
        <5>3. more[1].member = "Commit" /\ more[1].object = path
          BY <1>6, <4>3, <5>1 DEF Call
        <5> QED
          BY <5>2, <5>3
      <4> QED
        BY <1>1, <3>3, <4>1, <4>2, <4>3
    <3> QED
      BY <2>1, <3>1, <3>2, <3>3 DEF AvahiGoesOn
  <2>2. CASE interrupted # "no"
    <3>1. c.member = "Commit" /\ ok
      BY <1>2, <2>2 DEF AnswerStep
    <3>2. c.object = path /\ Live(path)
      BY <1>1, <1>4, <3>1 DEF CommittedIsPath, Is
    <3>3. path \in 1..MaxPaths
      BY <3>2 DEF Live
    <3> QED
      BY <1>2, <1>10, <3>1, <3>2, <3>3 DEF ServicesAnnounced
  <2> QED
    BY <2>1, <2>2
<1> QED
  BY <1>12, <1>13, <1>14, <1>15, <1>18, <1>19

\* avahi: the group of a start that is sent, or what an update or the end asks of the current one.
LEMMA AvahiSent ==
  ASSUME AdvertiserTypes, AvahiIInv, NEW c \in CallType, calls' = Append(calls, c),
         \/ c.member = "EntryGroupNew" /\ c.function = "start" /\ c.object = NoPath /\ (\A p \in 1..MaxPaths : ~Live(p))
         \/ c.member = "UpdateServiceTxt" /\ c.function = "update" /\ c.object = path /\ c.txt = advertised'
         \/ c.member = "Free" /\ c.function = "destroy" /\ c.object = path,
         c.member = "UpdateServiceTxt" <=> advertised' # advertised,
         c.member # "EntryGroupNew" => path # NoPath /\ port' = port,
         UNCHANGED <<path, records, interrupted>>
  PROVE  AvahiIInv'
<1> USE DEF AvahiIInv
<1>1. /\ DOMAIN calls = 1..Len(calls) /\ Len(calls) \in Nat
      /\ \A k \in DOMAIN calls : k \in DOMAIN calls' /\ calls'[k] = calls[k]
      /\ \A k \in DOMAIN calls' : (k \in DOMAIN calls /\ calls'[k] = calls[k]) \/ (k = Len(calls) + 1 /\ calls'[k] = c)
      /\ calls'[Len(calls) + 1] = c /\ Len(calls) + 1 \in DOMAIN calls'
  <2>1. calls \in Seq(CallType)
    BY DEF AdvertiserTypes
  <2> QED
    BY <2>1, CallAppended
<1>2. AvahiCalls'
  <2> SUFFICES ASSUME NEW k \in DOMAIN calls'
               PROVE  /\ calls'[k].member \in {"EntryGroupNew", "AddService", "Commit", "GetInterface", "UpdateServiceTxt", "Free"}
                      /\ calls'[k].function = "update" <=> calls'[k].member = "UpdateServiceTxt"
                      /\ calls'[k].function = "destroy" <=> calls'[k].member = "Free"
                      /\ calls'[k].member \in {"AddService", "Commit", "UpdateServiceTxt"} => calls'[k].object # NoPath
                      /\ calls'[k].object # NoPath => path # NoPath
    BY DEF AvahiCalls, Is
  <2>1. CASE k \in DOMAIN calls /\ calls'[k] = calls[k]
    BY <2>1 DEF AvahiCalls, Is
  <2>2. CASE calls'[k] = c
    BY <2>2
  <2> QED
    BY <1>1, <2>1, <2>2
<1> SUFFICES ASSUME interrupted # "settled", AvahiQueue PROVE AvahiQueue'
  BY <1>2
<1> USE DEF AvahiQueue
<1>3. \A p : Live(p)' <=> Live(p)
  BY DEF Live
<1>4. \A p : ServicesAnnounced(p)' <=> ServicesAnnounced(p)
  BY DEF ServicesAnnounced
<1>5. CASE c.member = "EntryGroupNew"
  <2>1. \A p : ~Live(p)'
    BY <1>3, <1>5 DEF Live
  <2>2. \A p \in 1..MaxPaths : ~ServicesAnnounced(p)'
    BY <2>1 DEF Live, ServicesAnnounced
  <2>3. GroupsFirst' /\ FilledBeforeCommitted' /\ CommittedIsPath' /\ LastIsLive' /\ ToldIsCurrent'
    BY <2>1, <2>2 DEF GroupsFirst, FilledBeforeCommitted, CommittedIsPath, LastIsLive, ToldIsCurrent
  <2>4. AvahiGoesOn'
    BY <1>1, <1>5 DEF AvahiGoesOn, Waits, Is
  <2> QED
    BY <2>3, <2>4
<1>6. CASE c.member \in {"UpdateServiceTxt", "Free"}
  <2>1. \A k \in DOMAIN calls' : calls'[k].member \notin {"UpdateServiceTxt", "Free"} => k \in DOMAIN calls /\ calls'[k] = calls[k]
    BY <1>1, <1>6
  <2>2. GroupsFirst'
    <3> SUFFICES ASSUME NEW k \in DOMAIN calls', Is(k, "EntryGroupNew")'
                 PROVE  /\ \A j \in DOMAIN calls' : j < k \/ Is(j, "Commit")' => ~Live(calls[j].object)'
                        /\ \A p \in 1..MaxPaths : ~ServicesAnnounced(p)'
      BY DEF GroupsFirst
    <3>1. k \in DOMAIN calls /\ Is(k, "EntryGroupNew")
      BY <2>1 DEF Is
    <3>2. \A j \in DOMAIN calls' : j < k \/ Is(j, "Commit")' => j \in DOMAIN calls /\ calls'[j] = calls[j] /\ (j < k \/ Is(j, "Commit"))
      BY <1>1, <2>1, <3>1 DEF Is
    <3> QED
      BY <1>4, <3>1, <3>2 DEF GroupsFirst, Live
  <2>3. FilledBeforeCommitted'
    <3> SUFFICES ASSUME NEW k \in DOMAIN calls', Is(k, "AddService")', Live(calls[k].object)'
                 PROVE  /\ \A j \in DOMAIN calls' : j < k /\ Is(j, "Commit")' => ~Live(calls[j].object)'
                        /\ \A p \in 1..MaxPaths : ~ServicesAnnounced(p)'
      BY DEF FilledBeforeCommitted
    <3>1. k \in DOMAIN calls /\ Is(k, "AddService") /\ Live(calls[k].object)
      BY <2>1 DEF Is, Live
    <3>2. \A j \in DOMAIN calls' : j < k /\ Is(j, "Commit")' => j \in DOMAIN calls /\ calls'[j] = calls[j] /\ Is(j, "Commit")
      BY <2>1 DEF Is
    <3> QED
      BY <1>4, <3>1, <3>2 DEF FilledBeforeCommitted, Live
  <2>4. CommittedIsPath'
    BY <1>4, <2>1 DEF CommittedIsPath, Is, Live
  <2>5. LastIsLive'
    BY <1>3 DEF LastIsLive, Live
  <2>6. ToldIsCurrent'
    <3> SUFFICES ASSUME Live(path)
                 PROVE  /\ records[path].txt = advertised' \/ \E k \in DOMAIN calls' : Tells(k)'
                        /\ \A k \in DOMAIN calls' : Tells(k)' =>
                             calls'[k].txt = advertised' \/ \E j \in DOMAIN calls' : j > k /\ Tells(j)'
      BY DEF ToldIsCurrent, Live
    <3>1. CASE c.member = "UpdateServiceTxt"
      <4>0. PICK n \in DOMAIN calls' : n = Len(calls) + 1 /\ calls'[n] = c
        BY <1>1
      <4>1. Tells(n)' /\ calls'[n].txt = advertised'
        BY <3>1, <4>0 DEF Tells
      <4>2. \A k \in DOMAIN calls' : k < n \/ k = n
        BY <1>1, <4>0
      <4> QED
        BY <1>1, <4>1, <4>2
    <3>2. CASE c.member = "Free"
      <4>1. \A k \in DOMAIN calls : Tells(k) => k \in DOMAIN calls' /\ Tells(k)'
        BY <1>1 DEF Tells
      <4>2. \A k \in DOMAIN calls' : Tells(k)' => k \in DOMAIN calls /\ calls'[k] = calls[k] /\ Tells(k)
        BY <1>1, <3>2 DEF Tells
      <4>3. advertised' = advertised
        BY <3>2
      <4> QED
        BY <4>1, <4>2, <4>3 DEF ToldIsCurrent
    <3> QED
      BY <1>6, <3>1, <3>2
  <2>7. AvahiGoesOn'
    BY <1>1, <1>6 DEF AvahiGoesOn, Waits, Is, Live
  <2> QED
    BY <2>2, <2>3, <2>4, <2>5, <2>6, <2>7
<1> QED
  BY <1>5, <1>6

\* avahi: each step keeps the groups in order, unless the name of the host was settled anew.
LEMMA AvahiPreserved ==
  ASSUME AdvertiserTypes, BusBasics, AvahiIInv, backend = "avahi", Alive, Alive', AdvertiserNext
  PROVE  AvahiIInv'
<1>1. CASE StartAdvertising
  <2>1. \A p \in 1..MaxPaths : ~Live(p)
    BY <1>1 DEF StartAdvertising, BusBasics, NothingBeforePort
  <2>2. PICK c : c = FirstCall("start")
    OBVIOUS
  <2>3. c \in CallType /\ c.member = "EntryGroupNew" /\ c.function = "start" /\ c.object = NoPath
    BY <2>2, FirstCallType DEF FirstCall, Call
  <2>4. /\ calls' = Append(calls, c) /\ advertised' = advertised
        /\ UNCHANGED <<path, records, interrupted>>
    BY <1>1, <2>2 DEF StartAdvertising
  <2> QED
    BY <2>1, <2>3, <2>4, AvahiSent
<1>2. CASE UpdateAdvertisement
  <2>1. UNCHANGED <<path, records, interrupted, port>> /\ advertised' # advertised
    BY <1>2 DEF UpdateAdvertisement, AdvertiserTypes
  <2>2. advertised' \in 0..MaxTxt /\ path \in BusObjects
    BY <1>2, AdvertiserAssumption DEF UpdateAdvertisement, AdvertiserTypes
  <2>3. CASE path # NoPath
    <3>1. PICK c : c = Call("UpdateServiceTxt", "update", path, advertised')
      OBVIOUS
    <3>2. /\ c \in CallType /\ c.member = "UpdateServiceTxt" /\ c.function = "update"
          /\ c.object = path /\ c.txt = advertised'
      BY <2>2, <3>1 DEF Call, CallType, Members
    <3>3. calls' = Append(calls, c)
      BY <1>2, <2>3, <3>1 DEF UpdateAdvertisement
    <3> QED
      BY <2>1, <2>3, <3>2, <3>3, AvahiSent
  <2>4. CASE path = NoPath
    <3>1. calls' = calls
      BY <1>2, <2>4 DEF UpdateAdvertisement
    <3>2. ~Live(path)
      BY <2>4, AdvertiserAssumption DEF Live
    <3> QED
      BY <2>1, <3>1, <3>2 DEF AvahiIInv, AvahiCalls, AvahiQueue, GroupsFirst, FilledBeforeCommitted, CommittedIsPath,
                              LastIsLive, ToldIsCurrent, AvahiGoesOn, Is, Live, Waits, ServicesAnnounced
  <2> QED
    BY <2>3, <2>4
<1>3. CASE DestroyAdvertiser
  <2>1. path # NoPath
    BY <1>3 DEF DestroyAdvertiser, CloseBus, Alive
  <2>2. PICK c : c = Call("Free", "destroy", path, advertised)
    OBVIOUS
  <2>3. c \in CallType /\ c.member = "Free" /\ c.function = "destroy" /\ c.object = path
    BY <2>2 DEF Call, CallType, Members, AdvertiserTypes
  <2>4. calls' = Append(calls, c) /\ UNCHANGED <<path, records, interrupted, port, advertised>>
    BY <1>3, <2>1, <2>2 DEF DestroyAdvertiser
  <2> QED
    BY <2>1, <2>3, <2>4, AvahiSent
<1>4. CASE Answered
  <2>1. PICK c \in CallType, ok \in BOOLEAN, more \in Seq(CallType) : AnswerStep(c, ok, more)
    BY <1>4, AnswerParts
  <2>2. AvahiCalls'
    BY <2>1, AvahiCallsAnswered DEF AvahiIInv
  <2>3. ASSUME interrupted' # "settled" PROVE AvahiQueue'
    <3>1. interrupted # "settled" /\ AvahiQueue /\ AvahiCalls
      BY <2>1, <2>3 DEF AnswerStep, AvahiIInv
    <3>2. CASE ~daemon
      <4>1. ~ok
        BY <2>1, <3>2 DEF AnswerStep, Accepts
      <4>2. records' = records /\ interrupted' = interrupted
        BY <2>1, <4>1 DEF AnswerStep
      <4>3. (\A p \in 1..MaxPaths : ~Live(p)') /\ interrupted' # "no"
        BY <3>2, <4>2 DEF BusBasics, DownHoldsNothing, Live
      <4> QED
        BY <4>3, NothingLiveQueue
    <3>3. CASE daemon /\ c.member = "EntryGroupNew"
      BY <2>1, <3>1, <3>3, AvahiGroupMade
    <3>4. CASE daemon /\ c.member # "EntryGroupNew"
      BY <2>1, <3>1, <3>4, AvahiGroupTold
    <3> QED
      BY <3>2, <3>3, <3>4 DEF AdvertiserTypes
  <2> QED
    BY <2>2, <2>3 DEF AvahiIInv
<1>5. CASE DaemonStops
  <2>1. calls' = calls /\ path' = path /\ interrupted' = "stopped"
    BY <1>5 DEF DaemonStops
  <2>2. \A p \in 1..MaxPaths : ~Live(p)'
    BY <1>5 DEF DaemonStops, Live
  <2>3. AvahiCalls'
    BY <2>1 DEF AvahiIInv, AvahiCalls, Is
  <2> QED
    BY <2>1, <2>2, <2>3, NothingLiveQueue DEF AvahiIInv
<1>6. CASE DaemonStarts
  <2>1. UNCHANGED <<path, records, interrupted, port, advertised>> /\ ~daemon
    BY <1>6 DEF DaemonStarts
  <2>2. interrupted = "stopped" /\ \A p \in 1..MaxPaths : ~Live(p)
    BY <2>1 DEF BusBasics, DownHoldsNothing
  <2>3. CASE calls' = Append(calls, FirstCall("start"))
    <3>1. PICK c : c = FirstCall("start")
      OBVIOUS
    <3>2. c \in CallType /\ c.member = "EntryGroupNew" /\ c.function = "start" /\ c.object = NoPath
      BY <3>1, FirstCallType DEF FirstCall, Call
    <3> QED
      BY <2>1, <2>2, <2>3, <3>1, <3>2, AvahiSent
  <2>4. CASE calls' = calls
    <3>1. AvahiCalls'
      BY <2>1, <2>4 DEF AvahiIInv, AvahiCalls, Is
    <3>2. (\A p \in 1..MaxPaths : ~Live(p)') /\ interrupted' # "no"
      BY <2>1, <2>2 DEF Live
    <3> QED
      BY <3>1, <3>2, NothingLiveQueue DEF AvahiIInv
  <2> QED
    BY <1>6, <2>3, <2>4 DEF DaemonStarts, HandleStateChanged
<1>7. CASE HostNameSettled
  <2>1. UNCHANGED <<path, records>> /\ interrupted' = "settled"
    BY <1>7 DEF HostNameSettled
  <2>2. calls' = Append(calls, FirstCall("start")) \/ calls' = calls
    BY <1>7 DEF HostNameSettled, HandleStateChanged
  <2>3. FirstCall("start") \in CallType
    BY FirstCallType
  <2>4. /\ FirstCall("start").member = "EntryGroupNew" /\ FirstCall("start").function = "start"
        /\ FirstCall("start").object = NoPath
    BY DEF FirstCall, Call
  <2>5. calls \in Seq(CallType)
    BY DEF AdvertiserTypes
  <2>6. \A k \in DOMAIN calls' : (k \in DOMAIN calls /\ calls'[k] = calls[k]) \/ calls'[k] = FirstCall("start")
    BY <2>2, <2>3, <2>5, CallAppended
  <2>7. AvahiCalls'
    BY <2>1, <2>4, <2>6 DEF AvahiIInv, AvahiCalls, Is
  <2> QED
    BY <2>1, <2>7 DEF AvahiIInv
<1> QED
  BY <1>1, <1>2, <1>3, <1>4, <1>5, <1>6, <1>7 DEF AdvertiserNext

\* At the start there is nothing to announce.
LEMMA AdvertiserInitially == AdvertiserInit => AdvertiserIInv
<1> SUFFICES ASSUME AdvertiserInit PROVE AdvertiserIInv
  OBVIOUS
<1>1. AdvertiserTypes
  BY AdvertiserTypesInit
<1>2. \A p : ~Live(p)
  BY DEF AdvertiserInit, Live
<1>3. calls = <<>> /\ path = NoPath /\ ~port /\ ~stateListener /\ daemon /\ interrupted = "no"
  BY DEF AdvertiserInit
<1>4. DOMAIN calls = {}
  BY <1>3
<1>5. BusBasics
  BY <1>2, <1>3, <1>4 DEF BusBasics, PathsInOrder, DownHoldsNothing, NothingBeforePort
<1>6. ResolvedIInv
  BY <1>2, <1>3, <1>4 DEF ResolvedIInv, ResolvedCalls, ResolvedAnnounces, ResolvedOnce, RegisteredIsCurrent,
                          FirstRegistration, ResolvedHasPath
<1>7. \A p \in 1..MaxPaths : ~ServicesAnnounced(p)
  BY <1>2 DEF Live, ServicesAnnounced
<1>8. AvahiIInv
  BY <1>2, <1>3, <1>4, <1>7 DEF AvahiIInv, AvahiCalls, AvahiQueue, GroupsFirst, FilledBeforeCommitted, CommittedIsPath,
                                LastIsLive, ToldIsCurrent, AvahiGoesOn
<1> QED
  BY <1>1, <1>5, <1>6, <1>8 DEF AdvertiserIInv

\* Each step keeps the inductive invariant.
LEMMA AdvertiserPreserved == AdvertiserIInv /\ [AdvertiserNext]_advertiserVars => AdvertiserIInv'
<1> SUFFICES ASSUME AdvertiserIInv, [AdvertiserNext]_advertiserVars PROVE AdvertiserIInv'
  OBVIOUS
<1>1. AdvertiserTypes /\ AdvertiserTypes'
  BY AdvertiserTypesPreserved DEF AdvertiserIInv
<1>2. CASE UNCHANGED advertiserVars
  <2>1. Alive' <=> Alive
    BY <1>2 DEF advertiserVars, Alive
  <2>2. BusBasics => BusBasics'
    BY <1>2 DEF advertiserVars, BusBasics, PathsInOrder, DownHoldsNothing, NothingBeforePort, Live
  <2>3. ResolvedIInv => ResolvedIInv'
    BY <1>2 DEF advertiserVars, ResolvedIInv, ResolvedCalls, ResolvedAnnounces, ResolvedOnce, RegisteredIsCurrent,
                FirstRegistration, ResolvedHasPath, Is, Live, UpdateWaits, Waits
  <2>4. AvahiIInv => AvahiIInv'
    BY <1>2 DEF advertiserVars, AvahiIInv, AvahiCalls, AvahiQueue, GroupsFirst, FilledBeforeCommitted, CommittedIsPath,
                LastIsLive, ToldIsCurrent, AvahiGoesOn, Is, Live, Waits, Tells, ServicesAnnounced
  <2>5. backend' = backend
    BY <1>2 DEF advertiserVars
  <2> QED
    BY <1>1, <2>1, <2>2, <2>3, <2>4, <2>5 DEF AdvertiserIInv
<1>3. CASE AdvertiserNext
  <2> SUFFICES ASSUME Alive' PROVE BusBasics' /\ (backend' = "resolved" => ResolvedIInv') /\ (backend' = "avahi" => AvahiIInv')
    BY <1>1 DEF AdvertiserIInv
  <2>1. Alive /\ backend' = backend
    BY <1>3 DEF AdvertiserNext, StartAdvertising, UpdateAdvertisement, DestroyAdvertiser, Answered, DaemonStops,
                DaemonStarts, HostNameSettled
  <2>2. BusBasics /\ (backend = "resolved" => ResolvedIInv) /\ (backend = "avahi" => AvahiIInv)
    BY <2>1 DEF AdvertiserIInv
  <2> QED
    BY <1>1, <1>3, <2>1, <2>2, BasicsPreserved, ResolvedPreserved, AvahiPreserved
<1> QED
  BY <1>2, <1>3

\* When nothing waits, the invariant leaves one record, the current one.
LEMMA SettledIsCurrent == AdvertiserIInv => AnnouncedIsCurrent
<1> SUFFICES ASSUME AdvertiserIInv PROVE AnnouncedIsCurrent
  OBVIOUS
<1>1. AdvertiserTypes
  BY DEF AdvertiserIInv
<1>2. AdvertiserTypeOK
  <2>1. \A k \in DOMAIN calls : calls[k] \in CallType
    BY <1>1, CallTypes
  <2> QED
    BY <1>1, <2>1 DEF AdvertiserTypes, AdvertiserTypeOK, CallType, DaemonRecord, BusObjects
<1>3. ASSUME CallSettled
      PROVE  /\ path # NoPath
             /\ records[path] = [txt |-> advertised, committed |-> TRUE]
             /\ \A p \in 1..MaxPaths \ {path} : ~ServicesAnnounced(p)
  <2>1. Alive /\ port /\ calls = <<>> /\ daemon /\ interrupted = "no" /\ DOMAIN calls = {}
    BY <1>3 DEF CallSettled
  <2>2. backend \in {"resolved", "avahi"}
    BY <1>1, AdvertiserAssumption DEF AdvertiserTypes
  <2>3. /\ Live(path) /\ records[path].txt = advertised /\ records[path].committed
        /\ \A p \in 1..MaxPaths : ServicesAnnounced(p) => p = path
    <3>1. CASE backend = "resolved"
      <4>1. ResolvedIInv
        BY <2>1, <3>1 DEF AdvertiserIInv
      <4>2. Live(path)
        BY <2>1, <4>1 DEF ResolvedIInv, ResolvedHasPath, Waits
      <4>3. path \in 1..MaxPaths
        BY <4>2 DEF Live
      <4>4. records[path].txt = advertised
        BY <2>1, <4>1, <4>2 DEF ResolvedIInv, RegisteredIsCurrent, UpdateWaits
      <4>5. records[path].committed
        BY <4>1, <4>2, <4>3 DEF ResolvedIInv, ResolvedAnnounces
      <4>6. \A p \in 1..MaxPaths : ServicesAnnounced(p) => p = path
        BY <4>1, <4>2, <4>3 DEF ResolvedIInv, ResolvedOnce, ServicesAnnounced, Live
      <4> QED
        BY <4>2, <4>4, <4>5, <4>6
    <3>2. CASE backend = "avahi"
      <4>1. AvahiQueue
        BY <2>1, <3>2 DEF AdvertiserIInv, AvahiIInv
      <4>2. Live(path) /\ records[path].committed
        BY <2>1, <4>1 DEF AvahiQueue, AvahiGoesOn, Waits
      <4>3. records[path].txt = advertised
        BY <2>1, <4>1, <4>2 DEF AvahiQueue, ToldIsCurrent
      <4>4. \A p \in 1..MaxPaths : ServicesAnnounced(p) => p = path
        BY <4>1 DEF AvahiQueue, CommittedIsPath
      <4> QED
        BY <4>2, <4>3, <4>4
    <3> QED
      BY <2>2, <3>1, <3>2
  <2>4. path \in 1..MaxPaths /\ path # NoPath
    BY <2>3, AdvertiserAssumption DEF Live
  <2>5. records[path] \in DaemonRecord
    BY <1>1, <2>3, <2>4 DEF AdvertiserTypes, Live
  <2>6. PICK b \in BOOLEAN : b = TRUE
    OBVIOUS
  <2>7. records[path].committed = b
    BY <2>3, <2>5, <2>6 DEF DaemonRecord
  <2>8. records[path] = [txt |-> advertised, committed |-> b]
    BY <2>3, <2>5, <2>7 DEF DaemonRecord
  <2> QED
    BY <2>3, <2>4, <2>6, <2>8
<1> QED
  BY <1>2, <1>3 DEF AnnouncedIsCurrent

\* AvahiAdvertiser, ResolvedAdvertiser: while the process is up, the daemon runs and a registration has
\* followed its last restart, the host keeping its name, the network hears of the accessory once and of
\* its current record when the calls are answered, however updates have crossed avahi's registrations.
THEOREM AnnouncedAlwaysCurrent == AdvertiserSpec => []AnnouncedIsCurrent
<1>1. AdvertiserSpec => []AdvertiserIInv
  BY AdvertiserInitially, AdvertiserPreserved, PTL DEF AdvertiserSpec
<1> QED
  BY <1>1, SettledIsCurrent, PTL
=============================================================================
