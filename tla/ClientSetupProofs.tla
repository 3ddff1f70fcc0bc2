-------------------------- MODULE ClientSetupProofs --------------------------
(***************************************************************************)
(* Proofs about ClientSetup, for any number of callers, providers, calls   *)
(* and events: a provider that was put aside stays on record, a connected  *)
(* client is not forgotten, a disconnect gives back what it took, and the  *)
(* second attempt of setup heals one clobber.                              *)
(*                                                                         *)
(* The windows the properties leave out end with the next setup that       *)
(* writes a whole record (WholeRecord).                                    *)
(*                                                                         *)
(* The files alone do not carry the argument.  A call that nobody has      *)
(* raced still has in its hand what the state file says (Fresh); one that  *)
(* was raced either holds the owed provider itself or leaves its files to  *)
(* an exception the properties name.                                       *)
(***************************************************************************)
EXTENDS ClientSetup, TLAPS

\* A config that setup, the user or a tool can leave.
Shaped(c) ==
    /\ c \in Configs
    /\ c.provider = Ours => c.inside
    /\ c.inside => c.block /\ c.provider # None

\* Each kind of call has its own places.
Fits(c) ==
    /\ c.pc \in {"config", "verify"} => c.kind \in {"apply", "restore"}
    /\ c.pc \in {"strip", "give", "forget"} => c.kind \in {"disable", "clear"}
    /\ c.pc = "write" => c.kind \in {"apply", "restore", "preserve", "setting"}
    /\ c.pc = "snapshot" => c.kind = "clear"

\* The provider owed is with a call of setup that has not saved it yet; and with
\* one that will not save it any more without an excuse.
Holds(t) ==
    At(t, "write") /\ Is(t, {"apply", "restore"}) /\ call[t].state.preserved = owed
Held == \E t \in Callers : Holds(t)
Overtaken == \E t \in Callers : Holds(t) /\ call[t].raced

\* What a call that nobody has raced knows.
Fresh(t) ==
    LET c == call[t] IN
    /\ c.pc \in {"config", "strip", "give", "forget"} => c.state = file
    /\ c.pc = "write" /\ c.kind = "setting" => c.state = file
    /\ c.pc = "write" /\ c.kind = "preserve" => c.pre = file
    /\ c.pc \in {"strip", "give", "forget"} /\ c.kind = "clear" => c.pre = file
    /\ c.pc = "write" /\ c.kind \in {"apply", "restore"} =>
          \/ c.state.preserved = file.preserved \/ c.state.preserved = owed
          \/ owed = None \/ Overtaken
    /\ c.pc = "forget" => owed = None \/ Held
    /\ c.pc = "snapshot" =>
          /\ file.preserved = None
          /\ wanted => \/ c.pre.configured \/ c.pre.remembered
                       \/ \E u \in Callers \ {t} : At(u, "snapshot")

\* As long as no window was hit.
Unexcused ==
    /\ file # Unparsable
    /\ owed # None => file.preserved = owed \/ Held
    /\ owed # None => config.provider \in {Ours, None} \/ Overtaken
    /\ NotForgotten
    /\ \A t \in Callers : ~call[t].raced => Fresh(t)

\* What a call has noticed of others' changes.
Stripped(t) ==
    call[t].pc \in {"give", "forget"} /\ call[t].kind = "disable" /\ call[t].others = 0
       => config.provider # Ours
Attempt(t) ==
    LET c == call[t] IN
    /\ c.again /\ c.pc \in {"config", "write", "verify"} => c.others >= 1
    /\ c.pc \in {"write", "verify"} /\ c.kind \in {"apply", "restore"} /\ ~Verified =>
          c.others >= (IF c.again THEN 2 ELSE 1)

Shapes ==
    /\ TypeOK
    /\ stale # None => Shaped(stale)
    /\ \A t \in Callers : Fits(call[t]) /\ Stripped(t) /\ Attempt(t)

SetupInv == Shapes /\ (~excused => Unexcused)

-----------------------------------------------------------------------------
\* What somebody else's step leaves of a call, and what it adds to it.
SameCall(u) ==
    /\ call'[u] \in CallStates
    /\ call'[u].pc = call[u].pc /\ call'[u].kind = call[u].kind
    /\ call'[u].again = call[u].again
    /\ call'[u].state = call[u].state /\ call'[u].pre = call[u].pre
    /\ call[u].raced => call'[u].raced
    /\ call[u].others <= call'[u].others
Told(u) ==
    call[u].pc # "idle" /\ call[u].kind \in {"apply", "restore", "disable"} =>
        call'[u].others = (IF call[u].others < 2 THEN call[u].others + 1 ELSE 2)

LEMMA RacedCall ==
    ASSUME NEW c \in CallStates
    PROVE  LET d == [c EXCEPT !.raced = TRUE] IN
           /\ d \in CallStates /\ d.raced /\ d.pc = c.pc /\ d.kind = c.kind
           /\ d.again = c.again /\ d.state = c.state /\ d.pre = c.pre
           /\ d.others = c.others
  BY DEF CallStates

LEMMA NoticedCalls ==
    ASSUME TypeOK, NEW u \in Callers, call'[u] = Noticed[u]
    PROVE  SameCall(u) /\ Told(u) /\ call'[u].raced = call[u].raced
  BY DEF TypeOK, CallStates, SameCall, Told, Noticed, At, Is

LEMMA EditedCalls ==
    ASSUME TypeOK, NEW t \in Callers, NEW new, NEW rec \in CallStates, Edit(t, new, rec)
    PROVE  /\ call' \in [Callers -> CallStates] /\ call'[t] = rec
           /\ \A u \in Callers \ {t} :
                /\ SameCall(u)
                /\ new = config => call'[u] = call[u]
                /\ new # config => Told(u) /\ (call[u].pc # "idle" => call'[u].raced)
<1>1. call'[t] = rec
  BY DEF Edit, TypeOK, Raced
<1>2. ASSUME NEW u \in Callers \ {t}
      PROVE  /\ SameCall(u)
             /\ new = config => call'[u] = call[u]
             /\ new # config => Told(u) /\ (call[u].pc # "idle" => call'[u].raced)
  <2>1. CASE new = config
    BY <2>1 DEF Edit, TypeOK, SameCall, CallStates
  <2>2. CASE new # config
    <3>1. call'[u] = IF At(u, "idle") THEN Noticed[u] ELSE [Noticed[u] EXCEPT !.raced = TRUE]
      BY <2>2 DEF Edit, TypeOK, Raced
    <3>2. /\ Noticed[u] \in CallStates /\ Noticed[u].raced = call[u].raced
          /\ Noticed[u].pc = call[u].pc /\ Noticed[u].kind = call[u].kind
          /\ Noticed[u].again = call[u].again
          /\ Noticed[u].state = call[u].state /\ Noticed[u].pre = call[u].pre
          /\ call[u].others <= Noticed[u].others
      BY DEF TypeOK, CallStates, Noticed, At, Is
    <3>3. call[u].pc # "idle" /\ call[u].kind \in {"apply", "restore", "disable"} =>
             Noticed[u].others = (IF call[u].others < 2 THEN call[u].others + 1 ELSE 2)
      BY DEF TypeOK, CallStates, Noticed, At, Is
    <3>4. CASE At(u, "idle")
      BY <2>2, <3>1, <3>2, <3>4 DEF SameCall, Told, At
    <3>5. CASE ~At(u, "idle")
      <4>1. call'[u] = [Noticed[u] EXCEPT !.raced = TRUE]
        BY <3>1, <3>5
      <4>2. /\ call'[u] \in CallStates /\ call'[u].raced
            /\ call'[u].pc = Noticed[u].pc /\ call'[u].kind = Noticed[u].kind
            /\ call'[u].again = Noticed[u].again
            /\ call'[u].state = Noticed[u].state /\ call'[u].pre = Noticed[u].pre
            /\ call'[u].others = Noticed[u].others
        BY <4>1, <3>2, RacedCall
      <4> QED
        BY <2>2, <3>2, <3>3, <4>2 DEF SameCall, Told
    <3> QED
      BY <3>4, <3>5
  <2> QED
    BY <2>1, <2>2
<1>3. call' \in [Callers -> CallStates]
  <2>1. DOMAIN call' = Callers /\ call' = [u \in Callers |-> call'[u]]
    BY DEF Edit, TypeOK, Raced
  <2> QED
    BY <2>1, <1>1, <1>2 DEF SameCall
<1> QED
  BY <1>1, <1>2, <1>3

LEMMA SavedCalls ==
    ASSUME TypeOK, NEW t \in Callers, NEW new, NEW rec \in CallStates, Save(t, new, rec)
    PROVE  /\ call' \in [Callers -> CallStates] /\ call'[t] = rec
           /\ \A u \in Callers \ {t} :
                /\ SameCall(u)
                /\ call[u].pc # "idle" => call'[u].raced
                /\ call'[u].others = call[u].others
<1>1. call'[t] = rec
  BY DEF Save, TypeOK, Raced
<1>2. ASSUME NEW u \in Callers \ {t}
      PROVE  /\ SameCall(u)
             /\ call[u].pc # "idle" => call'[u].raced
             /\ call'[u].others = call[u].others
  <2>1. call'[u] = IF At(u, "idle") THEN call[u] ELSE [call[u] EXCEPT !.raced = TRUE]
    BY DEF Save, TypeOK, Raced
  <2>2. call[u] \in CallStates /\ call[u].others \in 0..2
    BY DEF TypeOK, CallStates
  <2>3. CASE At(u, "idle")
    BY <2>1, <2>2, <2>3 DEF SameCall, At
  <2>4. CASE ~At(u, "idle")
    <3>1. call'[u] = [call[u] EXCEPT !.raced = TRUE]
      BY <2>1, <2>4
    <3>2. /\ call'[u] \in CallStates /\ call'[u].raced
          /\ call'[u].pc = call[u].pc /\ call'[u].kind = call[u].kind
          /\ call'[u].again = call[u].again
          /\ call'[u].state = call[u].state /\ call'[u].pre = call[u].pre
          /\ call'[u].others = call[u].others
      BY <3>1, <2>2, RacedCall
    <3> QED
      BY <2>2, <3>2 DEF SameCall
  <2> QED
    BY <2>3, <2>4
<1>3. call' \in [Callers -> CallStates]
  <2>1. DOMAIN call' = Callers /\ call' = [u \in Callers |-> call'[u]]
    BY DEF Save, TypeOK, Raced
  <2> QED
    BY <2>1, <1>1, <1>2 DEF SameCall
<1> QED
  BY <1>1, <1>2, <1>3

-----------------------------------------------------------------------------
\* What the operators on the two files return.
LEMMA ShapedConfig ==
    ASSUME NEW c, Shaped(c)
    PROVE  /\ Shaped(Render(c)) /\ Render(c).provider = Ours /\ Render(c).block
           /\ ~Render(c).edited /\ Render(c).customUrl = c.customUrl
           /\ Shaped(Strip(c)) /\ Strip(c).provider # Ours
           /\ Strip(c).provider \in {c.provider, None}
  BY ProviderAssumption DEF Shaped, Configs, Providers, Render, Strip

LEMMA GivenConfig ==
    ASSUME NEW c, Shaped(c), NEW saved \in Foreign \cup {Native}
    PROVE  /\ Shaped(GiveBack(c, saved)) /\ GiveBack(c, saved).provider # Ours
           /\ c.provider \in {Ours, None} =>
                GiveBack(c, saved).provider = IF Exists(c, saved) THEN saved ELSE Native
           /\ \A p : Exists(GiveBack(c, saved), p) <=> Exists(c, p)
<1>1. ~Exists(c, Ours) /\ ~Exists(c, None)
  BY ProviderAssumption DEF Exists, Shaped, Configs
<1>2. CASE Exists(c, c.provider)
  BY <1>1, <1>2 DEF GiveBack
<1>3. CASE ~Exists(c, c.provider)
  <2>1. GiveBack(c, saved) =
          [c EXCEPT !.provider = IF Exists(c, saved) THEN saved ELSE Native,
                    !.inside = FALSE]
    BY <1>3 DEF GiveBack
  <2>2. /\ Shaped(GiveBack(c, saved))
        /\ GiveBack(c, saved).provider = IF Exists(c, saved) THEN saved ELSE Native
        /\ GiveBack(c, saved).tables = c.tables
    BY <2>1, ProviderAssumption DEF Shaped, Configs, Providers
  <2> QED
    BY <2>2, ProviderAssumption DEF Exists
<1> QED
  BY <1>2, <1>3

LEMMA StateEdits ==
    ASSUME NEW s \in SetupStates, NEW displaced \in Providers
    PROVE  /\ Preserve(s, displaced) \in SetupStates
           /\ Preserve(s, displaced).preserved =
                IF displaced \in Foreign \cup {Native} THEN displaced ELSE s.preserved
           /\ Forget(s) \in SetupStates /\ Forget(s).preserved = None
           /\ \A keep \in BOOLEAN :
                LET snapshot == Snapshot(s, keep) IN
                /\ snapshot \in SetupStates /\ snapshot.preserved = s.preserved
                /\ snapshot.remembered <=> s.remembered \/ s.configured
<1>1. ASSUME NEW keep \in BOOLEAN
      PROVE  /\ Snapshot(s, keep) \in SetupStates /\ Snapshot(s, keep).preserved = s.preserved
             /\ Snapshot(s, keep).remembered = (s.remembered \/ s.configured)
  BY DEF SetupStates, Snapshot
<1>2. Preserve(s, displaced) \in SetupStates /\ Forget(s) \in SetupStates
  BY DEF SetupStates, Preserve, Forget
<1>3. /\ Forget(s).preserved = None
      /\ Preserve(s, displaced).preserved =
                IF displaced \in Foreign \cup {Native} THEN displaced ELSE s.preserved
  BY DEF SetupStates, Preserve, Forget
<1> QED
  BY <1>1, <1>2, <1>3

LEMMA LoadedState ==
    ASSUME TypeOK
    PROVE  /\ Default \in SetupStates /\ Loaded \in SetupStates
           /\ file # Unparsable => Loaded = file
           /\ \A aside \in CanSetAside : LeftBy(aside) \in SetupStates \cup {Unparsable}
           /\ file # Unparsable => \A aside \in CanSetAside : LeftBy(aside) = file
           /\ CanSetAside \subseteq BOOLEAN
  BY DEF TypeOK, Loaded, LeftBy, CanSetAside, Default, SetupStates

\* A step of a call that is not excused: none of its files was left open, and it was
\* not raced.
LEMMA ExcuseGiven ==
    ASSUME excused \in BOOLEAN, NEW t, NEW leaving \in BOOLEAN, Excuse(t, leaving)
    PROVE  /\ excused' \in BOOLEAN
           /\ excused => excused'
           /\ ~excused' /\ ~leaving => ~call[t].raced
           /\ ~excused' /\ leaving =>
                ~At(t, "snapshot") /\ ~(At(t, "write") /\ Is(t, {"apply", "restore"}))
  BY DEF Excuse

\* The calls of others keep to what is said of them, as long as they are told when
\* the config changes.
LEMMA OthersKept ==
    ASSUME Shapes, NEW u \in Callers, SameCall(u), config' = config \/ Told(u)
    PROVE  Fits(call'[u]) /\ Stripped(u)' /\ Attempt(u)'
<1>1. call[u].others \in 0..2 /\ call'[u].others \in 0..2
  BY DEF Shapes, TypeOK, CallStates, SameCall
<1>2. Fits(call'[u])
  BY DEF Shapes, Fits, SameCall
<1>3. Stripped(u)'
  <2>1. SUFFICES ASSUME call[u].pc \in {"give", "forget"}, call[u].kind = "disable",
                        call'[u].others = 0
                 PROVE  config'.provider # Ours
    BY DEF Stripped, SameCall
  <2>2. call[u].others = 0 /\ ~Told(u)
    BY <2>1, <1>1 DEF SameCall, Told
  <2> QED
    BY <2>1, <2>2 DEF Shapes, Stripped
<1>4. Attempt(u)'
  BY <1>1 DEF Shapes, Attempt, SameCall, Told, Verified
<1> QED
  BY <1>2, <1>3, <1>4

-----------------------------------------------------------------------------
\* The shape of calls and files, step by step.
LEMMA ReturnShapes ==
    ASSUME Shapes, NEW t \in Callers, Return(t), events' \in 0..MaxEvents,
           excused' \in BOOLEAN, UNCHANGED <<config, file, stale, owed, wanted, calls>>
    PROVE  Shapes' /\ \A u \in Callers \ {t} : call'[u] = call[u]
<1> USE DEF Shapes
<1>1. NoCall \in CallStates /\ NoCall.pc = "idle"
  BY DEF NoCall, CallStates, Places, Kinds, Default, SetupStates
<1>2. /\ call' \in [Callers -> CallStates] /\ call'[t].pc = "idle"
      /\ \A u \in Callers \ {t} : call'[u] = call[u]
  BY <1>1 DEF Return, Goto, TypeOK
<1>3. TypeOK'
  BY <1>2 DEF TypeOK
<1>4. \A u \in Callers : Fits(call'[u]) /\ Stripped(u)' /\ Attempt(u)'
  BY <1>2 DEF Fits, Stripped, Attempt, Verified
<1> QED
  BY <1>2, <1>3, <1>4

LEMMA LoadedCall ==
    ASSUME TypeOK, NEW t \in Callers, NEW kind \in Kinds, NEW takeover \in BOOLEAN,
           Load(t, kind, takeover)
    PROVE  /\ file' \in SetupStates \cup {Unparsable}
           /\ file # Unparsable => file' = file /\ Loaded = file
           /\ call' \in [Callers -> CallStates]
           /\ call'[t].pc = FirstStep(kind) /\ call'[t].kind = kind
           /\ call'[t].state = Loaded
           /\ kind \in {"clear", "preserve"} => call'[t].pre = Loaded
           /\ ~call'[t].again /\ ~call'[t].raced /\ call'[t].others = 0
           /\ \A u \in Callers \ {t} : call'[u] = call[u]
<1>1. PICK aside \in CanSetAside :
        /\ file' = LeftBy(aside)
        /\ call' = [call EXCEPT ![t] =
             [NoCall EXCEPT !.kind = kind, !.takeover = takeover,
                            !.pre = IF kind \in {"clear", "preserve"} THEN Loaded ELSE Default,
                            !.state = Loaded, !.blocked = ~aside,
                            !.pc = FirstStep(kind)]]
  BY DEF Load
<1>2. Loaded \in SetupStates /\ Default \in SetupStates
  BY LoadedState
<1>3. FirstStep(kind) \in Places
  BY DEF FirstStep, Kinds, Places
<1> DEFINE d == call'[t]
<1>4. d = [pc |-> FirstStep(kind), kind |-> kind, takeover |-> takeover, again |-> FALSE,
           blocked |-> ~aside, state |-> Loaded,
           pre |-> IF kind \in {"clear", "preserve"} THEN Loaded ELSE Default,
           raced |-> FALSE, others |-> 0]
  BY <1>1 DEF TypeOK, NoCall
<1>5. /\ d \in CallStates /\ d.pc = FirstStep(kind) /\ d.kind = kind
      /\ d.state = Loaded /\ ~d.again /\ ~d.raced /\ d.others = 0
      /\ kind \in {"clear", "preserve"} => d.pre = Loaded
  <2> HIDE DEF d
  <2> QED
    BY <1>2, <1>3, <1>4 DEF CallStates
<1>6. /\ call' \in [Callers -> CallStates]
      /\ \A u \in Callers \ {t} : call'[u] = call[u]
  BY <1>1, <1>5 DEF TypeOK
<1> QED
  BY <1>1, <1>5, <1>6, LoadedState

LEMMA LoadShapes ==
    ASSUME Shapes, NEW t \in Callers, NEW kind \in Kinds, NEW takeover \in BOOLEAN,
           Load(t, kind, takeover)
    PROVE  Shapes'
<1> USE DEF Shapes
<1>1. TypeOK'
  <2>1. calls' \in 0..MaxCalls
    BY BoundAssumption DEF Load, TypeOK
  <2>2. file' \in SetupStates \cup {Unparsable} /\ call' \in [Callers -> CallStates]
    BY LoadedCall
  <2> QED
    BY <2>1, <2>2 DEF Load, TypeOK
<1>2. Fits(call'[t]) /\ Stripped(t)' /\ Attempt(t)'
  <2>1. /\ call'[t].pc = FirstStep(kind) /\ call'[t].kind = kind
        /\ ~call'[t].again /\ call'[t].others = 0
    BY LoadedCall
  <2> QED
    BY <2>1 DEF Fits, FirstStep, Kinds, Stripped, Attempt
<1>3. ASSUME NEW u \in Callers \ {t}
      PROVE  Fits(call'[u]) /\ Stripped(u)' /\ Attempt(u)'
  <2>1. call'[u] = call[u]
    BY LoadedCall
  <2>2. config' = config
    BY DEF Load
  <2> QED
    BY <2>1, <2>2 DEF Fits, Stripped, Attempt, Verified
<1>4. (stale # None => Shaped(stale))'
  BY DEF Load
<1> QED
  BY <1>1, <1>2, <1>3, <1>4

LEMMA EditShapes ==
    ASSUME Shapes, NEW t \in Callers, NEW new, Shaped(new), NEW rec \in CallStates,
           Edit(t, new, rec), owed' \in Foreign \cup {None}, excused' \in BOOLEAN,
           UNCHANGED <<file, stale, wanted, calls, events>>,
           Fits(rec), Stripped(t)', Attempt(t)'
    PROVE  Shapes'
<1>1. config' = new
  BY DEF Edit
<1>2. TypeOK /\ stale' = stale /\ (stale # None => Shaped(stale))
  BY DEF Shapes
<1>3. call'[t] = rec /\ call' \in [Callers -> CallStates]
  BY <1>2, EditedCalls
<1>4. TypeOK'
  BY <1>1, <1>2, <1>3 DEF TypeOK, Shaped
<1>5. ASSUME NEW u \in Callers \ {t}
      PROVE  Fits(call'[u]) /\ Stripped(u)' /\ Attempt(u)'
  BY <1>1, <1>2, EditedCalls, OthersKept
<1> QED
  BY <1>2, <1>3, <1>4, <1>5 DEF Shapes

LEMMA SaveShapes ==
    ASSUME Shapes, NEW t \in Callers, NEW new \in SetupStates, NEW rec \in CallStates,
           Save(t, new, rec), wanted' \in BOOLEAN, excused' \in BOOLEAN,
           UNCHANGED <<config, stale, owed, calls, events>>,
           Fits(rec), Stripped(t)', Attempt(t)'
    PROVE  Shapes'
<1>1. file' = new
  BY DEF Save
<1>2. TypeOK /\ stale' = stale /\ (stale # None => Shaped(stale))
  BY DEF Shapes
<1>3. call'[t] = rec /\ call' \in [Callers -> CallStates]
  BY <1>2, SavedCalls
<1>4. TypeOK'
  BY <1>1, <1>2, <1>3 DEF TypeOK
<1>5. ASSUME NEW u \in Callers \ {t}
      PROVE  Fits(call'[u]) /\ Stripped(u)' /\ Attempt(u)'
  BY <1>2, SavedCalls, OthersKept
<1> QED
  BY <1>2, <1>3, <1>4, <1>5 DEF Shapes

LEMMA ConfigureShapes ==
    ASSUME Shapes, NEW t \in Callers, Configure(t)
    PROVE  Shapes'
<1> USE DEF Shapes
<1>1. CASE RefusesProvider(t) \/ RefusesUrl
  <2>1. Return(t) /\ UNCHANGED <<config, file, stale, owed, wanted, excused, calls, events>>
    BY <1>1 DEF Configure
  <2> QED
    BY <2>1, ReturnShapes DEF TypeOK
<1>2. CASE ~(RefusesProvider(t) \/ RefusesUrl)
  <2> DEFINE rec == [call[t] EXCEPT !.pc = "write",
                                    !.state = Preserve(@, config.provider)]
  <2>1. /\ Edit(t, Render(config), rec)
        /\ owed' = IF config.provider \in Foreign THEN config.provider ELSE owed
        /\ UNCHANGED <<file, stale, wanted, excused, calls, events>>
    BY <1>2 DEF Configure
  <2>2. Preserve(call[t].state, config.provider) \in SetupStates
    BY StateEdits DEF TypeOK, CallStates, Configs
  <2>3. /\ rec \in CallStates /\ rec.pc = "write" /\ rec.kind = call[t].kind
        /\ rec.again = call[t].again /\ rec.others = call[t].others
    BY <2>2 DEF TypeOK, CallStates, Places
  <2>4. Shaped(config) /\ Shaped(Render(config)) /\ config' = Render(config)
    BY <2>1, ShapedConfig DEF TypeOK, Shaped, Edit
  <2> HIDE DEF rec
  <2>5. call'[t] = rec
    BY <2>1, <2>3, EditedCalls
  <2>6. Fits(rec) /\ Stripped(t)' /\ Attempt(t)'
    <3>1. Verified'
      BY <1>2, <2>4, ShapedConfig DEF Verified, RefusesUrl
    <3> QED
      BY <2>3, <2>5, <3>1 DEF Configure, At, Fits, Stripped, Attempt
  <2>7. owed' \in Foreign \cup {None} /\ excused' \in BOOLEAN
    BY <2>1 DEF TypeOK
  <2> QED
    BY <2>1, <2>3, <2>4, <2>6, <2>7, EditShapes
<1> QED
  BY <1>1, <1>2

LEMMA NoCallIdle ==
    /\ NoCall \in CallStates /\ NoCall.pc = "idle" /\ Fits(NoCall)
  BY DEF NoCall, CallStates, Places, Kinds, Default, SetupStates, Fits

LEMMA SavedState ==
    ASSUME TypeOK, NEW t \in Callers
    PROVE  /\ Saved(t) \in SetupStates
           /\ Is(t, {"apply", "restore"}) =>
                Saved(t).configured /\ Saved(t).preserved = call[t].state.preserved
           /\ Is(t, {"setting"}) => Saved(t) = call[t].state
           /\ Is(t, {"preserve"}) =>
                /\ Saved(t).preserved = call[t].pre.preserved
                /\ Saved(t).remembered <=> call[t].pre.remembered \/ call[t].pre.configured
<1>1. call[t].state \in SetupStates /\ call[t].pre \in SetupStates /\ None \in Providers
  BY DEF TypeOK, CallStates, Providers
<1>2. CASE Is(t, {"apply", "restore"})
  BY <1>1, <1>2 DEF Saved, Is, SetupStates
<1>3. CASE Is(t, {"preserve"})
  BY <1>1, <1>3, StateEdits DEF Saved, Is
<1>4. CASE ~Is(t, {"apply", "restore", "preserve"})
  BY <1>1, <1>4 DEF Saved, Is
<1> QED
  BY <1>2, <1>3, <1>4 DEF Is

LEMMA WriteShapes ==
    ASSUME Shapes, NEW t \in Callers, Write(t)
    PROVE  Shapes'
<1> DEFINE rec == IF Is(t, {"apply", "restore"})
                  THEN [call[t] EXCEPT !.pc = "verify", !.state = Default, !.raced = FALSE]
                  ELSE NoCall
<1>1. /\ At(t, "write") /\ Save(t, Saved(t), rec)
      /\ excused' = FALSE \/ Excuse(t, FALSE)
      /\ wanted' = (wanted \/ Is(t, {"apply", "restore"}))
      /\ UNCHANGED <<config, stale, owed, calls, events>>
  BY DEF Write
<1>2. TypeOK
  BY DEF Shapes
<1>3. /\ rec \in CallStates
      /\ \/ rec.pc = "idle"
         \/ /\ rec.pc = "verify" /\ rec.kind = call[t].kind /\ rec.again = call[t].again
            /\ rec.others = call[t].others /\ call[t].kind \in {"apply", "restore"}
  BY <1>2, NoCallIdle, LoadedState DEF TypeOK, CallStates, Places, Is
<1> HIDE DEF rec
<1>4. call'[t] = rec
  BY <1>1, <1>2, <1>3, SavedCalls
<1>5. Fits(rec) /\ Stripped(t)' /\ Attempt(t)'
  <2>1. Attempt(t)
    BY DEF Shapes
  <2> QED
    BY <1>1, <1>3, <1>4, <2>1 DEF Fits, Stripped, Attempt, At, Verified
<1>6. wanted' \in BOOLEAN /\ excused' \in BOOLEAN
  BY <1>1, <1>2, ExcuseGiven DEF TypeOK
<1>7. Saved(t) \in SetupStates
  BY <1>2, SavedState
<1> QED
  BY <1>1, <1>3, <1>5, <1>6, <1>7, SaveShapes

LEMMA EventCounted ==
    ASSUME TypeOK, Event
    PROVE  events' \in 0..MaxEvents /\ events' # events
  BY BoundAssumption DEF TypeOK, Event

\* The second attempt of a setup.
LEMMA SecondAttempt ==
    ASSUME Shapes, NEW t \in Callers, Verify(t),
           ~(Return(t) /\ UNCHANGED <<file, events>>)
    PROVE  /\ file' \in SetupStates \cup {Unparsable}
           /\ file # Unparsable => file' = file /\ call'[t].state = file
           /\ call' \in [Callers -> CallStates]
           /\ call'[t].pc = "config" /\ call'[t].kind = call[t].kind
           /\ call'[t].again /\ call'[t].others >= 1
           /\ \A u \in Callers \ {t} : call'[u] = call[u]
           /\ events' \in 0..MaxEvents
<1>1. ~call[t].again /\ (IF Verified THEN Event ELSE UNCHANGED events)
  BY DEF Verify
<1>2. PICK aside \in CanSetAside :
        /\ file' = LeftBy(aside)
        /\ Goto(t, [call[t] EXCEPT !.pc = "config", !.again = TRUE, !.state = Loaded,
                                   !.blocked = ~aside, !.raced = FALSE,
                                   !.others = IF Verified /\ @ < 2 THEN @ + 1 ELSE @])
  BY DEF Verify
<1>3. TypeOK /\ At(t, "verify") /\ Attempt(t) /\ Fits(call[t]) /\ call[t] \in CallStates
  BY DEF Shapes, Verify, TypeOK
<1> DEFINE noticed == IF Verified /\ call[t].others < 2 THEN call[t].others + 1
                      ELSE call[t].others
           rec == [call[t] EXCEPT !.pc = "config", !.again = TRUE, !.state = Loaded,
                                  !.blocked = ~aside, !.raced = FALSE, !.others = noticed]
<1>4. noticed \in 0..2 /\ noticed >= 1
  <2>1. call[t].others \in 0..2
    BY <1>3 DEF CallStates
  <2>2. ~Verified => call[t].others >= 1
    BY <1>1, <1>3 DEF Attempt, Fits, At
  <2> QED
    BY <2>1, <2>2
<1>5. Goto(t, rec)
  BY <1>2
<1> HIDE DEF noticed
<1>6. /\ rec \in CallStates /\ rec.pc = "config" /\ rec.kind = call[t].kind
      /\ rec.others = noticed /\ rec.again /\ rec.state = Loaded
  BY ZenonT(30), <1>3, <1>4, LoadedState DEF CallStates, Places
<1> HIDE DEF rec
<1>7. /\ call'[t] = rec /\ call' \in [Callers -> CallStates]
      /\ \A u \in Callers \ {t} : call'[u] = call[u]
  BY <1>3, <1>5, <1>6 DEF Goto, TypeOK
<1>8. events' \in 0..MaxEvents
  BY <1>1, <1>3, EventCounted DEF TypeOK
<1> QED
  BY <1>2, <1>3, <1>4, <1>6, <1>7, <1>8, LoadedState

LEMMA VerifyShapes ==
    ASSUME Shapes, NEW t \in Callers, Verify(t)
    PROVE  Shapes'
<1>1. UNCHANGED <<config, stale, owed, wanted, excused, calls>>
  BY DEF Verify
<1>2. CASE Return(t) /\ UNCHANGED <<file, events>>
  BY <1>1, <1>2, ReturnShapes DEF Shapes, TypeOK
<1>3. CASE ~(Return(t) /\ UNCHANGED <<file, events>>)
  <2>1. /\ file' \in SetupStates \cup {Unparsable} /\ call' \in [Callers -> CallStates]
        /\ events' \in 0..MaxEvents
        /\ call'[t].pc = "config" /\ call'[t].kind = call[t].kind
        /\ call'[t].again /\ call'[t].others >= 1
        /\ \A u \in Callers \ {t} : call'[u] = call[u]
    BY <1>3, SecondAttempt
  <2>2. TypeOK'
    BY <1>1, <2>1 DEF Shapes, TypeOK
  <2>3. Fits(call'[t]) /\ Stripped(t)' /\ Attempt(t)'
    BY <2>1 DEF Shapes, Verify, Fits, Stripped, Attempt, At
  <2>4. ASSUME NEW u \in Callers \ {t}
        PROVE  Fits(call'[u]) /\ Stripped(u)' /\ Attempt(u)'
    BY <1>1, <2>1 DEF Shapes, Fits, Stripped, Attempt, Verified
  <2> QED
    BY <1>1, <2>2, <2>3, <2>4 DEF Shapes
<1> QED
  BY <1>2, <1>3

LEMMA StripShapes ==
    ASSUME Shapes, NEW t \in Callers, StripConfig(t)
    PROVE  Shapes'
<1> DEFINE rec == [call[t] EXCEPT !.pc = "give"]
<1>1. /\ At(t, "strip") /\ Edit(t, Strip(config), rec)
      /\ UNCHANGED <<file, stale, owed, wanted, excused, calls, events>>
  BY DEF StripConfig
<1>2. TypeOK /\ Fits(call[t]) /\ Shaped(config) /\ config' = Strip(config)
  BY <1>1 DEF Shapes, TypeOK, Shaped, Edit
<1>3. /\ rec \in CallStates /\ rec.pc = "give" /\ rec.kind = call[t].kind
      /\ rec.others = call[t].others /\ rec.again = call[t].again
  BY <1>2 DEF TypeOK, CallStates, Places
<1> HIDE DEF rec
<1>4. call'[t] = rec
  BY <1>1, <1>2, <1>3, EditedCalls
<1>5. Shaped(Strip(config)) /\ config'.provider # Ours
  BY <1>2, ShapedConfig
<1>6. Fits(rec) /\ Stripped(t)' /\ Attempt(t)'
  BY <1>1, <1>2, <1>3, <1>4, <1>5 DEF Fits, Stripped, Attempt, At
<1>7. owed' \in Foreign \cup {None} /\ excused' \in BOOLEAN
  BY <1>1, <1>2 DEF TypeOK
<1> QED
  BY <1>1, <1>3, <1>5, <1>6, <1>7, EditShapes

\* What the config becomes when a call gives back.
LEMMA GivenNew ==
    ASSUME Shapes, NEW t \in Callers, RestoreProvider(t)
    PROVE  LET saved == call[t].state.preserved
               new == IF saved = None THEN config ELSE GiveBack(config, saved)
           IN  /\ saved \in Foreign \cup {Native, None}
               /\ Shaped(new) /\ config' = new
               /\ saved = None \/ new.provider # Ours
<1> DEFINE saved == call[t].state.preserved
           new == IF saved = None THEN config ELSE GiveBack(config, saved)
<1>1. saved \in Foreign \cup {Native, None} /\ Shaped(config)
  BY DEF Shapes, TypeOK, CallStates, SetupStates, Shaped
<1>2. config' = new
  BY DEF RestoreProvider, Edit
<1>3. Shaped(new) /\ (saved = None \/ new.provider # Ours)
  BY <1>1, GivenConfig
<1> QED
  BY <1>1, <1>2, <1>3

LEMMA RestoreShapes ==
    ASSUME Shapes, NEW t \in Callers, RestoreProvider(t)
    PROVE  Shapes'
<1> DEFINE saved == call[t].state.preserved
           new == IF saved = None THEN config ELSE GiveBack(config, saved)
           rec == [call[t] EXCEPT !.pc = "forget"]
<1>1. /\ At(t, "give") /\ Edit(t, new, rec) /\ Excuse(t, FALSE)
      /\ owed' \in {None, owed}
      /\ UNCHANGED <<file, stale, wanted, calls, events>>
  BY DEF RestoreProvider
<1>2. TypeOK /\ Fits(call[t]) /\ Stripped(t)
  BY DEF Shapes
<1>3. /\ rec \in CallStates /\ rec.pc = "forget" /\ rec.kind = call[t].kind
      /\ rec.others = call[t].others /\ rec.again = call[t].again
  BY <1>2 DEF TypeOK, CallStates, Places
<1>4. /\ Shaped(new) /\ config' = new
      /\ saved = None => config' = config
      /\ saved = None \/ config'.provider # Ours
  BY GivenNew
<1> HIDE DEF rec, new, saved
<1>5. call'[t] = rec
  BY <1>1, <1>2, <1>3, EditedCalls
<1>6. Fits(rec) /\ Stripped(t)' /\ Attempt(t)'
  BY <1>1, <1>2, <1>3, <1>4, <1>5 DEF Fits, Stripped, Attempt, At
<1>7. owed' \in Foreign \cup {None} /\ excused' \in BOOLEAN
  BY <1>1, <1>2, ExcuseGiven DEF TypeOK
<1> QED
  BY <1>1, <1>3, <1>4, <1>6, <1>7, EditShapes

LEMMA ForgetShapes ==
    ASSUME Shapes, NEW t \in Callers, ForgetSetup(t)
    PROVE  Shapes'
<1> DEFINE rec == IF Is(t, {"clear"})
                  THEN [call[t] EXCEPT !.pc = "snapshot", !.raced = FALSE] ELSE NoCall
<1>1. /\ At(t, "forget") /\ Save(t, Forget(call[t].state), rec) /\ Excuse(t, FALSE)
      /\ wanted' = (wanted /\ Is(t, {"clear"}))
      /\ UNCHANGED <<config, stale, owed, calls, events>>
  BY DEF ForgetSetup
<1>2. TypeOK
  BY DEF Shapes
<1>3. /\ rec \in CallStates
      /\ rec.pc = "idle" \/ (rec.pc = "snapshot" /\ rec.kind = "clear")
  BY <1>2, NoCallIdle DEF TypeOK, CallStates, Places, Is
<1> HIDE DEF rec
<1>4. call'[t] = rec
  BY <1>1, <1>2, <1>3, SavedCalls
<1>5. Fits(rec) /\ Stripped(t)' /\ Attempt(t)'
  BY <1>3, <1>4 DEF Fits, Stripped, Attempt
<1>6. wanted' \in BOOLEAN /\ excused' \in BOOLEAN
  BY <1>1, <1>2, ExcuseGiven DEF TypeOK
<1>7. Forget(call[t].state) \in SetupStates
  BY <1>2, StateEdits DEF TypeOK, CallStates, Configs
<1> QED
  BY <1>1, <1>3, <1>5, <1>6, <1>7, SaveShapes

LEMMA SnapshotShapes ==
    ASSUME Shapes, NEW t \in Callers, WriteSnapshot(t)
    PROVE  Shapes'
<1>1. /\ Save(t, Snapshot(call[t].pre, FALSE), NoCall) /\ Excuse(t, FALSE)
      /\ UNCHANGED <<config, stale, owed, wanted, calls, events>>
  BY DEF WriteSnapshot
<1>2. TypeOK
  BY DEF Shapes
<1>3. call'[t] = NoCall
  BY <1>1, <1>2, NoCallIdle, SavedCalls
<1>4. Fits(NoCall) /\ Stripped(t)' /\ Attempt(t)'
  BY <1>3, NoCallIdle DEF Stripped, Attempt
<1>5. wanted' \in BOOLEAN /\ excused' \in BOOLEAN
  BY <1>1, <1>2, ExcuseGiven DEF TypeOK
<1>6. Snapshot(call[t].pre, FALSE) \in SetupStates
  BY <1>2, StateEdits DEF TypeOK, CallStates, Configs
<1> QED
  BY <1>1, <1>4, <1>5, <1>6, NoCallIdle, SaveShapes

LEMMA FailShapes ==
    ASSUME Shapes, NEW t \in Callers, Fail(t)
    PROVE  Shapes'
<1>1. /\ Event \/ UNCHANGED events
      /\ Excuse(t, TRUE) /\ Return(t)
      /\ UNCHANGED <<config, file, stale, owed, wanted, calls>>
  BY DEF Fail
<1>2. events' \in 0..MaxEvents /\ excused' \in BOOLEAN
  BY <1>1, EventCounted, ExcuseGiven DEF Shapes, TypeOK
<1> QED
  BY <1>1, <1>2, ReturnShapes

-----------------------------------------------------------------------------
\* A change of the config from outside.
LEMMA OutsideShapes ==
    ASSUME Shapes, Shaped(config'), call' = Noticed \/ (call' = call /\ config' = config),
           stale' # None => Shaped(stale'), stale' \in Configs \cup {None},
           owed' \in Foreign \cup {None}, events' \in 0..MaxEvents,
           UNCHANGED <<file, wanted, excused, calls>>
    PROVE  Shapes'
<1>1. TypeOK
  BY DEF Shapes
<1>2. ASSUME NEW u \in Callers
      PROVE  SameCall(u) /\ (config' = config \/ Told(u))
  <2>1. CASE call' = Noticed
    <3>1. call'[u] = Noticed[u]
      BY <2>1
    <3> QED
      BY <3>1, <1>1, NoticedCalls
  <2>2. CASE call' = call /\ config' = config
    BY <2>2, <1>1 DEF TypeOK, SameCall, CallStates
  <2> QED
    BY <2>1, <2>2
<1>3. call' \in [Callers -> CallStates]
  <2>1. call' = [u \in Callers |-> call'[u]]
    BY <1>1 DEF Noticed, TypeOK
  <2> QED
    BY <2>1, <1>2 DEF SameCall
<1>4. TypeOK'
  BY <1>1, <1>3 DEF TypeOK, Shaped
<1>5. \A u \in Callers : Fits(call'[u]) /\ Stripped(u)' /\ Attempt(u)'
  BY <1>2, OthersKept
<1> QED
  BY <1>4, <1>5 DEF Shapes

LEMMA SelectShapes ==
    ASSUME Shapes, Select
    PROVE  Shapes'
<1>1. TypeOK /\ (stale # None => Shaped(stale))
  BY DEF Shapes
<1>2. PICK p \in Foreign \cup {Native, None}, keep \in BOOLEAN :
        config' = [config EXCEPT !.provider = p, !.block = keep /\ @,
                                 !.inside = keep /\ @ /\ p # None]
  BY DEF Select
<1>3. Shaped(config')
  BY Zenon, <1>1, <1>2, ProviderAssumption DEF TypeOK, Shaped, Configs, Providers
<1>4. events' \in 0..MaxEvents
  BY <1>1, EventCounted DEF Select
<1> QED
  BY <1>1, <1>3, <1>4, OutsideShapes DEF Select, TypeOK

LEMMA EditRestShapes ==
    ASSUME Shapes, EditRest
    PROVE  Shapes'
<1>1. TypeOK /\ (stale # None => Shaped(stale))
  BY DEF Shapes
<1>2. Shaped(config')
  BY <1>1 DEF EditRest, TypeOK, Shaped, Configs
<1>3. events' \in 0..MaxEvents
  BY <1>1, EventCounted DEF EditRest
<1> QED
  BY <1>1, <1>2, <1>3, OutsideShapes DEF EditRest, TypeOK

LEMMA ReadCopyShapes ==
    ASSUME Shapes, ReadCopy
    PROVE  Shapes'
<1>1. TypeOK /\ Shaped(config)
  BY DEF Shapes, TypeOK, Shaped
<1>2. events' \in 0..MaxEvents
  BY <1>1, EventCounted DEF ReadCopy
<1> QED
  BY <1>1, <1>2, OutsideShapes DEF ReadCopy, TypeOK, Shaped

LEMMA WriteCopyShapes ==
    ASSUME Shapes, WriteCopy
    PROVE  Shapes'
<1>1. TypeOK /\ Shaped(stale)
  BY DEF Shapes, WriteCopy
<1>2. owed' \in Foreign \cup {None}
  BY <1>1 DEF WriteCopy, TypeOK
<1> QED
  BY <1>1, <1>2, OutsideShapes DEF WriteCopy, TypeOK

LEMMA CrashShapes ==
    ASSUME Shapes, Crash
    PROVE  Shapes'
<1>1. TypeOK /\ (stale # None => Shaped(stale))
  BY DEF Shapes
<1>2. events' \in 0..MaxEvents
  BY <1>1, EventCounted DEF Crash
<1>3. excused' \in BOOLEAN
  BY <1>1 DEF Crash, TypeOK
<1>4. call' \in [Callers -> CallStates] /\ \A u \in Callers : call'[u] = NoCall
  BY NoCallIdle DEF Crash
<1>5. TypeOK'
  BY <1>1, <1>2, <1>3, <1>4 DEF Crash, TypeOK
<1>6. \A u \in Callers : Fits(call'[u]) /\ Stripped(u)' /\ Attempt(u)'
  BY <1>4, NoCallIdle DEF Stripped, Attempt
<1> QED
  BY <1>1, <1>5, <1>6 DEF Shapes, Crash

LEMMA CorruptShapes ==
    ASSUME Shapes, Corrupt
    PROVE  Shapes'
<1>1. TypeOK
  BY DEF Shapes
<1>2. events' \in 0..MaxEvents
  BY <1>1, EventCounted DEF Corrupt
<1>3. TypeOK'
  BY <1>1, <1>2 DEF Corrupt, TypeOK
<1>4. \A u \in Callers : Fits(call'[u]) /\ Stripped(u)' /\ Attempt(u)'
  BY DEF Shapes, Corrupt, Fits, Stripped, Attempt, Verified
<1> QED
  BY <1>3, <1>4 DEF Shapes, Corrupt

LEMMA StutterShapes ==
    ASSUME Shapes, UNCHANGED vars
    PROVE  Shapes'
  BY DEF vars, Shapes, TypeOK, Fits, Stripped, Attempt, Verified

-----------------------------------------------------------------------------
\* What is on record, step by step.  A call that somebody else's step leaves alone
\* still holds what it held.
LEMMA HoldsKept ==
    ASSUME NEW u \in Callers, SameCall(u), owed' = owed
    PROVE  /\ Holds(u)' <=> Holds(u)
           /\ Holds(u) /\ call[u].raced => Holds(u)' /\ call'[u].raced
  BY DEF SameCall, Holds, At, Is

\* A step that saves nothing, and in which only calls that hold nothing move on.
LEMMA NothingSaved ==
    ASSUME Unexcused, NEW moved \in SUBSET Callers,
           \A u \in Callers \ moved : SameCall(u),
           \A u \in moved : /\ ~Holds(u) /\ ~At(u, "snapshot")
                            /\ ~call'[u].raced => Fresh(u)',
           UNCHANGED <<file, wanted>>, ~excused, owed' \in {None, owed},
           config'.provider \in {config.provider, Ours, None} \/ owed' = None
    PROVE  Unexcused'
<1>1. ASSUME owed' # None
      PROVE  owed' = owed /\ (Held => Held') /\ (Overtaken => Overtaken')
  <2>1. owed' = owed
    BY <1>1
  <2>2. \A u \in Callers : Holds(u) => u \notin moved
    OBVIOUS
  <2>3. \A u \in Callers : Holds(u) => Holds(u)' /\ (call[u].raced => call'[u].raced)
    BY <2>1, <2>2, HoldsKept
  <2> QED
    BY <2>1, <2>3 DEF Held, Overtaken
<1>2. \A u \in Callers : At(u, "snapshot") => At(u, "snapshot")'
  BY DEF At, SameCall
<1>3. NotForgotten'
  BY <1>2 DEF Unexcused, NotForgotten
<1>4. ASSUME NEW u \in Callers \ moved, ~call'[u].raced PROVE Fresh(u)'
  <2>1. Fresh(u) /\ SameCall(u)
    BY <1>4 DEF Unexcused, SameCall
  <2> QED
    BY <2>1, <1>1, <1>2 DEF Fresh, SameCall, At
<1> QED
  BY <1>1, <1>3, <1>4 DEF Unexcused

LEMMA UntouchedCall ==
    ASSUME TypeOK, NEW u \in Callers, call'[u] = call[u]
    PROVE  SameCall(u)
  BY DEF TypeOK, CallStates, SameCall

LEMMA OneMoves ==
    ASSUME Unexcused, NEW t \in Callers, \A u \in Callers \ {t} : SameCall(u),
           ~Holds(t), ~At(t, "snapshot"), ~call'[t].raced => Fresh(t)',
           UNCHANGED <<file, wanted>>, ~excused, owed' \in {None, owed},
           config'.provider \in {config.provider, Ours, None} \/ owed' = None
    PROVE  Unexcused'
<1>1. /\ {t} \in SUBSET Callers
      /\ \A u \in {t} : /\ ~Holds(u) /\ ~At(u, "snapshot")
                        /\ ~call'[u].raced => Fresh(u)'
  OBVIOUS
<1> QED
  BY <1>1, NothingSaved

LEMMA LoadRecord ==
    ASSUME Shapes, Unexcused, ~excused, NEW t \in Callers, NEW kind \in Kinds,
           NEW takeover \in BOOLEAN, Load(t, kind, takeover)
    PROVE  Unexcused'
<1>1. TypeOK /\ At(t, "idle") /\ file # Unparsable
  BY DEF Shapes, Load, Unexcused
<1>2. UNCHANGED <<config, owed, wanted>>
  BY DEF Load
<1>3. /\ file' = file /\ call'[t].pc = FirstStep(kind) /\ call'[t].kind = kind
      /\ call'[t].state = file
      /\ kind \in {"clear", "preserve"} => call'[t].pre = file
  BY <1>1, LoadedCall
<1>4. \A u \in Callers \ {t} : SameCall(u)
  BY <1>1, LoadedCall, UntouchedCall
<1>5. ~Holds(t) /\ ~At(t, "snapshot")
  BY <1>1 DEF Holds, At
<1>6. Fresh(t)'
  BY <1>3 DEF Fresh, FirstStep, Kinds
<1> QED
  BY <1>2, <1>3, <1>4, <1>5, <1>6, OneMoves

LEMMA ReturnRecord ==
    ASSUME Shapes, Unexcused, ~excused, NEW t \in Callers, Return(t),
           ~At(t, "snapshot"), ~Holds(t), UNCHANGED <<config, file, owed, wanted>>
    PROVE  Unexcused'
<1>1. call'[t] = NoCall /\ \A u \in Callers \ {t} : SameCall(u)
  BY UntouchedCall DEF Shapes, TypeOK, Return, Goto
<1>2. Fresh(t)'
  BY <1>1, NoCallIdle DEF Fresh
<1> QED
  BY <1>1, <1>2, OneMoves

LEMMA ConfigureRecord ==
    ASSUME Shapes, Unexcused, ~excused, NEW t \in Callers, Configure(t)
    PROVE  Unexcused'
<1>1. TypeOK /\ At(t, "config") /\ call[t].kind \in {"apply", "restore"} /\ Shaped(config)
  BY DEF Shapes, Configure, Fits, At, TypeOK, Shaped
<1>2. ~Holds(t) /\ ~At(t, "snapshot")
  BY <1>1 DEF Holds, At
<1>3. CASE RefusesProvider(t) \/ RefusesUrl
  BY <1>2, <1>3, ReturnRecord DEF Configure
<1>4. CASE ~(RefusesProvider(t) \/ RefusesUrl)
  <2> DEFINE rec == [call[t] EXCEPT !.pc = "write",
                                    !.state = Preserve(@, config.provider)]
  <2>1. /\ Edit(t, Render(config), rec) /\ config' = Render(config)
        /\ owed' = IF config.provider \in Foreign THEN config.provider ELSE owed
        /\ UNCHANGED <<file, stale, wanted, excused, calls, events>>
    BY <1>4 DEF Configure, Edit
  <2>2. call[t].state \in SetupStates /\ config.provider \in Providers
    BY <1>1 DEF TypeOK, CallStates, Configs
  <2>3. /\ Preserve(call[t].state, config.provider) \in SetupStates
        /\ Preserve(call[t].state, config.provider).preserved =
              IF config.provider \in Foreign \cup {Native}
              THEN config.provider ELSE call[t].state.preserved
    BY <2>2, StateEdits
  <2>4. /\ rec \in CallStates /\ rec.pc = "write" /\ rec.kind = call[t].kind
        /\ rec.raced = call[t].raced
        /\ rec.state.preserved = IF config.provider \in Foreign \cup {Native}
                                 THEN config.provider ELSE call[t].state.preserved
    BY Zenon, <1>1, <2>3 DEF TypeOK, CallStates, Places
  <2> HIDE DEF rec
  <2>5. /\ call'[t] = rec
        /\ \A u \in Callers \ {t} :
             /\ SameCall(u)
             /\ Render(config) # config /\ call[u].pc # "idle" => call'[u].raced
    BY <1>1, <2>1, <2>4, EditedCalls
  <2>6. config'.provider = Ours
    BY <1>1, <2>1, ShapedConfig
  <2>7. \A u \in Callers : At(u, "snapshot") => At(u, "snapshot")'
    BY <1>2, <2>5 DEF At, SameCall
  <2>8. NotForgotten'
    BY <2>1, <2>7 DEF Unexcused, NotForgotten
  <2>9. CASE config.provider \in Foreign
    <3>1. owed' = config.provider /\ rec.state.preserved = config.provider
      BY <2>1, <2>4, <2>9
    <3>2. Render(config) # config
      BY <2>1, <2>6, <2>9, ProviderAssumption
    <3>3. Holds(t)'
      BY <1>1, <2>4, <2>5, <3>1 DEF Holds, At, Is
    <3>4. Fresh(t)'
      BY <1>1, <2>4, <2>5, <3>1 DEF Fresh
    <3>5. ASSUME NEW u \in Callers \ {t}, ~call'[u].raced PROVE Fresh(u)'
      <4>1. call'[u].pc = "idle"
        BY <2>5, <3>2, <3>5 DEF SameCall
      <4> QED
        BY <4>1 DEF Fresh
    <3> QED
      BY <2>1, <2>6, <2>8, <3>3, <3>4, <3>5 DEF Unexcused, Held
  <2>10. CASE config.provider \notin Foreign
    <3>1. owed' = owed
      BY <2>1, <2>10
    <3>2. \A u \in Callers : Holds(u) => Holds(u)' /\ (call[u].raced => call'[u].raced)
      BY <1>2, <2>5, <3>1, HoldsKept
    <3>3. (Held => Held') /\ (Overtaken => Overtaken')
      BY <3>2 DEF Held, Overtaken
    <3>4. ASSUME ~call'[t].raced PROVE Fresh(t)'
      <4>1. Fresh(t) /\ call[t].state = file
        BY <1>1, <2>4, <2>5, <3>4 DEF Unexcused, Fresh, At
      <4>2. CASE config.provider = Native
        <5>1. owed = None \/ Overtaken
          BY <4>2, ProviderAssumption DEF Unexcused
        <5> QED
          BY <1>1, <2>4, <2>5, <3>1, <3>3, <5>1 DEF Fresh
      <4>3. CASE config.provider # Native
        BY <1>1, <2>1, <2>4, <2>5, <2>10, <4>1, <4>3 DEF Fresh
      <4> QED
        BY <4>2, <4>3
    <3>5. ASSUME NEW u \in Callers \ {t}, ~call'[u].raced PROVE Fresh(u)'
      <4>1. Fresh(u) /\ SameCall(u)
        BY <2>5, <3>5 DEF Unexcused, SameCall
      <4> QED
        BY <2>1, <2>7, <3>1, <3>3, <4>1 DEF Fresh, SameCall, At
    <3> QED
      BY <2>1, <2>6, <2>8, <3>1, <3>3, <3>4, <3>5 DEF Unexcused
  <2> QED
    BY <2>9, <2>10
<1> QED
  BY <1>3, <1>4

LEMMA VerifyRecord ==
    ASSUME Shapes, Unexcused, ~excused, NEW t \in Callers, Verify(t)
    PROVE  Unexcused'
<1>1. TypeOK /\ At(t, "verify") /\ file # Unparsable
      /\ UNCHANGED <<config, owed, wanted>>
  BY DEF Shapes, Verify, Unexcused
<1>2. ~Holds(t) /\ ~At(t, "snapshot")
  BY <1>1 DEF Holds, At
<1>3. CASE Return(t) /\ UNCHANGED <<file, events>>
  BY <1>1, <1>2, <1>3, ReturnRecord
<1>4. CASE ~(Return(t) /\ UNCHANGED <<file, events>>)
  <2>1. /\ file' = file /\ call'[t].pc = "config" /\ call'[t].state = file
        /\ \A u \in Callers \ {t} : call'[u] = call[u]
    BY <1>1, <1>4, SecondAttempt
  <2>2. \A u \in Callers \ {t} : SameCall(u)
    BY <1>1, <2>1, UntouchedCall
  <2>3. Fresh(t)'
    BY <2>1 DEF Fresh
  <2> QED
    BY <1>1, <1>2, <2>1, <2>2, <2>3, OneMoves
<1> QED
  BY <1>3, <1>4

LEMMA StripRecord ==
    ASSUME Shapes, Unexcused, ~excused, NEW t \in Callers, StripConfig(t)
    PROVE  Unexcused'
<1> DEFINE rec == [call[t] EXCEPT !.pc = "give"]
<1>1. /\ At(t, "strip") /\ Edit(t, Strip(config), rec) /\ config' = Strip(config)
      /\ UNCHANGED <<file, stale, owed, wanted, excused, calls, events>>
  BY DEF StripConfig, Edit
<1>2. TypeOK /\ Fits(call[t]) /\ Shaped(config)
  BY DEF Shapes, TypeOK, Shaped
<1>3. /\ rec \in CallStates /\ rec.pc = "give" /\ rec.kind = call[t].kind
      /\ rec.state = call[t].state /\ rec.pre = call[t].pre /\ rec.raced = call[t].raced
  BY <1>2 DEF TypeOK, CallStates, Places
<1> HIDE DEF rec
<1>4. call'[t] = rec /\ \A u \in Callers \ {t} : SameCall(u)
  BY <1>1, <1>2, <1>3, EditedCalls
<1>5. ~Holds(t) /\ ~At(t, "snapshot")
  BY <1>1 DEF Holds, At
<1>6. ASSUME ~call'[t].raced PROVE Fresh(t)'
  <2>1. Fresh(t)
    BY <1>3, <1>4, <1>6 DEF Unexcused
  <2> QED
    BY <1>1, <1>3, <1>4, <2>1 DEF Fresh, At
<1>7. config'.provider \in {config.provider, None}
  BY <1>1, <1>2, ShapedConfig
<1> QED
  BY <1>1, <1>4, <1>5, <1>6, <1>7, OneMoves

LEMMA RestoreRecord ==
    ASSUME Shapes, Unexcused, ~excused', excused \in BOOLEAN,
           NEW t \in Callers, RestoreProvider(t)
    PROVE  Unexcused'
<1> DEFINE saved == call[t].state.preserved
           new == IF saved = None THEN config ELSE GiveBack(config, saved)
           rec == [call[t] EXCEPT !.pc = "forget"]
<1>1. /\ At(t, "give") /\ Edit(t, new, rec) /\ config' = new /\ Excuse(t, FALSE)
      /\ owed' = IF saved # None /\ (new.provider = owed \/ ~Exists(new, owed))
                 THEN None ELSE owed
      /\ UNCHANGED <<file, stale, wanted, calls, events>>
  BY DEF RestoreProvider, Edit
<1>2. TypeOK /\ Shaped(config) /\ saved \in Foreign \cup {Native, None}
  BY DEF Shapes, TypeOK, Shaped, CallStates, SetupStates
<1>3. ~call[t].raced /\ Fresh(t)
  BY <1>1, ExcuseGiven DEF Unexcused
<1>4. saved = file.preserved /\ ~Holds(t) /\ ~At(t, "snapshot")
  BY <1>1, <1>3 DEF Fresh, Holds, At
<1>5. /\ rec \in CallStates /\ rec.pc = "forget" /\ rec.kind = call[t].kind
      /\ rec.state = call[t].state /\ rec.pre = call[t].pre
  BY <1>2 DEF TypeOK, CallStates, Places
<1>6. saved # None =>
        /\ config.provider \in {Ours, None} =>
             new.provider = IF Exists(config, saved) THEN saved ELSE Native
        /\ \A p : Exists(new, p) <=> Exists(config, p)
  BY <1>2, GivenConfig
<1>7. saved = None => new = config
  OBVIOUS
<1> HIDE DEF rec, new, saved
<1>8. /\ call'[t] = rec
      /\ \A u \in Callers \ {t} :
           /\ SameCall(u)
           /\ new = config => call'[u] = call[u]
           /\ new # config /\ call[u].pc # "idle" => call'[u].raced
  BY <1>1, <1>2, <1>5, EditedCalls
<1>9. ASSUME owed' # None
      PROVE  owed' = owed /\ Held /\ Held' /\ (Overtaken' \/ config' = config)
  <2>1. owed' = owed /\ owed # None
    BY <1>1, <1>9
  <2>2. \A u \in Callers : Holds(u) => u # t /\ call[u].pc # "idle" /\ Holds(u)'
    BY <1>4, <1>8, <2>1, HoldsKept DEF Holds, At
  <2>3. Overtaken => Overtaken'
    BY <1>8, <2>2 DEF Overtaken, SameCall
  <2>4. Held
    <3>1. SUFFICES ASSUME ~Held PROVE FALSE
      OBVIOUS
    <3>2. saved = owed /\ config.provider \in {Ours, None}
      BY <1>4, <2>1, <3>1 DEF Unexcused, Overtaken, Held
    <3> QED
      BY <1>1, <1>6, <1>9, <2>1, <3>2
  <2>5. Held' /\ (Overtaken' \/ config' = config)
    BY <1>1, <1>8, <2>2, <2>4 DEF Held, Overtaken
  <2> QED
    BY <2>1, <2>4, <2>5
<1>10. owed' # None => config'.provider \in {Ours, None} \/ Overtaken'
  <2>1. ASSUME owed' # None, ~Overtaken' PROVE config'.provider \in {Ours, None}
    <3>1. owed' = owed /\ config' = config
      BY <1>9, <2>1
    <3>2. ~Overtaken
      BY <1>4, <1>8, <2>1, <3>1, HoldsKept DEF Overtaken
    <3> QED
      BY <2>1, <3>1, <3>2 DEF Unexcused
  <2> QED
    BY <2>1
<1>11. NotForgotten'
  <2>1. \A u \in Callers : At(u, "snapshot") => At(u, "snapshot")'
    BY <1>4, <1>8 DEF At, SameCall
  <2> QED
    BY <1>1, <1>2, <2>1, ExcuseGiven DEF Unexcused, NotForgotten
<1>12. Fresh(t)'
  BY <1>1, <1>3, <1>5, <1>8, <1>9 DEF Fresh, At
<1>13. ASSUME NEW u \in Callers \ {t}, ~call'[u].raced PROVE Fresh(u)'
  <2>1. CASE call'[u].pc = "idle"
    BY <2>1 DEF Fresh
  <2>2. CASE call'[u].pc # "idle"
    <3>1. /\ call'[u] = call[u] /\ Fresh(u)
      BY <1>8, <1>13, <2>2 DEF Unexcused, SameCall
    <3>2. \A v \in Callers \ {u} : At(v, "snapshot") => At(v, "snapshot")'
      BY <1>4, <1>8 DEF At, SameCall
    <3>3. owed' # None => owed' = owed /\ Held' /\ (Overtaken => Overtaken')
      BY <1>4, <1>8, <1>9, HoldsKept DEF Overtaken
    <3> QED
      BY <1>1, <3>1, <3>2, <3>3 DEF Fresh
  <2> QED
    BY <2>1, <2>2
<1> QED
  BY <1>1, <1>9, <1>10, <1>11, <1>12, <1>13 DEF Unexcused

\* A save by a call that nobody has raced: what is left to show is what the file, and
\* the call itself, say then.
LEMMA OneSaves ==
    ASSUME TypeOK, Unexcused, NEW t \in Callers, NEW new \in SetupStates,
           NEW rec \in CallStates, Save(t, new, rec), ~call[t].raced,
           UNCHANGED <<config, owed>>,
           owed # None => new.preserved = owed \/ \E u \in Callers \ {t} : Holds(u),
           NotForgotten', ~rec.raced => Fresh(t)'
    PROVE  Unexcused'
<1>1. file' = new /\ file' # Unparsable
  BY ParseAssumption DEF Save
<1>2. /\ call'[t] = rec
      /\ \A u \in Callers \ {t} : SameCall(u) /\ (call[u].pc # "idle" => call'[u].raced)
  BY SavedCalls
<1>3. \A u \in Callers \ {t} : Holds(u) => Holds(u)' /\ call'[u].raced
  BY <1>2, HoldsKept DEF Holds, At
<1>4. owed' # None => file'.preserved = owed' \/ Held'
  BY <1>1, <1>3 DEF Held
<1>5. owed' # None => config'.provider \in {Ours, None} \/ Overtaken'
  <2>1. Overtaken => Overtaken'
    BY <1>3 DEF Overtaken
  <2> QED
    BY <2>1 DEF Unexcused
<1>6. ASSUME NEW u \in Callers, ~call'[u].raced PROVE Fresh(u)'
  <2>1. CASE u = t
    BY <1>2, <1>6, <2>1
  <2>2. CASE u # t
    <3>1. call'[u].pc = "idle"
      BY <1>2, <1>6, <2>2 DEF SameCall
    <3> QED
      BY <3>1 DEF Fresh
  <2> QED
    BY <2>1, <2>2
<1> QED
  BY <1>1, <1>4, <1>5, <1>6 DEF Unexcused

\* A record written whole makes the files agree, whatever they said before.
LEMMA WholeRecord ==
    ASSUME Shapes, NEW t \in Callers, Write(t), WritesWhole(t)
    PROVE  Unexcused'
<1> DEFINE rec == [call[t] EXCEPT !.pc = "verify", !.state = Default, !.raced = FALSE]
<1>1. /\ Save(t, Saved(t), rec) /\ file' = Saved(t) /\ UNCHANGED <<config, owed>>
      /\ Is(t, {"apply", "restore"}) /\ config.provider = Ours
      /\ owed \in {None, call[t].state.preserved}
  BY DEF Write, Save, WritesWhole, Verified
<1>2. TypeOK
  BY DEF Shapes
<1>3. rec \in CallStates /\ rec.pc = "verify"
  BY <1>2, LoadedState DEF TypeOK, CallStates, Places
<1> HIDE DEF rec
<1>4. /\ call'[t] = rec
      /\ \A u \in Callers \ {t} : SameCall(u) /\ (call[u].pc # "idle" => call'[u].raced)
  BY <1>1, <1>2, <1>3, SavedCalls
<1>5. /\ Saved(t) \in SetupStates /\ Saved(t).configured
      /\ Saved(t).preserved = call[t].state.preserved
  BY <1>1, <1>2, SavedState
<1>6. ASSUME NEW u \in Callers, ~call'[u].raced PROVE Fresh(u)'
  <2>1. call'[u].pc \in {"verify", "idle"}
    BY <1>3, <1>4, <1>6 DEF SameCall
  <2> QED
    BY <2>1 DEF Fresh
<1> QED
  BY <1>1, <1>5, <1>6, ParseAssumption DEF Unexcused, NotForgotten

LEMMA WriteRecord ==
    ASSUME Shapes, Unexcused, ~excused', NEW t \in Callers, Write(t), ~WritesWhole(t)
    PROVE  Unexcused'
<1> DEFINE rec == IF Is(t, {"apply", "restore"})
                  THEN [call[t] EXCEPT !.pc = "verify", !.state = Default, !.raced = FALSE]
                  ELSE NoCall
<1>1. /\ At(t, "write") /\ Save(t, Saved(t), rec) /\ Excuse(t, FALSE)
      /\ file' = Saved(t)
      /\ wanted' = (wanted \/ Is(t, {"apply", "restore"}))
      /\ UNCHANGED <<config, stale, owed, calls, events>>
  BY DEF Write, Save
<1>2. TypeOK /\ Fits(call[t])
  BY DEF Shapes
<1>3. ~call[t].raced /\ Fresh(t) /\ ~excused
  BY <1>1, <1>2, ExcuseGiven DEF TypeOK, Unexcused
<1>4. rec \in CallStates /\ rec.pc \in {"verify", "idle"}
  BY <1>2, NoCallIdle, LoadedState DEF TypeOK, CallStates, Places, Is
<1> HIDE DEF rec
<1>5. call'[t] = rec /\ \A u \in Callers \ {t} : SameCall(u)
  BY <1>1, <1>2, <1>4, SavedCalls
<1>6. Fresh(t)'
  BY <1>4, <1>5 DEF Fresh
<1>7. Is(t, {"apply", "restore"}) \/ Is(t, {"setting"}) \/ Is(t, {"preserve"})
  BY <1>1, <1>2 DEF Fits, At, Is
<1>8. owed # None => Saved(t).preserved = owed \/ \E u \in Callers \ {t} : Holds(u)
  <2>1. SUFFICES ASSUME owed # None, \A u \in Callers \ {t} : ~Holds(u)
                 PROVE  Saved(t).preserved = owed
    OBVIOUS
  <2>2. CASE Is(t, {"apply", "restore"})
    <3>1. Saved(t).preserved = call[t].state.preserved
      BY <1>2, <2>2, SavedState
    <3>2. ~Overtaken
      BY <1>3, <2>1 DEF Overtaken
    <3>3. file.preserved = owed \/ call[t].state.preserved = owed
      BY <2>1 DEF Unexcused, Held, Holds
    <3> QED
      BY <1>1, <1>3, <2>1, <2>2, <3>1, <3>2, <3>3 DEF Fresh, At, Is
  <2>3. CASE Is(t, {"setting"}) \/ Is(t, {"preserve"})
    <3>1. ~Holds(t)
      BY <2>3 DEF Holds, Is
    <3>2. file.preserved = owed
      BY <2>1, <3>1 DEF Unexcused, Held
    <3> QED
      BY <1>1, <1>2, <1>3, <2>3, <3>2, SavedState DEF Fresh, At, Is
  <2> QED
    BY <1>7, <2>2, <2>3
<1>9. NotForgotten'
  <2>1. CASE Is(t, {"apply", "restore"})
    BY <1>1, <1>2, <2>1, SavedState DEF NotForgotten
  <2>2. CASE Is(t, {"setting"}) \/ Is(t, {"preserve"})
    <3>1. wanted' = wanted
      BY <1>1, <1>2, <2>2 DEF TypeOK, Is
    <3>2. file.configured \/ file.remembered => file'.configured \/ file'.remembered
      BY <1>1, <1>2, <1>3, <2>2, SavedState DEF Fresh, At, Is
    <3>3. \A u \in Callers : At(u, "snapshot") => At(u, "snapshot")'
      BY <1>1, <1>5 DEF At, SameCall
    <3> QED
      BY <1>3, <3>1, <3>2, <3>3 DEF Unexcused, NotForgotten
  <2> QED
    BY <1>7, <2>1, <2>2
<1>10. Saved(t) \in SetupStates
  BY <1>2, SavedState
<1> QED
  BY <1>1, <1>2, <1>3, <1>4, <1>6, <1>8, <1>9, <1>10, OneSaves

LEMMA ForgetRecord ==
    ASSUME Shapes, Unexcused, ~excused', NEW t \in Callers, ForgetSetup(t)
    PROVE  Unexcused'
<1> DEFINE rec == IF Is(t, {"clear"})
                  THEN [call[t] EXCEPT !.pc = "snapshot", !.raced = FALSE] ELSE NoCall
<1>1. /\ At(t, "forget") /\ Save(t, Forget(call[t].state), rec) /\ Excuse(t, FALSE)
      /\ file' = Forget(call[t].state)
      /\ wanted' = (wanted /\ Is(t, {"clear"}))
      /\ UNCHANGED <<config, stale, owed, calls, events>>
  BY DEF ForgetSetup, Save
<1>2. TypeOK /\ Fits(call[t])
  BY DEF Shapes
<1>3. ~call[t].raced /\ Fresh(t) /\ ~excused
  BY <1>1, <1>2, ExcuseGiven DEF TypeOK, Unexcused
<1>4. /\ rec \in CallStates
      /\ \/ ~Is(t, {"clear"}) /\ rec.pc = "idle"
         \/ Is(t, {"clear"}) /\ rec.pc = "snapshot" /\ rec.pre = call[t].pre
  BY <1>2, NoCallIdle DEF TypeOK, CallStates, Places, Is
<1> HIDE DEF rec
<1>5. call'[t] = rec /\ \A u \in Callers \ {t} : SameCall(u)
  BY <1>1, <1>2, <1>4, SavedCalls
<1>6. Forget(call[t].state) \in SetupStates /\ Forget(call[t].state).preserved = None
  BY <1>2, StateEdits DEF TypeOK, CallStates, Configs
<1>7. owed # None => \E u \in Callers \ {t} : Holds(u)
  BY <1>1, <1>3 DEF Fresh, At, Held, Holds
<1>8. NotForgotten'
  BY <1>1, <1>4, <1>5 DEF NotForgotten, At
<1>9. Fresh(t)'
  <2>1. CASE ~Is(t, {"clear"})
    BY <1>4, <1>5, <2>1 DEF Fresh
  <2>2. CASE Is(t, {"clear"})
    <3>1. call[t].pre = file
      BY <1>1, <1>3, <2>2 DEF Fresh, At, Is
    <3>2. wanted' => \/ file.configured \/ file.remembered
                     \/ \E u \in Callers : At(u, "snapshot")
      BY <1>1, <1>3 DEF Unexcused, NotForgotten
    <3>3. \A u \in Callers : At(u, "snapshot") => u # t /\ At(u, "snapshot")'
      BY <1>1, <1>5 DEF At, SameCall
    <3> QED
      BY <1>1, <1>4, <1>5, <1>6, <2>2, <3>1, <3>2, <3>3 DEF Fresh
  <2> QED
    BY <2>1, <2>2
<1> QED
  BY <1>1, <1>2, <1>3, <1>4, <1>6, <1>7, <1>8, <1>9, OneSaves

LEMMA SnapshotRecord ==
    ASSUME Shapes, Unexcused, ~excused', NEW t \in Callers, WriteSnapshot(t)
    PROVE  Unexcused'
<1> DEFINE new == Snapshot(call[t].pre, FALSE)
<1>1. /\ At(t, "snapshot") /\ Save(t, new, NoCall) /\ Excuse(t, FALSE)
      /\ file' = new
      /\ UNCHANGED <<config, stale, owed, wanted, calls, events>>
  BY DEF WriteSnapshot, Save
<1>2. TypeOK
  BY DEF Shapes
<1>3. ~call[t].raced /\ Fresh(t) /\ ~excused
  BY <1>1, <1>2, ExcuseGiven DEF TypeOK, Unexcused
<1>4. call'[t] = NoCall /\ \A u \in Callers \ {t} : SameCall(u)
  BY <1>1, <1>2, NoCallIdle, SavedCalls
<1>5. call[t].pre \in SetupStates /\ config.provider \in Providers
  BY <1>2 DEF TypeOK, CallStates, Configs
<1>6. /\ new \in SetupStates
      /\ new.remembered <=> call[t].pre.remembered \/ call[t].pre.configured
  BY <1>5, StateEdits
<1> HIDE DEF new
<1>7. owed # None => \E u \in Callers \ {t} : Holds(u)
  BY <1>1, <1>3 DEF Fresh, At, Unexcused, Held, Holds
<1>8. NotForgotten'
  <2>1. \A u \in Callers \ {t} : At(u, "snapshot") => At(u, "snapshot")'
    BY <1>4 DEF At, SameCall
  <2> QED
    BY <1>1, <1>3, <1>6, <2>1 DEF Fresh, At, NotForgotten
<1>9. Fresh(t)'
  BY <1>4, NoCallIdle DEF Fresh
<1> QED
  BY <1>1, <1>2, <1>3, <1>6, <1>7, <1>8, <1>9, NoCallIdle, OneSaves

LEMMA FailRecord ==
    ASSUME Shapes, Unexcused, ~excused', NEW t \in Callers, Fail(t)
    PROVE  Unexcused'
<1>1. ~excused /\ ~At(t, "snapshot") /\ ~(At(t, "write") /\ Is(t, {"apply", "restore"}))
  BY ExcuseGiven DEF Fail, Shapes, TypeOK
<1> QED
  BY <1>1, ReturnRecord DEF Fail, Holds

LEMMA OutsideRecord ==
    ASSUME TypeOK, Unexcused, ~excused, call' = Noticed \/ call' = call,
           UNCHANGED <<file, wanted>>, owed' \in {None, owed},
           config'.provider \in {config.provider, Ours, None} \/ owed' = None
    PROVE  Unexcused'
<1>1. \A u \in Callers \ {} : SameCall(u)
  <2>1. ASSUME NEW u \in Callers, call' = Noticed PROVE SameCall(u)
    <3>1. call'[u] = Noticed[u]
      BY <2>1
    <3> QED
      BY <3>1, NoticedCalls
  <2> QED
    BY <2>1, UntouchedCall
<1>2. {} \in SUBSET Callers
  OBVIOUS
<1> QED
  BY <1>1, <1>2, NothingSaved

LEMMA CrashRecord ==
    ASSUME Shapes, Unexcused, ~excused', Crash
    PROVE  Unexcused'
<1>1. /\ ~excused /\ UNCHANGED <<config, file, owed, wanted>>
      /\ \A u \in Callers : call'[u] = NoCall
      /\ \A u \in Busy : ~At(u, "snapshot") /\ ~(At(u, "write") /\ Is(u, {"apply", "restore"}))
  BY DEF Crash
<1>2. \A u \in Callers : ~Holds(u) /\ ~At(u, "snapshot")
  BY <1>1 DEF Busy, At, Holds
<1>3. \A u \in Callers : Fresh(u)'
  BY <1>1, NoCallIdle DEF Fresh
<1>4. \A u \in Callers \ Callers : SameCall(u)
  OBVIOUS
<1>5. Callers \in SUBSET Callers
  OBVIOUS
<1> QED
  BY <1>1, <1>2, <1>3, <1>4, <1>5, NothingSaved

-----------------------------------------------------------------------------
\* A step of one call leaves the place of every other call.
LEMMA OthersStay ==
    ASSUME Shapes, NEW u \in Callers, Step(u), NEW t \in Callers, t # u
    PROVE  call'[t].pc = call[t].pc
<1>1. TypeOK
  BY DEF Shapes
<1>2. ASSUME NEW kind \in Kinds, NEW takeover \in BOOLEAN, Load(u, kind, takeover)
      PROVE  call'[t].pc = call[t].pc
  BY <1>1, <1>2, LoadedCall
<1>3. ASSUME NEW new, NEW rec, Edit(u, new, rec) \/ Save(u, new, rec) \/ Goto(u, rec)
      PROVE  call'[t].pc = call[t].pc
  <2>1. call'[t] \in {call[t], Noticed[t], [Noticed[t] EXCEPT !.raced = TRUE],
                      [call[t] EXCEPT !.raced = TRUE]}
    BY <1>1, <1>3 DEF Edit, Save, Goto, Raced, TypeOK
  <2>2. Noticed[t] \in CallStates /\ Noticed[t].pc = call[t].pc /\ call[t] \in CallStates
    BY <1>1 DEF TypeOK, CallStates, Noticed, At, Is
  <2> QED
    BY <2>1, <2>2, RacedCall
<1>4. ASSUME \/ Configure(u) \/ Write(u) \/ Verify(u) \/ StripConfig(u)
             \/ RestoreProvider(u) \/ ForgetSetup(u) \/ WriteSnapshot(u) \/ Fail(u)
      PROVE  \E new, rec : Edit(u, new, rec) \/ Save(u, new, rec) \/ Goto(u, rec)
  BY <1>4 DEF Configure, Write, Verify, StripConfig, RestoreProvider, ForgetSetup,
              WriteSnapshot, Fail, Return
<1>5. ASSUME \/ Apply(u) \/ Restore(u) \/ Disable(u) \/ Clear(u)
             \/ ClearPreservingCodex(u) \/ ChangeSetting(u)
      PROVE  \E kind \in Kinds, takeover \in BOOLEAN : Load(u, kind, takeover)
  BY <1>5 DEF Apply, Restore, Disable, Clear, ClearPreservingCodex, ChangeSetting, Kinds
<1> QED
  BY <1>2, <1>3, <1>4, <1>5 DEF Step

-----------------------------------------------------------------------------
LEMMA InitInv == Init => SetupInv
<1> SUFFICES ASSUME Init PROVE SetupInv
  OBVIOUS
<1>1. \A t \in Callers : call[t] = NoCall
  BY DEF Init
<1>2. TypeOK
  <2>1. /\ config \in Configs /\ config.provider # Ours /\ ~config.inside
    BY DEF Init
  <2>2. file = Default /\ Default \in SetupStates
    BY DEF Init, Default, SetupStates
  <2>3. call \in [Callers -> CallStates]
    BY NoCallIdle DEF Init
  <2>4. 0 \in 0..MaxCalls /\ 0 \in 0..MaxEvents
    BY BoundAssumption
  <2>5. /\ calls = 0 /\ events = 0 /\ stale = None /\ owed = None
        /\ wanted \in BOOLEAN /\ excused \in BOOLEAN
    BY DEF Init
  <2> QED
    BY <2>1, <2>2, <2>3, <2>4, <2>5 DEF TypeOK
<1>3. \A t \in Callers : Fits(call[t]) /\ Stripped(t) /\ Attempt(t) /\ Fresh(t)
  BY <1>1, NoCallIdle DEF Stripped, Attempt, Fresh
<1>4. file # Unparsable
  BY <1>2, LoadedState, ParseAssumption DEF Init
<1> QED
  BY <1>2, <1>3, <1>4 DEF Init, SetupInv, Shapes, Unexcused, NotForgotten

LEMMA StepInv ==
    ASSUME SetupInv, NEW t \in Callers, Step(t)
    PROVE  SetupInv'
<1>1. Shapes /\ excused \in BOOLEAN
  BY DEF SetupInv, Shapes, TypeOK
<1>2. ~excused => Unexcused
  BY DEF SetupInv
<1>3. ASSUME NEW kind \in Kinds, NEW takeover \in BOOLEAN, Load(t, kind, takeover)
      PROVE  SetupInv'
  <2>1. excused' = excused
    BY <1>3 DEF Load
  <2> QED
    BY <1>1, <1>2, <1>3, <2>1, LoadShapes, LoadRecord DEF SetupInv
<1>4. ASSUME \/ Apply(t) \/ Restore(t) \/ Disable(t) \/ Clear(t)
             \/ ClearPreservingCodex(t) \/ ChangeSetting(t)
      PROVE  \E kind \in Kinds, takeover \in BOOLEAN : Load(t, kind, takeover)
  BY <1>4 DEF Apply, Restore, Disable, Clear, ClearPreservingCodex, ChangeSetting, Kinds
<1>5. CASE Configure(t)
  BY <1>1, <1>2, <1>5, ConfigureShapes, ConfigureRecord DEF SetupInv, Configure
<1>6. CASE Verify(t)
  BY <1>1, <1>2, <1>6, VerifyShapes, VerifyRecord DEF SetupInv, Verify
<1>7. CASE StripConfig(t)
  BY <1>1, <1>2, <1>7, StripShapes, StripRecord DEF SetupInv, StripConfig
<1>8. CASE Write(t) /\ WritesWhole(t)
  BY <1>1, <1>8, WriteShapes, WholeRecord DEF SetupInv
<1>9. ASSUME \/ Write(t) /\ ~WritesWhole(t)
             \/ RestoreProvider(t) \/ ForgetSetup(t) \/ WriteSnapshot(t) \/ Fail(t)
      PROVE  SetupInv'
  <2>1. excused => excused'
    BY <1>1, <1>9, ExcuseGiven DEF Write, RestoreProvider, ForgetSetup, WriteSnapshot, Fail
  <2>2. Shapes'
    BY <1>1, <1>9, WriteShapes, RestoreShapes, ForgetShapes, SnapshotShapes, FailShapes
  <2>3. ~excused' => Unexcused'
    BY <1>1, <1>2, <1>9, <2>1, WriteRecord, RestoreRecord, ForgetRecord, SnapshotRecord,
       FailRecord
  <2> QED
    BY <2>2, <2>3 DEF SetupInv
<1> QED
  BY <1>3, <1>4, <1>5, <1>6, <1>7, <1>8, <1>9 DEF Step

LEMMA WorldInv ==
    ASSUME SetupInv, Select \/ EditRest \/ ReadCopy \/ WriteCopy \/ Crash \/ Corrupt
    PROVE  SetupInv'
<1>1. Shapes /\ TypeOK
  BY DEF SetupInv, Shapes
<1>2. Shapes'
  BY <1>1, SelectShapes, EditRestShapes, ReadCopyShapes, WriteCopyShapes, CrashShapes,
     CorruptShapes
<1>3. ASSUME ~excused' PROVE Unexcused'
  <2>1. ~excused /\ Unexcused
    <3>1. ~Crash => (excused => excused')
      BY DEF Select, EditRest, ReadCopy, WriteCopy, Corrupt
    <3>2. Crash => (excused => excused')
      BY <1>1 DEF Crash, TypeOK
    <3> QED
      BY <1>3, <3>1, <3>2 DEF SetupInv
  <2>2. CASE Select
    BY <1>1, <2>1, <2>2, OutsideRecord DEF Select
  <2>3. CASE EditRest
    <3>1. config'.provider = config.provider
      BY <1>1, <2>3 DEF EditRest, TypeOK, Configs
    <3> QED
      BY <1>1, <2>1, <2>3, <3>1, OutsideRecord DEF EditRest
  <2>4. CASE ReadCopy
    BY <1>1, <2>1, <2>4, OutsideRecord DEF ReadCopy
  <2>5. CASE WriteCopy
    BY <1>1, <2>1, <2>5, OutsideRecord DEF WriteCopy
  <2>6. CASE Crash
    BY <1>1, <1>3, <2>1, <2>6, CrashRecord
  <2>7. CASE Corrupt
    BY <1>3, <2>7 DEF Corrupt
  <2> QED
    BY <2>2, <2>3, <2>4, <2>5, <2>6, <2>7
<1> QED
  BY <1>2, <1>3 DEF SetupInv

LEMMA StutterInv ==
    ASSUME SetupInv, UNCHANGED vars
    PROVE  SetupInv'
<1>1. Shapes'
  BY StutterShapes DEF SetupInv
<1>2. ~excused => Unexcused'
  BY OutsideRecord DEF SetupInv, Shapes, vars
<1> QED
  BY <1>1, <1>2 DEF SetupInv, vars

LEMMA SetupInvariant == Spec => []SetupInv
<1>1. SetupInv /\ [Next]_vars => SetupInv'
  BY StepInv, WorldInv, StutterInv DEF Next
<1> QED
  BY <1>1, InitInv, PTL DEF Spec

\* The files, the calls and the copies of other programs keep to their ranges; the
\* provider line is Headroom's only inside the managed block.
THEOREM TypeCorrect == Spec => []TypeOK
<1>1. SetupInv => TypeOK
  BY DEF SetupInv, Shapes
<1> QED
  BY <1>1, SetupInvariant, PTL

\* A provider that was put aside stays on record until it is back, outside the
\* windows that Recoverable names and the time until a setup has written the record
\* whole again.
THEOREM NothingLost == Spec => []Recoverable
<1>1. SetupInv => Recoverable
  BY DEF SetupInv, Unexcused, Recoverable, Held, Holds
<1> QED
  BY <1>1, SetupInvariant, PTL

\* Only a disconnect makes the next launch forget a connected client.
THEOREM StaysConnected == Spec => []NotForgotten
<1>1. SetupInv => NotForgotten
  BY DEF SetupInv, Unexcused, NotForgotten
<1> QED
  BY <1>1, SetupInvariant, PTL

\* A disconnect that reports success has removed the route and given back.
THEOREM DisconnectGivesBack == Spec => GivenBack
<1> DEFINE Given(t) == ForgetSetup(t) /\ Is(t, {"disable"}) /\ Busy = {t}
                       /\ call[t].others = 0 /\ ~excused'
                       => config.provider # Ours /\ owed = None
<1>1. ASSUME SetupInv, NEW t \in Callers PROVE Given(t)
  <2>1. SUFFICES ASSUME ForgetSetup(t), Is(t, {"disable"}), Busy = {t},
                        call[t].others = 0, ~excused'
                 PROVE  config.provider # Ours /\ owed = None
    OBVIOUS
  <2>2. At(t, "forget") /\ Excuse(t, FALSE)
    BY <2>1 DEF ForgetSetup
  <2>3. ~excused /\ ~call[t].raced
    BY <1>1, <2>1, <2>2, ExcuseGiven DEF SetupInv, Shapes, TypeOK
  <2>4. Fresh(t) /\ Stripped(t)
    BY <1>1, <2>3 DEF SetupInv, Shapes, Unexcused
  <2>5. ~Held
    BY <2>1, <2>2 DEF Held, Holds, Busy, At
  <2> QED
    BY <2>1, <2>2, <2>4, <2>5 DEF Fresh, Stripped, At, Is
<1>2. SetupInv => [\A t \in Callers : Given(t)]_vars
  BY <1>1
<1> QED
  BY <1>2, SetupInvariant, PTL DEF GivenBack

\* The second attempt of setup heals one change behind its back.
THEOREM OneRetrySuffices == Spec => OneClobberHealed
<1> DEFINE Healed(t) == At(t, "verify") /\ ~Verified /\ call'[t].pc = "idle"
                        /\ events' = events => call[t].others = 2
<1>1. ASSUME SetupInv, [Next]_vars, NEW t \in Callers PROVE Healed(t)
  <2>1. SUFFICES ASSUME At(t, "verify"), ~Verified, call'[t].pc = "idle", events' = events
                 PROVE  call[t].others = 2
    OBVIOUS
  <2>2. TypeOK /\ Fits(call[t]) /\ Attempt(t) /\ call[t].others \in 0..2
    BY <1>1 DEF SetupInv, Shapes, TypeOK, CallStates
  <2>3. ~Event
    BY <2>1, <2>2, EventCounted
  <2>4. call'[t] # call[t] /\ call[t].pc = "verify"
    BY <2>1 DEF At
  <2>5. ASSUME NEW u \in Callers, Step(u) PROVE Verify(t)
    <3>1. u = t
      <4>1. SUFFICES ASSUME u # t PROVE call'[t].pc = call[t].pc
        BY <2>1, <2>4
      <4> QED
        BY <1>1, <2>5, <4>1, OthersStay DEF SetupInv
    <3> QED
      BY <2>3, <2>4, <2>5, <3>1
         DEF Step, Apply, Restore, Disable, Clear, ClearPreservingCodex, ChangeSetting, Load,
             Configure, Write, StripConfig, RestoreProvider, ForgetSetup, WriteSnapshot,
             Fail, At
  <2>6. Verify(t)
    <3>1. ~(Select \/ EditRest \/ ReadCopy \/ Crash \/ Corrupt)
      BY <2>3 DEF Select, EditRest, ReadCopy, Crash, Corrupt
    <3>2. ~WriteCopy
      <4>1. SUFFICES ASSUME call' = Noticed PROVE FALSE
        BY <2>4 DEF WriteCopy
      <4>2. call'[t] = Noticed[t]
        BY <4>1
      <4> QED
        BY <2>1, <2>2, <2>4, <4>2, NoticedCalls DEF SameCall
    <3> QED
      BY <1>1, <2>4, <2>5, <3>1, <3>2 DEF Next, vars
  <2>7. call[t].again
    <3>1. SUFFICES ASSUME ~call[t].again PROVE call'[t].pc = "config"
      BY <2>1
    <3>2. PICK aside \in CanSetAside :
            Goto(t, [call[t] EXCEPT !.pc = "config", !.again = TRUE, !.state = Loaded,
                                    !.blocked = ~aside, !.raced = FALSE,
                                    !.others = IF Verified /\ @ < 2 THEN @ + 1 ELSE @])
      BY <2>1, <2>6, <3>1 DEF Verify
    <3> QED
      BY <2>2, <3>2 DEF Goto, TypeOK, CallStates
  <2> QED
    BY <2>1, <2>2, <2>7 DEF Attempt, Fits, At
<1>2. SetupInv /\ [Next]_vars => [\A t \in Callers : Healed(t)]_vars
  BY <1>1
<1> QED
  BY <1>2, SetupInvariant, PTL DEF OneClobberHealed, Spec
=============================================================================
