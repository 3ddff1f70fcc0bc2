---------------------------- MODULE ClientSetup ----------------------------
(***************************************************************************)
(* Connecting Codex to Headroom and giving it back (client_adapters.rs).   *)
(* Two files say how things stand: ~/.codex/config.toml, which belongs to  *)
(* the user and routes Codex, and client-setup.json, in which Headroom     *)
(* remembers that it is connected and which provider it put aside.         *)
(*                                                                         *)
(* apply, disable, clear and the settings commands each load the state     *)
(* file, work on the config file and save the state file at the end.  The  *)
(* config lock covers one edit of config.toml, nothing covers a call.      *)
(* Codex and other tools rewrite config.toml without any lock, from a copy *)
(* they read before, and the user edits it.                                *)
(*                                                                         *)
(* Shell profiles, hooks and launchctl are steps that may fail here and    *)
(* have no state; the keys of other owners are left out.  A tool that      *)
(* rewrites a copy it has changed is a rewrite followed by an edit.        *)
(***************************************************************************)
EXTENDS Naturals

CONSTANTS
    Callers,      \* threads of the desktop
    Foreign,      \* providers that other tools or the user define in a table
    Official,     \* providers of Foreign that setup may replace unasked
    Native,       \* "openai": needs no table
    Ours,         \* "headroom_local_community"
    None,         \* no root model_provider, nothing preserved
    Unparsable,   \* a state file that does not parse
    MaxCalls,     \* bound on calls
    MaxEvents     \* bound on edits, rewrites by other programs, failures and crashes

ASSUME ProviderAssumption ==
    /\ Official \subseteq Foreign
    /\ {Native, Ours, None} \cap Foreign = {}
    /\ Native # Ours /\ Native # None /\ Ours # None
ASSUME BoundAssumption == {MaxCalls, MaxEvents} \subseteq Nat

VARIABLES
    config,    \* ~/.codex/config.toml
    file,      \* client-setup.json
    call,      \* each caller: pc and the locals of its call
    stale,     \* the copy of config another program is about to write back
    owed,      \* history: the provider a takeover put aside and nobody put back
    wanted,    \* history: the user connected, and has not disconnected since
    excused,   \* history: a window of the code was hit (see Excuse), and no setup has
               \* written the record whole since (see WritesWhole)
    calls,
    events

vars == <<config, file, call, stale, owed, wanted, excused,
          calls, events>>

Providers == Foreign \cup {Native, Ours, None}

\* The root route: its provider, whether the managed blocks are there and hold that
\* line, whether somebody edited our provider table in them, and whether
\* openai_base_url, a line of the root block if there is one, is one that setup may
\* not replace.
Configs == [provider: Providers, block: BOOLEAN, inside: BOOLEAN, edited: BOOLEAN,
            tables: SUBSET Foreign, customUrl: BOOLEAN]

\* ClientSetupState, without the settings that share the file.
SetupStates == [configured: BOOLEAN, remembered: BOOLEAN,
                preserved: Foreign \cup {Native, None}]
Default == [configured |-> FALSE, remembered |-> FALSE, preserved |-> None]

ASSUME ParseAssumption == Unparsable \notin SetupStates

Kinds == {"apply", "restore", "disable", "clear", "preserve", "setting"}
Places == {"idle", "config", "write", "verify", "strip", "give", "forget", "snapshot"}
NoCall == [pc |-> "idle", kind |-> "apply", takeover |-> FALSE, again |-> FALSE,
           blocked |-> FALSE, state |-> Default, pre |-> Default, raced |-> FALSE,
           others |-> 0]
CallStates == [pc: Places, kind: Kinds, takeover: BOOLEAN, again: BOOLEAN,
               blocked: BOOLEAN, state: SetupStates, pre: SetupStates,
               raced: BOOLEAN, others: 0..2]

TypeOK ==
    /\ config \in Configs
    /\ config.provider = Ours => config.inside
    /\ config.inside => config.block /\ config.provider # None
    /\ file \in SetupStates \cup {Unparsable}
    /\ call \in [Callers -> CallStates]
    /\ stale \in Configs \cup {None}
    /\ owed \in Foreign \cup {None}
    /\ wanted \in BOOLEAN /\ excused \in BOOLEAN
    /\ calls \in 0..MaxCalls /\ events \in 0..MaxEvents

Init ==
    /\ config \in {c \in Configs :
         /\ ~c.block /\ ~c.inside /\ ~c.edited /\ c.provider # Ours
         /\ c.tables = Foreign /\ ~c.customUrl}
    /\ file = Default
    /\ call = [t \in Callers |-> NoCall]
    /\ stale = None /\ owed = None
    /\ wanted = FALSE /\ excused = FALSE
    /\ calls = 0 /\ events = 0
-----------------------------------------------------------------------------
\* What the files become.

\* render_codex_config: one managed root block and nothing else in the root.
Render(c) == [c EXCEPT !.provider = Ours, !.block = TRUE, !.inside = TRUE, !.edited = FALSE]

\* Mutant: the stripped block leaves our provider line behind.
StripBlockOnly(c) == [c EXCEPT !.block = FALSE, !.inside = FALSE, !.edited = FALSE,
                               !.customUrl = @ /\ ~c.block]

\* strip_codex_managed_toml: the blocks go with all that is in them.
Strip(c) == [c EXCEPT !.block = FALSE, !.inside = FALSE, !.edited = FALSE,
                      !.customUrl = @ /\ ~c.block,
                      !.provider = IF c.inside THEN None ELSE @]

\* provider_exists of restore_codex_model_provider.
Exists(c, p) == p = Native \/ p \in c.tables

\* Mutant: the native provider will do.
GiveNative(c, saved) == IF Exists(c, c.provider) THEN c ELSE [c EXCEPT !.provider = Native]

\* restore_codex_model_provider: a provider the user selected stays.
GiveBack(c, saved) ==
    IF Exists(c, c.provider) THEN c
    ELSE [c EXCEPT !.provider = IF Exists(c, saved) THEN saved ELSE Native,
                   !.inside = FALSE]

\* Mutant: each apply records what it displaced, be it nothing.
PreserveLatest(state, displaced) ==
    [state EXCEPT !.preserved = IF displaced = Ours THEN None ELSE displaced]

\* What a save takes along when nothing was displaced: the older record stays.
Preserve(state, displaced) ==
    IF displaced \in Foreign \cup {Native} THEN [state EXCEPT !.preserved = displaced] ELSE state

Forget(state) ==
    [state EXCEPT !.configured = FALSE, !.remembered = FALSE, !.preserved = None]

\* Mutant: the snapshot of what was remembered, not of what is configured.
SnapshotRemembered(pre, preserve) ==
    [pre EXCEPT !.configured = preserve /\ pre.configured]

\* clear_codex_client_setups_with_options: the snapshot of before, as remembered.
Snapshot(pre, preserve) ==
    [pre EXCEPT !.remembered = pre.remembered \/ pre.configured,
                !.configured = preserve /\ pre.configured]
-----------------------------------------------------------------------------
\* Steps of a call.

At(t, place) == call[t].pc = place
Is(t, kinds) == call[t].kind \in kinds
Busy == {u \in Callers : ~At(u, "idle")}

Event == events < MaxEvents /\ events' = events + 1

\* The calls that somebody else's change of the config concerns.
Noticed == [u \in Callers |->
    IF Is(u, {"apply", "restore", "disable"}) /\ ~At(u, "idle") /\ call[u].others < 2
    THEN [call[u] EXCEPT !.others = @ + 1] ELSE call[u]]

Goto(t, rec) == call' = [call EXCEPT ![t] = rec]
Return(t) == Goto(t, NoCall)

\* The others under way have loaded what is now the past.
Raced(t, calling) == [u \in Callers |->
    IF u = t \/ At(u, "idle") THEN calling[u] ELSE [calling[u] EXCEPT !.raced = TRUE]]

\* The call writes config.toml, or saves the state file, and goes on as rec.
Edit(t, new, rec) ==
    /\ config' = new
    /\ call' = [(IF new # config THEN Raced(t, Noticed) ELSE call) EXCEPT ![t] = rec]
Save(t, new, rec) ==
    /\ file' = new
    /\ call' = [Raced(t, call) EXCEPT ![t] = rec]

\* The windows the properties make an exception for: setup or a clear is left
\* between its two files, or a call acts on what it loaded when another call has
\* written either file since.
Excuse(t, leaving) ==
    excused' = \/ excused
               \/ leaving /\ \/ At(t, "write") /\ Is(t, {"apply", "restore"})
                             \/ At(t, "snapshot")
               \/ ~leaving /\ call[t].raced

\* load_setup_state: an unparsable file is set aside and the default is used.  If
\* it cannot be set aside, this call will not replace it.
Loaded == IF file = Unparsable THEN Default ELSE file
LeftBy(aside) == IF aside THEN Loaded ELSE file
CanSetAside == IF file = Unparsable THEN BOOLEAN ELSE {TRUE}

FirstStep(kind) ==
    IF kind \in {"apply", "restore"} THEN "config"
    ELSE IF kind \in {"disable", "clear"} THEN "strip" ELSE "write"

\* A call loads the state file.  clear and restore load the file twice on end, which is one
\* step here: a save in between is taken for one after both.
Load(t, kind, takeover) ==
    /\ At(t, "idle")
    /\ calls < MaxCalls /\ calls' = calls + 1
    /\ \E aside \in CanSetAside :
        /\ file' = LeftBy(aside)
        /\ call' = [call EXCEPT ![t] =
             [NoCall EXCEPT !.kind = kind, !.takeover = takeover,
                            !.pre = IF kind \in {"clear", "preserve"} THEN Loaded ELSE Default,
                            !.state = Loaded, !.blocked = ~aside,
                            !.pc = FirstStep(kind)]]
    /\ UNCHANGED <<config, stale, owed, wanted, excused, events>>

\* apply_client_setup_with_options: the user may agree to a takeover.
Apply(t) == \E takeover \in BOOLEAN : Load(t, "apply", takeover)

\* restore_client_setups, at a launch or a resume, never takes over.
Restore(t) == Loaded.remembered /\ Load(t, "restore", FALSE)

Disable(t) == Load(t, "disable", FALSE)
Clear(t) == Load(t, "clear", FALSE)
ClearPreservingCodex(t) == Load(t, "preserve", FALSE)

\* set_auto_learn_enabled and the like: a load and a save of the whole file.
ChangeSetting(t) == Load(t, "setting", FALSE)

\* configure_codex_provider_block refuses, before it touches anything: a provider
\* it does not know, unless the user agreed, and always a custom base URL.
RefusesProvider(t) == config.provider \in Foreign \ Official /\ ~call[t].takeover
RefusesUrl == config.customUrl

Configure(t) ==
    /\ At(t, "config")
    /\ IF RefusesProvider(t) \/ RefusesUrl
       THEN Return(t) /\ UNCHANGED <<config, owed>>
       ELSE /\ Edit(t, Render(config),
                 [call[t] EXCEPT !.pc = "write",
                                 !.state = Preserve(@, config.provider)])
            /\ owed' = IF config.provider \in Foreign THEN config.provider ELSE owed
    /\ UNCHANGED <<file, stale, wanted, excused, calls, events>>

\* What is saved at the end, by kind of call.
Saved(t) ==
    LET c == call[t] IN
    IF c.kind \in {"apply", "restore"} THEN [c.state EXCEPT !.configured = TRUE]
    ELSE IF c.kind = "preserve" THEN Snapshot(c.pre, TRUE) ELSE c.state

\* codex_provider_block_matches.
Verified == config.provider = Ours /\ config.block /\ ~config.edited /\ ~config.customUrl

\* A setup that nobody raced saves, with the route in place, a record of what is owed:
\* whatever window was hit before, the files agree again.
WritesWhole(t) ==
    /\ Is(t, {"apply", "restore"}) /\ ~call[t].raced
    /\ Verified /\ owed \in {None, call[t].state.preserved}

\* write_setup_state; only setup looks at its work afterwards.
Write(t) ==
    /\ At(t, "write")
    /\ call[t].blocked => file = Default
    /\ Save(t, Saved(t), IF Is(t, {"apply", "restore"})
                         THEN [call[t] EXCEPT !.pc = "verify", !.state = Default, !.raced = FALSE]
                         ELSE NoCall)
    /\ IF WritesWhole(t) THEN excused' = FALSE ELSE Excuse(t, FALSE)
    /\ wanted' = (wanted \/ Is(t, {"apply", "restore"}))
    /\ UNCHANGED <<config, stale, owed, calls, events>>

\* Mutant: the result of the first attempt is the result.
VerifyOnce(t) ==
    /\ At(t, "verify")
    /\ Return(t)
    /\ UNCHANGED <<config, file, stale, owed, wanted, excused, calls, events>>

\* verify_legacy_client_setup finds the route, or the call has had its second attempt
\* (apply_legacy_client_setup_with_options), which starts from the files again.  The
\* guard may be missing in hooks.json though the route is there: somebody else's
\* change of that file, so an event.
Verify(t) ==
    /\ At(t, "verify")
    /\ \/ /\ Verified \/ call[t].again
          /\ Return(t) /\ UNCHANGED <<file, events>>
       \/ /\ ~call[t].again
          /\ IF Verified THEN Event ELSE UNCHANGED events
          /\ \E aside \in CanSetAside :
               /\ file' = LeftBy(aside)
               /\ Goto(t, [call[t] EXCEPT !.pc = "config", !.again = TRUE, !.state = Loaded,
                                          !.blocked = ~aside, !.raced = FALSE,
                                          !.others = IF Verified /\ @ < 2 THEN @ + 1 ELSE @])
    /\ UNCHANGED <<config, stale, owed, wanted, excused, calls>>
-----------------------------------------------------------------------------
\* disable_legacy_client_setup and the calls built on it.

\* disable_codex_cli.
StripConfig(t) ==
    /\ At(t, "strip")
    /\ Edit(t, Strip(config), [call[t] EXCEPT !.pc = "give"])
    /\ UNCHANGED <<file, stale, owed, wanted, excused, calls, events>>

RestoreProvider(t) ==
    /\ At(t, "give")
    /\ LET saved == call[t].state.preserved
           new == IF saved = None THEN config ELSE GiveBack(config, saved) IN
        /\ Edit(t, new, [call[t] EXCEPT !.pc = "forget"])
        /\ owed' = IF saved # None /\ (new.provider = owed \/ ~Exists(new, owed))
                   THEN None ELSE owed
    /\ Excuse(t, FALSE)
    /\ UNCHANGED <<file, stale, wanted, calls, events>>

\* Its save.  A clear goes on to write the snapshot it took before.
ForgetSetup(t) ==
    /\ At(t, "forget")
    /\ call[t].blocked => file = Default
    /\ Save(t, Forget(call[t].state), IF Is(t, {"clear"})
                                      THEN [call[t] EXCEPT !.pc = "snapshot", !.raced = FALSE]
                                      ELSE NoCall)
    /\ Excuse(t, FALSE)
    /\ wanted' = (wanted /\ Is(t, {"clear"}))
    /\ UNCHANGED <<config, stale, owed, calls, events>>

WriteSnapshot(t) ==
    /\ At(t, "snapshot")
    /\ Save(t, Snapshot(call[t].pre, FALSE), NoCall)
    /\ Excuse(t, FALSE)
    /\ UNCHANGED <<config, stale, owed, wanted, calls, events>>

\* A file, a hook, launchctl, a save or the reading of a file to verify fails: the call
\* returns the error at once.
Fail(t) ==
    /\ t \in Busy
    /\ IF call[t].blocked /\ file # Default /\ (At(t, "write") \/ At(t, "forget"))
       THEN UNCHANGED events
       ELSE Event
    /\ Excuse(t, TRUE)
    /\ Return(t)
    /\ UNCHANGED <<config, file, stale, owed, wanted, calls>>
-----------------------------------------------------------------------------
\* The world around.

\* The user or another tool selects a provider: in the managed block, where the
\* line is, or by hand without the block.
Select ==
    /\ Event
    /\ \E p \in Foreign \cup {Native, None}, keep \in BOOLEAN :
        /\ p # config.provider /\ (p \in Foreign => p \in config.tables)
        /\ config' = [config EXCEPT !.provider = p, !.block = keep /\ @,
                                    !.inside = keep /\ @ /\ p # None]
    /\ owed' = None
    /\ call' = Noticed
    /\ UNCHANGED <<file, stale, wanted, excused, calls>>

\* Somebody edits the tables, his or ours, or sets a base URL of his own.
EditRest ==
    /\ Event
    /\ \/ \E tables \in SUBSET Foreign :
            tables # config.tables /\ config' = [config EXCEPT !.tables = tables]
       \/ config.block /\ config' = [config EXCEPT !.edited = ~@]
       \/ config' = [config EXCEPT !.customUrl = ~@]
    /\ call' = Noticed
    /\ UNCHANGED <<file, stale, owed, wanted, excused, calls>>

\* Codex, or a registrar, rewrites the config from a copy it has read.
ReadCopy ==
    /\ stale = None
    /\ Event
    /\ stale' = config
    /\ UNCHANGED <<config, file, call, owed, wanted, excused, calls>>

WriteCopy ==
    /\ stale # None
    /\ config' = stale /\ stale' = None
    /\ owed' = IF config'.provider = Ours THEN owed ELSE None
    /\ call' = IF config' = config THEN call ELSE Noticed
    /\ UNCHANGED <<file, wanted, excused, calls, events>>

\* The desktop process ends, wherever its calls are.
Crash ==
    /\ Busy # {}
    /\ Event
    /\ excused' = (excused \/ \E t \in Busy :
          \/ At(t, "write") /\ Is(t, {"apply", "restore"})
          \/ At(t, "snapshot"))
    /\ call' = [t \in Callers |-> NoCall]
    /\ UNCHANGED <<config, file, stale, owed, wanted, calls>>

\* An older build leaves a state file that does not parse.
Corrupt ==
    /\ Event
    /\ file # Unparsable
    /\ file' = Unparsable
    /\ excused' = TRUE
    /\ UNCHANGED <<config, call, stale, owed, wanted, calls>>

Step(t) ==
    \/ Apply(t) \/ Restore(t) \/ Disable(t) \/ Clear(t)
    \/ ClearPreservingCodex(t) \/ ChangeSetting(t)
    \/ Configure(t) \/ Write(t) \/ Verify(t)
    \/ StripConfig(t) \/ RestoreProvider(t) \/ ForgetSetup(t) \/ WriteSnapshot(t)
    \/ Fail(t)

Next ==
    \/ \E t \in Callers : Step(t)
    \/ Select \/ EditRest \/ ReadCopy \/ WriteCopy
    \/ Crash \/ Corrupt

Spec == Init /\ [][Next]_vars
-----------------------------------------------------------------------------
\* A provider that Headroom put aside is on record until it is back, whoever calls,
\* edits, fails or dies elsewhere: in the state file, or with the call that has just
\* displaced it (preserved_base_urls, client_adapters.rs:552-559).  Not so, until a
\* setup writes the record whole again, after one of these windows: a setup failed or
\* died between the config file and the state file; a clear did between forgetting and
\* its snapshot; a call wrote what it had loaded before another call wrote; the state
\* file did not parse.  In the first of them the code loses the provider.
Recoverable ==
    owed # None /\ ~excused =>
        \/ file.preserved = owed
        \/ \E t \in Callers : At(t, "write") /\ call[t].state.preserved = owed

\* Once connected, the next launch knows it: pause, quit and clear keep the client as
\* configured or as remembered, and only a disconnect drops it
\* (clear_codex_client_setups_with_options, restore_client_setups).  The windows of
\* Recoverable are left out here too: a clear that dies before its snapshot forgets.
NotForgotten ==
    wanted /\ ~excused =>
        \/ file.configured \/ file.remembered
        \/ \E t \in Callers : At(t, "snapshot")

\* A disconnect that reports success, and that nobody got in the way of, leaves
\* no route to Headroom and nobody's provider aside (disable_client_setup).
GivenBack ==
    [][\A t \in Callers :
         ForgetSetup(t) /\ Is(t, {"disable"}) /\ Busy = {t}
         /\ call[t].others = 0 /\ ~excused'
         => config.provider # Ours /\ owed = None]_vars

\* Setup reports an unverified route only if config.toml or hooks.json was changed
\* behind its back twice: one lost update is healed by the second attempt
\* (apply_legacy_client_setup_with_options, client_adapters.rs:445-455).
OneClobberHealed ==
    [][\A t \in Callers :
         At(t, "verify") /\ ~Verified /\ call'[t].pc = "idle" /\ events' = events
         => call[t].others = 2]_vars
=============================================================================
