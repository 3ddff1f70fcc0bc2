---------------------------- MODULE Interception ----------------------------
(***************************************************************************)
(* A request on its way from an agent to a vendor: through the detached    *)
(* Codex router (handle_client, forward_direct in codex_router.rs) and the *)
(* intercept of the desktop on port 6867 (spawn, run, handle and           *)
(* forward_direct_to_anthropic in proxy_intercept.rs), past the gate flags *)
(* that other threads write (state.rs) and a backend that comes and goes.  *)
(*                                                                         *)
(* A request is its kind, which fixes the path, the credential and the     *)
(* headers the code looks at.  A step of a request runs to its next await, *)
(* or to its next load of a flag.  The intercept runs on one thread, but   *)
(* the flags are written by others.                                        *)
(***************************************************************************)
EXTENDS Naturals, FiniteSets

CONSTANTS
    Requests,       \* requests of agents
    RoutedKinds,    \* kinds that arrive at the Codex router
    DirectKinds,    \* kinds that arrive at the intercept
    MaxInflight,    \* permits of backend_inflight
    MaxArrivals     \* bound on their arrivals, retries included

\* A Claude request; OpenAI requests with a platform key, with a ChatGPT token that
\* names its account, and with one that only the path of the provider tells; and
\* one with the x-headroom-base-url header (the plugin of OpenCode, or Grok).
Kinds == {"claude", "codexKey", "codexChatGPT", "codexOpaque", "plugin"}

ASSUME InterceptionAssumption ==
    /\ RoutedKinds \subseteq {"codexKey", "codexChatGPT", "codexOpaque"}
    /\ DirectKinds \subseteq Kinds
    /\ MaxInflight \in Nat \ {0} /\ MaxArrivals \in Nat

VARIABLES
    at,             \* where each request stands
    kind, via,      \* what it is, and the port it came in by
    reached,        \* history: the services it was handed to, retries included
    deliveries,     \* history: how often it was handed to one
    arrivals,
    port,           \* who listens on 6867
    draining,       \* the drain gate of the intercept that listens
    binding,        \* a desktop that does not listen yet is in its bind loop
    bindError,      \* intercept_bind_error
    backend,        \* the Python backend accepts connections
    bypass, claudeOnly,     \* proxy_bypass, claude_only_bypass
    governor,       \* the thread that writes the flags
    reach,          \* BACKEND_REACHABILITY_STATE
    downSince,      \* BACKEND_DOWN_SINCE is set
    everUp          \* history: this process has reached the backend

request == <<at, kind, via, reached, deliveries, arrivals>>
door == <<port, draining, binding, bindError>>
flags == <<bypass, claudeOnly, governor>>
outage == <<reach, downSince, everUp>>
vars == <<request, door, backend, flags, outage>>

AtIntercept == {"gate", "bypass", "claudeOnly", "connect", "connected", "noAnswer",
                "waiting", "atBackend", "fallback"}
AtRouter == {"router", "probed"}
Over == {"idle", "answered", "unavailable", "lost"}

\* The requests that hold a permit of backend_inflight.
Inflight == {r \in Requests : at[r] \in {"connect", "connected", "noAnswer", "waiting",
                                         "atBackend", "fallback"}}

\* The ranges of the variables, and no more requests on the way to the backend than
\* backend_inflight has permits.
TypeOK ==
    /\ at \in [Requests -> AtIntercept \cup AtRouter \cup Over]
    /\ kind \in [Requests -> Kinds]
    /\ via \in [Requests -> {"router", "intercept"}]
    /\ reached \in [Requests -> SUBSET {"backend", "anthropic", "openai", "chatgpt"}]
    /\ deliveries \in [Requests -> Nat]
    /\ arrivals \in 0..MaxArrivals
    /\ port \in {"free", "ours", "foreign"}
    /\ draining \in BOOLEAN /\ bindError \in BOOLEAN
    /\ binding \in BOOLEAN
    /\ backend \in BOOLEAN /\ bypass \in BOOLEAN /\ claudeOnly \in BOOLEAN
    /\ governor \in {"idle", "bypassing", "stopping", "killing", "unbypassing", "starting"}
    /\ reach \in {"unknown", "up", "down"}
    /\ downSince \in BOOLEAN /\ everUp \in BOOLEAN
    /\ Cardinality(Inflight) <= MaxInflight

Init ==
    /\ at = [r \in Requests |-> "idle"]
    /\ kind \in [Requests -> {"claude"}] /\ via = [r \in Requests |-> "intercept"]
    /\ reached = [r \in Requests |-> {}] /\ deliveries = [r \in Requests |-> 0]
    /\ arrivals = 0
    /\ port = "free" /\ draining = FALSE /\ binding = TRUE /\ bindError = FALSE
    /\ backend = FALSE
    /\ bypass = FALSE /\ claudeOnly = FALSE /\ governor = "idle"
    /\ reach = "unknown" /\ downSince = FALSE /\ everUp = FALSE

\* is_codex_request_head, is_openai_path: by path.
IsCodexPath(k) == k # "claude"
\* request_uses_chatgpt_auth of the intercept: an account header or a decodable
\* token, or the provider-shaped path.  The router relays the path in its /v1
\* form, so the hint survives only without it.
ChatGPTAuth(r) ==
    \/ kind[r] = "codexChatGPT"
    \/ kind[r] = "codexOpaque" /\ via[r] = "intercept"
PluginRouted(k) == k = "plugin"
\* request_uses_chatgpt_auth of the router sees the path as it came.
RouterChatGPTAuth(k) == k \in {"codexChatGPT", "codexOpaque"}

Goto(r, place) == at' = [at EXCEPT ![r] = place]
Deliver(r, service) ==
    /\ reached' = [reached EXCEPT ![r] = @ \cup {service}]
    /\ deliveries' = [deliveries EXCEPT ![r] = @ + 1]
SameRequest == UNCHANGED <<kind, via, arrivals>>
-----------------------------------------------------------------------------
\* Agents.  A request comes in by the port its agent is set up for; one that was
\* told to try again may.
Enter(r, port0) ==
    /\ port0 = "intercept" => port = "ours"
    /\ arrivals < MaxArrivals /\ arrivals' = arrivals + 1
    /\ Goto(r, IF port0 = "router" THEN "router" ELSE "gate")
    /\ UNCHANGED <<door, backend, flags, outage>>

Arrive(r) ==
    /\ at[r] = "idle"
    /\ \E port0 \in {"router", "intercept"} :
         \E k \in IF port0 = "router" THEN RoutedKinds ELSE DirectKinds :
            /\ kind' = [kind EXCEPT ![r] = k]
            /\ via' = [via EXCEPT ![r] = port0]
            /\ Enter(r, port0)
    /\ UNCHANGED <<reached, deliveries>>

Retry(r) ==
    /\ at[r] = "unavailable"
    /\ Enter(r, via[r])
    /\ UNCHANGED <<kind, via, reached, deliveries>>
-----------------------------------------------------------------------------
\* The Codex router.
\* forward_direct of the router: the vendor by the credential; 503 for a provider
\* that has no native route; 4xx or 502 without a delivery.
Native(r) ==
    \/ Goto(r, "unavailable") /\ UNCHANGED <<reached, deliveries>>
    \/ Goto(r, "answered") /\ UNCHANGED <<reached, deliveries>>
    \/ /\ Goto(r, "answered")
       /\ Deliver(r, IF RouterChatGPTAuth(kind[r]) THEN "chatgpt" ELSE "openai")

\* To the intercept when the route is Proxy and what listens on 6867 answers the
\* identity probe, which passes through the drain gate.  Which route is published
\* when is the subject of RouterHeartbeat; here it may be either at any time.
Route(r) ==
    /\ at[r] = "router"
    /\ \/ /\ port = "ours" /\ ~draining
          /\ Goto(r, "probed") /\ UNCHANGED <<reached, deliveries>>
       \/ Native(r)
    /\ SameRequest
    /\ UNCHANGED <<door, backend, flags, outage>>

\* A refused connection falls through to the native path; once the header is
\* written the request is the intercept's.
Relay(r) ==
    /\ at[r] = "probed"
    /\ IF port = "ours" THEN Goto(r, "gate") /\ UNCHANGED <<reached, deliveries>>
                        ELSE Native(r)
    /\ SameRequest
    /\ UNCHANGED <<door, backend, flags, outage>>
-----------------------------------------------------------------------------
\* handle.
\* The drain gate, then the header; with the gate shut, 503.
Begin(r) ==
    /\ at[r] = "gate"
    /\ Goto(r, IF draining THEN "unavailable" ELSE "bypass")
    /\ SameRequest
    /\ UNCHANGED <<reached, deliveries, door, backend, flags, outage>>

\* forward_direct_to_anthropic: the vendor of the path; 4xx, 502 or 503 without a
\* delivery.
ForwardDirect(r) ==
    /\ Goto(r, "answered")
    /\ \/ UNCHANGED <<reached, deliveries>>
       \/ Deliver(r, IF ~IsCodexPath(kind[r]) THEN "anthropic"
                     ELSE IF ChatGPTAuth(r) THEN "chatgpt" ELSE "openai")

\* Mutant: every request is sent on.
PassBypassAll(r) ==
    /\ at[r] = "bypass"
    /\ IF bypass THEN ForwardDirect(r)
       ELSE Goto(r, "claudeOnly") /\ UNCHANGED <<reached, deliveries>>
    /\ SameRequest
    /\ UNCHANGED <<door, backend, flags, outage>>

\* The full bypass: straight to the vendor, unless no direct route is right.
PassBypass(r) ==
    /\ at[r] = "bypass"
    /\ \/ /\ ~bypass
          /\ Goto(r, "claudeOnly") /\ UNCHANGED <<reached, deliveries>>
       \/ /\ bypass /\ (ChatGPTAuth(r) \/ PluginRouted(kind[r]))
          /\ Goto(r, "unavailable") /\ UNCHANGED <<reached, deliveries>>
       \/ /\ bypass /\ ~ChatGPTAuth(r) /\ ~PluginRouted(kind[r])
          /\ ForwardDirect(r)
    /\ SameRequest
    /\ UNCHANGED <<door, backend, flags, outage>>

\* Mutant: one permit too many.
TakePermitLate(r) ==
    /\ at[r] = "claudeOnly"
    /\ IF kind[r] = "claude" /\ claudeOnly THEN ForwardDirect(r)
       ELSE /\ Goto(r, IF Cardinality(Inflight) <= MaxInflight THEN "connect"
                                                               ELSE "unavailable")
            /\ UNCHANGED <<reached, deliveries>>
    /\ SameRequest
    /\ UNCHANGED <<door, backend, flags, outage>>

\* The bypass of Claude alone, then the permit: 503 when there is none.
TakePermit(r) ==
    /\ at[r] = "claudeOnly"
    /\ IF kind[r] = "claude" /\ claudeOnly THEN ForwardDirect(r)
       ELSE /\ Goto(r, IF Cardinality(Inflight) < MaxInflight THEN "connect"
                                                              ELSE "unavailable")
            /\ UNCHANGED <<reached, deliveries>>
    /\ SameRequest
    /\ UNCHANGED <<door, backend, flags, outage>>

Connect(r) ==
    /\ at[r] = "connect"
    /\ Goto(r, IF backend THEN "connected" ELSE "noAnswer")
    /\ SameRequest
    /\ UNCHANGED <<reached, deliveries, door, backend, flags, outage>>

\* note_backend_reachability: the clock of an outage starts with the first
\* failure after a success, and stops with the next success.
NoteReachable ==
    reach' = "up" /\ downSince' = FALSE /\ everUp' = TRUE
\* Mutant: a backend that has never been up counts as an outage.
NoteUnreachableAtOnce ==
    /\ reach' = "down"
    /\ downSince' = TRUE
    /\ UNCHANGED everUp
NoteUnreachable ==
    /\ reach' = "down"
    /\ downSince' = (reach = "up" \/ downSince)
    /\ UNCHANGED everUp

\* The backend is down: wait for it, have the agent try again, or go around it.
FallBack(r) ==
    /\ at[r] = "noAnswer"
    /\ NoteUnreachable
    /\ Goto(r, IF ChatGPTAuth(r) THEN "waiting"
               ELSE IF PluginRouted(kind[r]) THEN "unavailable" ELSE "fallback")
    /\ SameRequest
    /\ UNCHANGED <<reached, deliveries, door, backend, flags>>

\* Mutant: no deadline.
AwaitBackendForEver(r) ==
    /\ at[r] = "waiting"
    /\ backend /\ Goto(r, "connected")
    /\ SameRequest
    /\ UNCHANGED <<reached, deliveries, door, backend, flags, outage>>

\* connect_backend_with_retry: until it connects or thirty seconds have passed.
AwaitBackend(r) ==
    /\ at[r] = "waiting"
    /\ \/ backend /\ Goto(r, "connected")
       \/ Goto(r, "unavailable")
    /\ SameRequest
    /\ UNCHANGED <<reached, deliveries, door, backend, flags, outage>>

\* Mutant: an error of the backend makes the intercept go around it too.
ForwardToBackendReplays(r) ==
    /\ at[r] = "connected"
    /\ NoteReachable
    /\ Deliver(r, "backend")
    /\ Goto(r, IF backend THEN "atBackend" ELSE "fallback")
    /\ SameRequest
    /\ UNCHANGED <<door, backend, flags>>

\* A write that fails ends the request.
ForwardToBackend(r) ==
    /\ at[r] = "connected"
    /\ NoteReachable
    /\ IF backend THEN Deliver(r, "backend") /\ Goto(r, "atBackend")
                  ELSE Goto(r, "lost") /\ UNCHANGED <<reached, deliveries>>
    /\ SameRequest
    /\ UNCHANGED <<door, backend, flags>>

BackendAnswers(r) ==
    /\ at[r] = "atBackend"
    /\ Goto(r, "answered")
    /\ SameRequest
    /\ UNCHANGED <<reached, deliveries, door, backend, flags, outage>>

\* The response of the fallback.
GoAround(r) ==
    /\ at[r] = "fallback"
    /\ ForwardDirect(r)
    /\ SameRequest
    /\ UNCHANGED <<door, backend, flags, outage>>

Handle(r) ==
    /\ at[r] \in AtIntercept
    /\ \/ Begin(r) \/ PassBypass(r) \/ TakePermit(r) \/ Connect(r) \/ FallBack(r)
       \/ AwaitBackend(r) \/ ForwardToBackend(r) \/ BackendAnswers(r) \/ GoAround(r)

HandleClient(r) == Route(r) \/ Relay(r)
-----------------------------------------------------------------------------
\* Mutant: the error shown is left when the bind succeeds.
BindSilently ==
    /\ binding
    /\ port = "free"
    /\ port' = "ours" /\ draining' = FALSE
    /\ binding' = FALSE
    /\ UNCHANGED <<request, bindError, backend, flags, outage>>

\* The bind loop of spawn: it tries until it binds.  Whether a failure is shown
\* depends on who answers on the port and on how long ago the loop started: a
\* desktop that still answers there is not shown.
Bind ==
    /\ binding
    /\ port = "free"
    /\ port' = "ours" /\ draining' = FALSE
    /\ binding' = FALSE /\ bindError' = FALSE
    /\ UNCHANGED <<request, backend, flags, outage>>

BindFails ==
    /\ binding
    /\ port # "ours"
    /\ bindError' = TRUE
    /\ UNCHANGED <<request, port, draining, binding, backend, flags, outage>>
-----------------------------------------------------------------------------
\* What the request path finds itself in.
Lose(places) ==
    at' = [r \in Requests |-> IF at[r] \in places THEN "lost" ELSE at[r]]

\* The desktop ends, whatever it was doing; its connections and its memory go
\* with it.
DesktopEnds ==
    /\ port = "ours"
    /\ port' = "free" /\ draining' = FALSE
    /\ bypass' = FALSE /\ claudeOnly' = FALSE /\ governor' = "idle"
    /\ reach' = "unknown" /\ downSince' = FALSE /\ everUp' = FALSE
    /\ Lose(AtIntercept)
    /\ SameRequest
    /\ UNCHANGED <<reached, deliveries, binding, bindError, backend>>

\* A desktop starts, perhaps while the one before still drains its connections.
DesktopStarts ==
    /\ ~binding /\ (port = "ours" => draining)
    /\ binding' = TRUE
    /\ UNCHANGED <<request, port, draining, bindError, backend, flags, outage>>

\* Another program takes the port, though not between a probe and the connect
\* that follows it.
PortTaken ==
    /\ port = "free"
    /\ \A r \in Requests : at[r] # "probed"
    /\ port' = "foreign"
    /\ UNCHANGED <<request, draining, binding, bindError, backend, flags, outage>>

PortLeft ==
    /\ port = "foreign" /\ port' = "free"
    /\ UNCHANGED <<request, draining, binding, bindError, backend, flags,
                   outage>>

\* begin_codex_retirement, of a pause or a quit.
GateShut ==
    /\ port = "ours" /\ governor = "idle"
    /\ draining' = TRUE
    /\ UNCHANGED <<request, port, binding, bindError, backend, flags, outage>>

BackendDies ==
    /\ backend
    /\ backend' = FALSE
    /\ Lose({"atBackend"})
    /\ SameRequest
    /\ UNCHANGED <<reached, deliveries, door, flags, outage>>

\* ensure_headroom_running while the gate is open.
BackendStarts ==
    /\ port = "ours" /\ ~draining /\ ~bypass /\ governor = "idle"
    /\ ~backend /\ backend' = TRUE
    /\ UNCHANGED <<request, door, flags, outage>>
-----------------------------------------------------------------------------
\* The threads that write the flags: enter_claude_gate, exit_claude_gate, the
\* give-up of the watchdog and its restart; one of them at a time.
Govern(first, only) ==
    /\ port = "ours" /\ governor = "idle"
    /\ governor' = first /\ claudeOnly' = only
    /\ UNCHANGED <<request, door, backend, bypass, outage>>

EnterFullGate == Govern("bypassing", FALSE)
EnterClaudeGate == Govern("unbypassing", TRUE)
ExitGate == Govern("unbypassing", FALSE)
Restart == ~bypass /\ Govern("stopping", claudeOnly)

SwapBypass ==
    /\ governor \in {"bypassing", "unbypassing"}
    /\ bypass' = (governor = "bypassing")
    /\ governor' = IF bypass = bypass' THEN "idle"
                   ELSE IF bypass THEN "starting" ELSE "stopping"
    /\ UNCHANGED <<request, door, backend, claudeOnly, outage>>

\* stop_headroom: shut the gate, wait at most two minutes for its connections,
\* end the backend.
StopShuts ==
    /\ governor = "stopping"
    /\ draining' = TRUE /\ governor' = "killing"
    /\ UNCHANGED <<request, port, binding, bindError, backend, bypass,
                   claudeOnly, outage>>

StopKills ==
    /\ governor = "killing"
    /\ backend' = FALSE /\ Lose({"atBackend"})
    /\ governor' = IF bypass THEN "idle" ELSE "starting"
    /\ SameRequest
    /\ UNCHANGED <<reached, deliveries, door, bypass, claudeOnly, outage>>

\* ensure_headroom_running: the spawn reopens the gate, before or after the backend
\* accepts connections (BackendStarts), or it fails and the gate stays as it is.
StartOpens ==
    /\ governor = "starting" /\ governor' = "idle"
    /\ \/ backend' \in {backend, TRUE} /\ draining' = FALSE
       \/ UNCHANGED <<backend, draining>>
    /\ UNCHANGED <<request, port, binding, bindError, bypass, claudeOnly, outage>>

Environment ==
    \/ DesktopEnds \/ DesktopStarts \/ PortTaken \/ PortLeft \/ GateShut
    \/ BackendDies \/ BackendStarts
    \/ EnterFullGate \/ EnterClaudeGate \/ ExitGate \/ Restart
    \/ SwapBypass \/ StopShuts \/ StopKills \/ StartOpens

Next ==
    \/ \E r \in Requests : Arrive(r) \/ Retry(r) \/ HandleClient(r) \/ Handle(r)
    \/ Bind \/ BindFails \/ Environment

Fairness ==
    /\ \A r \in Requests : WF_at(HandleClient(r) \/ Handle(r))
    /\ WF_port(Bind)

Spec == Init /\ [][Next]_vars /\ Fairness
-----------------------------------------------------------------------------
\* A request reaches, apart from the backend, only the vendor that issued its
\* credential, whichever port it came in by, whatever the flags and the backend
\* did meanwhile; a plugin-routed one reaches none.  An opaque ChatGPT token that
\* came by the router is the exception: the router strips the one hint there is
\* before it relays the request, so the intercept may take it for a platform key.
Vendor(r) ==
    {v \in {"anthropic", "openai", "chatgpt"} :
        \/ kind[r] = "claude" /\ v = "anthropic"
        \/ kind[r] = "codexKey" /\ v = "openai"
        \/ kind[r] \in {"codexChatGPT", "codexOpaque"} /\ v = "chatgpt"
        \/ kind[r] = "codexOpaque" /\ via[r] = "router" /\ v = "openai"}
RightVendor == \A r \in Requests : reached[r] \subseteq {"backend"} \cup Vendor(r)

\* The fallbacks of the router and of the intercept, and a retry of the agent
\* that was told to try again, never hand a request over twice.
DeliveredOnce == \A r \in Requests : deliveries[r] <= 1

\* The clock of an outage runs exactly while the backend was last seen down after
\* it had been seen up by this process, in whatever order connects are noted.
OutageClock == downSince <=> reach = "down" /\ everUp

\* Every request is answered, told to try again or lost with the process that
\* held it; none waits for ever.
EveryRequestEnds == \A r \in Requests : at[r] \notin Over ~> at[r] \in Over

\* A desktop that waits for a port nobody holds gets it, and withdraws the error
\* it may have shown, unless another program is faster.
FrontDoorOpens ==
    binding /\ port = "free" ~> (port = "ours" /\ ~bindError) \/ port = "foreign"
=============================================================================
