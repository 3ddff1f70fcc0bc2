------------------------- MODULE InterceptionProofs -------------------------
(***************************************************************************)
(* Proofs about Interception: no request is handed over twice, and none to *)
(* a vendor other than the one of its credential, for every set of         *)
(* requests, every mix of kinds and every number of permits.               *)
(*                                                                         *)
(* Neither is inductive.  That a request was handed over nowhere while it  *)
(* is still on its way (Pending) makes the next hand-over the first one;   *)
(* that the kinds which have no right direct route never get to the        *)
(* fallback, and that only OpenAI kinds come by the router (Placed), makes *)
(* it the right one.                                                       *)
(***************************************************************************)
EXTENDS Interception, FiniteSetTheorems, TLAPS

Pending ==
    \A r \in Requests : at[r] \notin {"atBackend", "answered", "lost"} =>
        deliveries[r] = 0 /\ reached[r] = {}

Placed ==
    \A r \in Requests :
        /\ at[r] \in AtRouter => via[r] = "router"
        /\ via[r] = "router" => kind[r] \in RoutedKinds
        /\ at[r] = "fallback" => ~ChatGPTAuth(r) /\ ~PluginRouted(kind[r])

\* What concerns the requests, and what they meet on their way.
RequestInv ==
    /\ at \in [Requests -> AtIntercept \cup AtRouter \cup Over]
    /\ kind \in [Requests -> Kinds]
    /\ via \in [Requests -> {"router", "intercept"}]
    /\ reached \in [Requests -> SUBSET {"backend", "anthropic", "openai", "chatgpt"}]
    /\ deliveries \in [Requests -> Nat]
    /\ arrivals \in 0..MaxArrivals
    /\ IsFiniteSet(Inflight) /\ Cardinality(Inflight) <= MaxInflight
    /\ Pending /\ Placed /\ DeliveredOnce /\ RightVendor

HallTypes ==
    /\ port \in {"free", "ours", "foreign"}
    /\ draining \in BOOLEAN /\ bindError \in BOOLEAN /\ binding \in BOOLEAN
    /\ backend \in BOOLEAN /\ bypass \in BOOLEAN /\ claudeOnly \in BOOLEAN
    /\ governor \in {"idle", "bypassing", "stopping", "killing", "unbypassing", "starting"}

OutageInv ==
    /\ reach \in {"unknown", "up", "down"}
    /\ downSince \in BOOLEAN /\ everUp \in BOOLEAN
    /\ reach = "unknown" => ~everUp
    /\ reach = "up" => everUp
    /\ OutageClock

PipelineInv == RequestInv /\ HallTypes /\ OutageInv

LEMMA InitInv == Init => PipelineInv
<1> SUFFICES ASSUME Init PROVE PipelineInv
  OBVIOUS
<1>1. Inflight = {}
  BY DEF Init, Inflight
<1>2. IsFiniteSet(Inflight) /\ Cardinality(Inflight) <= MaxInflight
  BY <1>1, FS_EmptySet, InterceptionAssumption
<1>3. RequestInv
  BY <1>2, InterceptionAssumption
     DEF RequestInv, Init, Over, Kinds, Pending, Placed, AtRouter, DeliveredOnce,
         RightVendor
<1>4. HallTypes
  BY DEF HallTypes, Init
<1>5. OutageInv
  <2>1. reach = "unknown" /\ ~everUp /\ ~downSince
    BY DEF Init
  <2>2. everUp \in BOOLEAN /\ downSince \in BOOLEAN
    BY DEF Init
  <2> QED
    BY <2>1, <2>2 DEF OutageInv, OutageClock
<1> QED
  BY <1>3, <1>4, <1>5 DEF PipelineInv

-----------------------------------------------------------------------------
\* backend_inflight: fewer requests on the way to the backend, or one more when a
\* permit was left, are no more than there are permits.
LEMMA FewerInflight ==
    ASSUME RequestInv, Inflight' \subseteq Inflight
    PROVE  IsFiniteSet(Inflight') /\ Cardinality(Inflight') <= MaxInflight
<1>1. IsFiniteSet(Inflight') /\ Cardinality(Inflight') <= Cardinality(Inflight)
  BY FS_Subset DEF RequestInv
<1>2. Cardinality(Inflight) \in Nat /\ Cardinality(Inflight') \in Nat
  BY <1>1, FS_CardinalityType DEF RequestInv
<1> QED
  BY <1>1, <1>2, InterceptionAssumption DEF RequestInv

LEMMA OneMore ==
    ASSUME NEW S, NEW T, NEW x, IsFiniteSet(S), T \subseteq S \cup {x}
    PROVE  IsFiniteSet(T) /\ Cardinality(T) <= Cardinality(S) + 1
<1>1. IsFiniteSet(S \cup {x}) /\ Cardinality(S) \in Nat
  BY FS_AddElement, FS_CardinalityType
<1>2. IsFiniteSet(T) /\ Cardinality(T) <= Cardinality(S \cup {x})
  BY <1>1, FS_Subset
<1>3. Cardinality(T) \in Nat /\ Cardinality(S \cup {x}) \in Nat
  BY <1>1, <1>2, FS_CardinalityType
<1>4. Cardinality(S \cup {x}) <= Cardinality(S) + 1
  <2>1. CASE x \in S
    <3>1. S \cup {x} = S
      BY <2>1
    <3> QED
      BY <3>1, <1>1
  <2>2. CASE x \notin S
    BY <2>2, <1>1, FS_AddElement
  <2> QED
    BY <2>1, <2>2
<1> QED
  BY <1>1, <1>2, <1>3, <1>4

LEMMA OneMoreInflight ==
    ASSUME RequestInv, NEW r \in Requests, Cardinality(Inflight) < MaxInflight,
           Inflight' \subseteq Inflight \cup {r}
    PROVE  IsFiniteSet(Inflight') /\ Cardinality(Inflight') <= MaxInflight
<1>1. IsFiniteSet(Inflight') /\ Cardinality(Inflight') <= Cardinality(Inflight) + 1
  BY OneMore DEF RequestInv
<1>2. Cardinality(Inflight) \in Nat /\ Cardinality(Inflight') \in Nat
  BY <1>1, FS_CardinalityType DEF RequestInv
<1> QED
  BY <1>1, <1>2, InterceptionAssumption

-----------------------------------------------------------------------------
\* The steps of one request.
LEMMA ArriveStep ==
    ASSUME RequestInv, NEW r \in Requests, Arrive(r)
    PROVE  RequestInv'
<1> USE DEF RequestInv, Arrive, Enter, Goto, SameRequest
<1>1. IsFiniteSet(Inflight') /\ Cardinality(Inflight') <= MaxInflight
  <2>1. Inflight' \subseteq Inflight
    BY DEF Inflight
  <2> QED
    BY <2>1, FewerInflight
<1>2. /\ at' \in [Requests -> AtIntercept \cup AtRouter \cup Over]
      /\ kind' \in [Requests -> Kinds] /\ via' \in [Requests -> {"router", "intercept"}]
      /\ reached' \in [Requests -> SUBSET {"backend", "anthropic", "openai", "chatgpt"}]
      /\ deliveries' \in [Requests -> Nat] /\ arrivals' \in 0..MaxArrivals
  BY InterceptionAssumption DEF AtIntercept, AtRouter, Over, Kinds
<1>3. Pending' /\ DeliveredOnce'
  BY DEF Pending, DeliveredOnce
<1>4. Placed'
  BY InterceptionAssumption
     DEF Placed, ChatGPTAuth, PluginRouted, AtIntercept, AtRouter, Over
<1>5. RightVendor'
  BY DEF RightVendor, Vendor, Pending
<1> QED
  BY <1>1, <1>2, <1>3, <1>4, <1>5

LEMMA RetryStep ==
    ASSUME RequestInv, NEW r \in Requests, Retry(r)
    PROVE  RequestInv'
<1> USE DEF RequestInv, Retry, Enter, Goto, SameRequest
<1>1. IsFiniteSet(Inflight') /\ Cardinality(Inflight') <= MaxInflight
  <2>1. Inflight' \subseteq Inflight
    BY DEF Inflight
  <2> QED
    BY <2>1, FewerInflight
<1>2. /\ at' \in [Requests -> AtIntercept \cup AtRouter \cup Over]
      /\ kind' \in [Requests -> Kinds] /\ via' \in [Requests -> {"router", "intercept"}]
      /\ reached' \in [Requests -> SUBSET {"backend", "anthropic", "openai", "chatgpt"}]
      /\ deliveries' \in [Requests -> Nat] /\ arrivals' \in 0..MaxArrivals
  BY InterceptionAssumption DEF AtIntercept, AtRouter, Over, Kinds
<1>3. Pending' /\ DeliveredOnce'
  BY DEF Pending, DeliveredOnce
<1>4. Placed'
  BY InterceptionAssumption
     DEF Placed, ChatGPTAuth, PluginRouted, AtIntercept, AtRouter, Over
<1>5. RightVendor'
  BY DEF RightVendor, Vendor
<1> QED
  BY <1>1, <1>2, <1>3, <1>4, <1>5

LEMMA RouteStep ==
    ASSUME RequestInv, NEW r \in Requests, Route(r)
    PROVE  RequestInv'
<1> USE DEF RequestInv, Route, Native, Goto, SameRequest, Deliver
<1>1. IsFiniteSet(Inflight') /\ Cardinality(Inflight') <= MaxInflight
  <2>1. Inflight' \subseteq Inflight
    BY DEF Inflight
  <2> QED
    BY <2>1, FewerInflight
<1>2. /\ at' \in [Requests -> AtIntercept \cup AtRouter \cup Over]
      /\ kind' \in [Requests -> Kinds] /\ via' \in [Requests -> {"router", "intercept"}]
      /\ reached' \in [Requests -> SUBSET {"backend", "anthropic", "openai", "chatgpt"}]
      /\ deliveries' \in [Requests -> Nat] /\ arrivals' \in 0..MaxArrivals
  BY DEF AtIntercept, AtRouter, Over, Kinds
<1>3. Pending' /\ DeliveredOnce'
  BY DEF Pending, DeliveredOnce
<1>4. Placed'
  BY DEF Placed, ChatGPTAuth, PluginRouted, AtIntercept, AtRouter, Over
<1>5. RightVendor'
  BY InterceptionAssumption
     DEF RightVendor, Vendor, Placed, ChatGPTAuth, PluginRouted, IsCodexPath,
         AtRouter, Kinds, RouterChatGPTAuth
<1> QED
  BY <1>1, <1>2, <1>3, <1>4, <1>5

LEMMA RelayStep ==
    ASSUME RequestInv, NEW r \in Requests, Relay(r)
    PROVE  RequestInv'
<1> USE DEF RequestInv, Relay, Native, Goto, SameRequest, Deliver
<1>1. IsFiniteSet(Inflight') /\ Cardinality(Inflight') <= MaxInflight
  <2>1. Inflight' \subseteq Inflight
    BY DEF Inflight
  <2> QED
    BY <2>1, FewerInflight
<1>2. /\ at' \in [Requests -> AtIntercept \cup AtRouter \cup Over]
      /\ kind' \in [Requests -> Kinds] /\ via' \in [Requests -> {"router", "intercept"}]
      /\ reached' \in [Requests -> SUBSET {"backend", "anthropic", "openai", "chatgpt"}]
      /\ deliveries' \in [Requests -> Nat] /\ arrivals' \in 0..MaxArrivals
  BY DEF AtIntercept, AtRouter, Over, Kinds
<1>3. Pending' /\ DeliveredOnce'
  BY DEF Pending, DeliveredOnce
<1>4. Placed'
  BY DEF Placed, ChatGPTAuth, PluginRouted, AtIntercept, AtRouter, Over
<1>5. RightVendor'
  BY InterceptionAssumption
     DEF RightVendor, Vendor, Placed, ChatGPTAuth, PluginRouted, IsCodexPath,
         AtRouter, Kinds, RouterChatGPTAuth
<1> QED
  BY <1>1, <1>2, <1>3, <1>4, <1>5

LEMMA BeginStep ==
    ASSUME RequestInv, NEW r \in Requests, Begin(r)
    PROVE  RequestInv'
<1> USE DEF RequestInv, Begin, Goto, SameRequest
<1>1. IsFiniteSet(Inflight') /\ Cardinality(Inflight') <= MaxInflight
  <2>1. Inflight' \subseteq Inflight
    BY DEF Inflight
  <2> QED
    BY <2>1, FewerInflight
<1>2. /\ at' \in [Requests -> AtIntercept \cup AtRouter \cup Over]
      /\ kind' \in [Requests -> Kinds] /\ via' \in [Requests -> {"router", "intercept"}]
      /\ reached' \in [Requests -> SUBSET {"backend", "anthropic", "openai", "chatgpt"}]
      /\ deliveries' \in [Requests -> Nat] /\ arrivals' \in 0..MaxArrivals
  BY DEF AtIntercept, AtRouter, Over, Kinds
<1>3. Pending' /\ DeliveredOnce'
  BY DEF Pending, DeliveredOnce
<1>4. Placed'
  BY DEF Placed, ChatGPTAuth, PluginRouted, AtIntercept, AtRouter, Over
<1>5. RightVendor'
  BY DEF RightVendor, Vendor
<1> QED
  BY <1>1, <1>2, <1>3, <1>4, <1>5

LEMMA PassBypassStep ==
    ASSUME RequestInv, NEW r \in Requests, PassBypass(r)
    PROVE  RequestInv'
<1> USE DEF RequestInv, PassBypass, ForwardDirect, Goto, SameRequest, Deliver
<1>1. IsFiniteSet(Inflight') /\ Cardinality(Inflight') <= MaxInflight
  <2>1. Inflight' \subseteq Inflight
    BY DEF Inflight
  <2> QED
    BY <2>1, FewerInflight
<1>2. /\ at' \in [Requests -> AtIntercept \cup AtRouter \cup Over]
      /\ kind' \in [Requests -> Kinds] /\ via' \in [Requests -> {"router", "intercept"}]
      /\ reached' \in [Requests -> SUBSET {"backend", "anthropic", "openai", "chatgpt"}]
      /\ deliveries' \in [Requests -> Nat] /\ arrivals' \in 0..MaxArrivals
  BY DEF AtIntercept, AtRouter, Over, Kinds
<1>3. Pending' /\ DeliveredOnce'
  BY DEF Pending, DeliveredOnce
<1>4. Placed'
  BY DEF Placed, ChatGPTAuth, PluginRouted, AtIntercept, AtRouter, Over
<1>5. RightVendor'
  BY DEF RightVendor, Vendor, Placed, ChatGPTAuth, PluginRouted, IsCodexPath,
         AtRouter, Kinds, RouterChatGPTAuth
<1> QED
  BY <1>1, <1>2, <1>3, <1>4, <1>5

LEMMA TakePermitStep ==
    ASSUME RequestInv, NEW r \in Requests, TakePermit(r)
    PROVE  RequestInv'
<1> USE DEF RequestInv, TakePermit, ForwardDirect, Goto, SameRequest, Deliver
<1>1. IsFiniteSet(Inflight') /\ Cardinality(Inflight') <= MaxInflight
  <2>1. CASE Cardinality(Inflight) < MaxInflight
    <3>1. Inflight' \subseteq Inflight \cup {r}
      BY DEF Inflight
    <3> QED
      BY <3>1, <2>1, OneMoreInflight
  <2>2. CASE ~(Cardinality(Inflight) < MaxInflight)
    <3>1. Inflight' \subseteq Inflight
      BY <2>2 DEF Inflight
    <3> QED
      BY <3>1, FewerInflight
  <2> QED
    BY <2>1, <2>2
<1>2. /\ at' \in [Requests -> AtIntercept \cup AtRouter \cup Over]
      /\ kind' \in [Requests -> Kinds] /\ via' \in [Requests -> {"router", "intercept"}]
      /\ reached' \in [Requests -> SUBSET {"backend", "anthropic", "openai", "chatgpt"}]
      /\ deliveries' \in [Requests -> Nat] /\ arrivals' \in 0..MaxArrivals
  BY DEF AtIntercept, AtRouter, Over, Kinds
<1>3. Pending' /\ DeliveredOnce'
  BY DEF Pending, DeliveredOnce
<1>4. Placed'
  BY DEF Placed, ChatGPTAuth, PluginRouted, AtIntercept, AtRouter, Over
<1>5. RightVendor'
  BY DEF RightVendor, Vendor, Placed, ChatGPTAuth, PluginRouted, IsCodexPath,
         AtRouter, Kinds, RouterChatGPTAuth
<1> QED
  BY <1>1, <1>2, <1>3, <1>4, <1>5

LEMMA ConnectStep ==
    ASSUME RequestInv, NEW r \in Requests, Connect(r)
    PROVE  RequestInv'
<1> USE DEF RequestInv, Connect, Goto, SameRequest
<1>1. IsFiniteSet(Inflight') /\ Cardinality(Inflight') <= MaxInflight
  <2>1. Inflight' \subseteq Inflight
    BY DEF Inflight
  <2> QED
    BY <2>1, FewerInflight
<1>2. /\ at' \in [Requests -> AtIntercept \cup AtRouter \cup Over]
      /\ kind' \in [Requests -> Kinds] /\ via' \in [Requests -> {"router", "intercept"}]
      /\ reached' \in [Requests -> SUBSET {"backend", "anthropic", "openai", "chatgpt"}]
      /\ deliveries' \in [Requests -> Nat] /\ arrivals' \in 0..MaxArrivals
  BY DEF AtIntercept, AtRouter, Over, Kinds
<1>3. Pending' /\ DeliveredOnce'
  BY DEF Pending, DeliveredOnce
<1>4. Placed'
  BY DEF Placed, ChatGPTAuth, PluginRouted, AtIntercept, AtRouter, Over
<1>5. RightVendor'
  BY DEF RightVendor, Vendor
<1> QED
  BY <1>1, <1>2, <1>3, <1>4, <1>5

LEMMA FallBackStep ==
    ASSUME RequestInv, NEW r \in Requests, FallBack(r)
    PROVE  RequestInv'
<1> USE DEF RequestInv, FallBack, Goto, SameRequest
<1>1. IsFiniteSet(Inflight') /\ Cardinality(Inflight') <= MaxInflight
  <2>1. Inflight' \subseteq Inflight
    BY DEF Inflight
  <2> QED
    BY <2>1, FewerInflight
<1>2. /\ at' \in [Requests -> AtIntercept \cup AtRouter \cup Over]
      /\ kind' \in [Requests -> Kinds] /\ via' \in [Requests -> {"router", "intercept"}]
      /\ reached' \in [Requests -> SUBSET {"backend", "anthropic", "openai", "chatgpt"}]
      /\ deliveries' \in [Requests -> Nat] /\ arrivals' \in 0..MaxArrivals
  BY DEF AtIntercept, AtRouter, Over, Kinds
<1>3. Pending' /\ DeliveredOnce'
  BY DEF Pending, DeliveredOnce
<1>4. Placed'
  BY DEF Placed, ChatGPTAuth, PluginRouted, AtIntercept, AtRouter, Over
<1>5. RightVendor'
  BY DEF RightVendor, Vendor
<1> QED
  BY <1>1, <1>2, <1>3, <1>4, <1>5

LEMMA AwaitBackendStep ==
    ASSUME RequestInv, NEW r \in Requests, AwaitBackend(r)
    PROVE  RequestInv'
<1> USE DEF RequestInv, AwaitBackend, Goto, SameRequest
<1>1. IsFiniteSet(Inflight') /\ Cardinality(Inflight') <= MaxInflight
  <2>1. Inflight' \subseteq Inflight
    BY DEF Inflight
  <2> QED
    BY <2>1, FewerInflight
<1>2. /\ at' \in [Requests -> AtIntercept \cup AtRouter \cup Over]
      /\ kind' \in [Requests -> Kinds] /\ via' \in [Requests -> {"router", "intercept"}]
      /\ reached' \in [Requests -> SUBSET {"backend", "anthropic", "openai", "chatgpt"}]
      /\ deliveries' \in [Requests -> Nat] /\ arrivals' \in 0..MaxArrivals
  BY DEF AtIntercept, AtRouter, Over, Kinds
<1>3. Pending' /\ DeliveredOnce'
  BY DEF Pending, DeliveredOnce
<1>4. Placed'
  BY DEF Placed, ChatGPTAuth, PluginRouted, AtIntercept, AtRouter, Over
<1>5. RightVendor'
  BY DEF RightVendor, Vendor
<1> QED
  BY <1>1, <1>2, <1>3, <1>4, <1>5

LEMMA ForwardToBackendStep ==
    ASSUME RequestInv, NEW r \in Requests, ForwardToBackend(r)
    PROVE  RequestInv'
<1> USE DEF RequestInv, ForwardToBackend, Goto, SameRequest, Deliver
<1>1. IsFiniteSet(Inflight') /\ Cardinality(Inflight') <= MaxInflight
  <2>1. Inflight' \subseteq Inflight
    BY DEF Inflight
  <2> QED
    BY <2>1, FewerInflight
<1>2. /\ at' \in [Requests -> AtIntercept \cup AtRouter \cup Over]
      /\ kind' \in [Requests -> Kinds] /\ via' \in [Requests -> {"router", "intercept"}]
      /\ reached' \in [Requests -> SUBSET {"backend", "anthropic", "openai", "chatgpt"}]
      /\ deliveries' \in [Requests -> Nat] /\ arrivals' \in 0..MaxArrivals
  BY DEF AtIntercept, AtRouter, Over, Kinds
<1>3. Pending' /\ DeliveredOnce'
  BY DEF Pending, DeliveredOnce
<1>4. Placed'
  BY DEF Placed, ChatGPTAuth, PluginRouted, AtIntercept, AtRouter, Over
<1>5. RightVendor'
  BY DEF RightVendor, Vendor, Placed, ChatGPTAuth, PluginRouted, IsCodexPath,
         AtRouter, Kinds, RouterChatGPTAuth
<1> QED
  BY <1>1, <1>2, <1>3, <1>4, <1>5

LEMMA BackendAnswersStep ==
    ASSUME RequestInv, NEW r \in Requests, BackendAnswers(r)
    PROVE  RequestInv'
<1> USE DEF RequestInv, BackendAnswers, Goto, SameRequest
<1>1. IsFiniteSet(Inflight') /\ Cardinality(Inflight') <= MaxInflight
  <2>1. Inflight' \subseteq Inflight
    BY DEF Inflight
  <2> QED
    BY <2>1, FewerInflight
<1>2. /\ at' \in [Requests -> AtIntercept \cup AtRouter \cup Over]
      /\ kind' \in [Requests -> Kinds] /\ via' \in [Requests -> {"router", "intercept"}]
      /\ reached' \in [Requests -> SUBSET {"backend", "anthropic", "openai", "chatgpt"}]
      /\ deliveries' \in [Requests -> Nat] /\ arrivals' \in 0..MaxArrivals
  BY DEF AtIntercept, AtRouter, Over, Kinds
<1>3. Pending' /\ DeliveredOnce'
  BY DEF Pending, DeliveredOnce
<1>4. Placed'
  BY DEF Placed, ChatGPTAuth, PluginRouted, AtIntercept, AtRouter, Over
<1>5. RightVendor'
  BY DEF RightVendor, Vendor
<1> QED
  BY <1>1, <1>2, <1>3, <1>4, <1>5

LEMMA GoAroundStep ==
    ASSUME RequestInv, NEW r \in Requests, GoAround(r)
    PROVE  RequestInv'
<1> USE DEF RequestInv, GoAround, ForwardDirect, Goto, SameRequest, Deliver
<1>1. IsFiniteSet(Inflight') /\ Cardinality(Inflight') <= MaxInflight
  <2>1. Inflight' \subseteq Inflight
    BY DEF Inflight
  <2> QED
    BY <2>1, FewerInflight
<1>2. /\ at' \in [Requests -> AtIntercept \cup AtRouter \cup Over]
      /\ kind' \in [Requests -> Kinds] /\ via' \in [Requests -> {"router", "intercept"}]
      /\ reached' \in [Requests -> SUBSET {"backend", "anthropic", "openai", "chatgpt"}]
      /\ deliveries' \in [Requests -> Nat] /\ arrivals' \in 0..MaxArrivals
  BY DEF AtIntercept, AtRouter, Over, Kinds
<1>3. Pending' /\ DeliveredOnce'
  BY DEF Pending, DeliveredOnce
<1>4. Placed'
  BY DEF Placed, ChatGPTAuth, PluginRouted, AtIntercept, AtRouter, Over
<1>5. RightVendor'
  BY DEF RightVendor, Vendor, Placed, ChatGPTAuth, PluginRouted, IsCodexPath,
         AtRouter, Kinds, RouterChatGPTAuth
<1> QED
  BY <1>1, <1>2, <1>3, <1>4, <1>5

-----------------------------------------------------------------------------
\* The steps around the requests.
LEMMA Unmoved ==
    ASSUME RequestInv, UNCHANGED request
    PROVE  RequestInv'
<1> USE DEF RequestInv, request
<1>1. Inflight' = Inflight
  BY DEF Inflight
<1>2. Pending' /\ DeliveredOnce'
  BY DEF Pending, DeliveredOnce
<1>3. Placed'
  BY DEF Placed, ChatGPTAuth
<1>4. RightVendor'
  BY DEF RightVendor, Vendor
<1> QED
  BY <1>1, <1>2, <1>3, <1>4

\* A process that ends takes its requests with it.
LEMMA LoseStep ==
    ASSUME RequestInv, NEW places, Lose(places), SameRequest,
           UNCHANGED <<reached, deliveries>>
    PROVE  RequestInv'
<1> USE DEF RequestInv, Lose, SameRequest
<1>1. IsFiniteSet(Inflight') /\ Cardinality(Inflight') <= MaxInflight
  <2>1. Inflight' \subseteq Inflight
    BY DEF Inflight
  <2> QED
    BY <2>1, FewerInflight
<1>2. at' \in [Requests -> AtIntercept \cup AtRouter \cup Over]
  BY DEF Over
<1>3. Pending' /\ DeliveredOnce'
  BY DEF Pending, DeliveredOnce
<1>4. Placed'
  BY DEF Placed, ChatGPTAuth, AtRouter
<1>5. RightVendor'
  BY DEF RightVendor, Vendor
<1> QED
  BY <1>1, <1>2, <1>3, <1>4, <1>5

LEMMA EnvironmentStep ==
    ASSUME RequestInv, Environment
    PROVE  RequestInv'
<1>1. ASSUME DesktopEnds \/ BackendDies \/ StopKills PROVE RequestInv'
  <2>1. \E places : Lose(places) /\ SameRequest /\ UNCHANGED <<reached, deliveries>>
    BY <1>1 DEF DesktopEnds, BackendDies, StopKills
  <2> QED
    BY <2>1, LoseStep
<1>2. ASSUME \/ DesktopStarts \/ PortTaken \/ PortLeft \/ GateShut \/ BackendStarts
             \/ EnterFullGate \/ EnterClaudeGate \/ ExitGate \/ Restart
             \/ SwapBypass \/ StopShuts \/ StartOpens
      PROVE  RequestInv'
  BY <1>2, Unmoved
     DEF DesktopStarts, PortTaken, PortLeft, GateShut, BackendStarts, EnterFullGate,
         EnterClaudeGate, ExitGate, Restart, Govern, SwapBypass, StopShuts, StartOpens
<1> QED
  BY <1>1, <1>2 DEF Environment

LEMMA RequestStep ==
    ASSUME RequestInv, [Next]_vars
    PROVE  RequestInv'
<1>1. ASSUME NEW r \in Requests, Arrive(r) \/ Retry(r) PROVE RequestInv'
  BY <1>1, ArriveStep, RetryStep
<1>2. ASSUME NEW r \in Requests, HandleClient(r) PROVE RequestInv'
  BY <1>2, RouteStep, RelayStep DEF HandleClient
<1>3. ASSUME NEW r \in Requests, Handle(r) PROVE RequestInv'
  BY <1>3, BeginStep, PassBypassStep, TakePermitStep, ConnectStep, FallBackStep,
     AwaitBackendStep, ForwardToBackendStep, BackendAnswersStep, GoAroundStep
     DEF Handle
<1>4. CASE Bind \/ BindFails
  BY <1>4, Unmoved DEF Bind, BindFails
<1>5. CASE Environment
  BY <1>5, EnvironmentStep
<1>6. CASE UNCHANGED vars
  BY <1>6, Unmoved DEF vars
<1> QED
  BY <1>1, <1>2, <1>3, <1>4, <1>5, <1>6 DEF Next

LEMMA HallStep ==
    ASSUME HallTypes, [Next]_vars
    PROVE  HallTypes'
<1> USE DEF HallTypes
<1>1. ASSUME NEW r \in Requests, Arrive(r) \/ Retry(r) PROVE HallTypes'
  BY <1>1 DEF Arrive, Retry, Enter, door, flags
<1>2. ASSUME NEW r \in Requests, HandleClient(r) PROVE HallTypes'
  BY <1>2 DEF HandleClient, Route, Relay, door, flags
<1>3. ASSUME NEW r \in Requests, Handle(r) PROVE HallTypes'
  BY <1>3 DEF Handle, Begin, PassBypass, TakePermit, Connect, FallBack, AwaitBackend,
              ForwardToBackend, BackendAnswers, GoAround, door, flags
<1>4. CASE Bind \/ BindFails
  BY <1>4 DEF Bind, BindFails, flags
<1>5. CASE DesktopEnds \/ DesktopStarts
  BY <1>5 DEF DesktopEnds, DesktopStarts, flags
<1>6. CASE PortTaken \/ PortLeft \/ GateShut
  BY <1>6 DEF PortTaken, PortLeft, GateShut, flags
<1>7. CASE BackendDies \/ BackendStarts
  BY <1>7 DEF BackendDies, BackendStarts, door, flags
<1>8. CASE EnterFullGate \/ EnterClaudeGate \/ ExitGate \/ Restart
  BY <1>8 DEF EnterFullGate, EnterClaudeGate, ExitGate, Restart, Govern,
     door
<1>9. CASE SwapBypass
  <2>1. bypass' \in BOOLEAN
    BY <1>9 DEF SwapBypass
  <2>2. governor' \in {"idle", "starting", "stopping"}
    BY <1>9 DEF SwapBypass
  <2> QED
    BY <1>9, <2>1, <2>2 DEF SwapBypass, door
<1>10. CASE StopShuts \/ StopKills \/ StartOpens
  BY <1>10 DEF StopShuts, StopKills, StartOpens, door
<1>11. CASE UNCHANGED vars
  BY <1>11 DEF vars, door, flags
<1> QED
  BY <1>1, <1>2, <1>3, <1>4, <1>5, <1>6, <1>7, <1>8, <1>9, <1>10, <1>11
     DEF Next, Environment

LEMMA OutageStep ==
    ASSUME OutageInv, [Next]_vars
    PROVE  OutageInv'
<1>1. UNCHANGED outage \/ NoteReachable \/ NoteUnreachable \/ DesktopEnds
  <2>1. ASSUME NEW r \in Requests, Handle(r)
        PROVE  UNCHANGED outage \/ NoteReachable \/ NoteUnreachable
    BY <2>1 DEF Handle, Begin, PassBypass, TakePermit, Connect, FallBack, AwaitBackend,
                ForwardToBackend, BackendAnswers, GoAround
  <2>2. ASSUME NEW r \in Requests, Arrive(r) \/ Retry(r) \/ HandleClient(r)
        PROVE  UNCHANGED outage
    BY <2>2 DEF Arrive, Retry, Enter, HandleClient, Route, Relay
  <2>3. ASSUME Bind \/ BindFails \/ (Environment /\ ~DesktopEnds) PROVE UNCHANGED outage
    BY <2>3
       DEF Bind, BindFails, Environment, DesktopStarts, PortTaken, PortLeft, GateShut,
           BackendDies, BackendStarts, EnterFullGate, EnterClaudeGate, ExitGate, Restart,
           Govern, SwapBypass, StopShuts, StopKills, StartOpens
  <2> QED
    BY <2>1, <2>2, <2>3 DEF Next, vars
<1>2. CASE UNCHANGED outage
  <2>1. reach' = reach /\ downSince' = downSince /\ everUp' = everUp
    BY <1>2 DEF outage
  <2> QED
    BY <2>1 DEF OutageInv, OutageClock
<1>3. CASE NoteReachable
  BY <1>3 DEF NoteReachable, OutageInv, OutageClock
<1>4. CASE NoteUnreachable
  <2>1. reach' = "down" /\ everUp' = everUp
    BY <1>4 DEF NoteUnreachable
  <2>2. downSince' <=> (reach = "up" \/ downSince)
    BY <1>4 DEF NoteUnreachable, OutageInv
  <2>3. downSince' \in BOOLEAN
    BY <1>4 DEF NoteUnreachable
  <2>4. downSince' <=> everUp
    BY <2>2 DEF OutageInv, OutageClock
  <2> QED
    BY <2>1, <2>3, <2>4 DEF OutageInv, OutageClock
<1>5. CASE DesktopEnds
  <2>1. reach' = "unknown" /\ ~downSince' /\ ~everUp'
    BY <1>5 DEF DesktopEnds
  <2>2. downSince' \in BOOLEAN /\ everUp' \in BOOLEAN
    BY <1>5 DEF DesktopEnds
  <2> QED
    BY <2>1, <2>2 DEF OutageInv, OutageClock
<1> QED
  BY <1>1, <1>2, <1>3, <1>4, <1>5

-----------------------------------------------------------------------------
LEMMA PipelineInvariant == Spec => []PipelineInv
<1>1. PipelineInv /\ [Next]_vars => PipelineInv'
  BY RequestStep, HallStep, OutageStep DEF PipelineInv
<1> QED
  BY <1>1, InitInv, PTL DEF Spec

\* The requests, the flags and the port keep to their ranges, and no more requests
\* are on their way to the backend than there are permits.
THEOREM TypeCorrect == Spec => []TypeOK
<1>1. PipelineInv => TypeOK
  BY DEF PipelineInv, RequestInv, HallTypes, OutageInv, TypeOK
<1> QED
  BY <1>1, PipelineInvariant, PTL

\* No retry, fallback or bypass hands a request over a second time.
THEOREM AtMostOneDelivery == Spec => []DeliveredOnce
<1>1. PipelineInv => DeliveredOnce
  BY DEF PipelineInv, RequestInv
<1> QED
  BY <1>1, PipelineInvariant, PTL

\* No credential reaches a vendor that did not issue it, whatever the flags, the
\* gate and the backend did between two awaits of the request.
THEOREM CredentialStaysHome == Spec => []RightVendor
<1>1. PipelineInv => RightVendor
  BY DEF PipelineInv, RequestInv
<1> QED
  BY <1>1, PipelineInvariant, PTL

\* The clock of an outage starts with the first failure after a success, and no
\* order of the connects that are noted makes it run on or stand still.
THEOREM OutageClockTruthful == Spec => []OutageClock
<1>1. PipelineInv => OutageClock
  BY DEF PipelineInv, OutageInv
<1> QED
  BY <1>1, PipelineInvariant, PTL
=============================================================================
