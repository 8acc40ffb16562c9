------------------------------ MODULE Services ------------------------------
(***************************************************************************)
(* What the two services are wired from (core/registry.py), how their      *)
(* containers resolve an interface (core/container.py), and what every     *)
(* endpoint, tool, job and start-up probe does with database sessions and  *)
(* with calls that leave the process.  A flow is the sequence of its       *)
(* steps:                                                                  *)
(*   "open", "close"   a scope: a session, its transaction, its commit     *)
(*   "query", "act"    one or more statements ("act": of an admin)         *)
(*   a permission      the statement of the guard and its decision         *)
(*   "ask", "model"    a call to the other service, to a model provider    *)
(*   "verify"          a check that refuses to start the service           *)
(*   "try", "caught"   what fails between them goes on after "caught"      *)
(*   a name of Ways    one of several ways to go on, chosen there           *)
(***************************************************************************)
EXTENDS Sequences, FiniteSets, Integers

Scope == <<"open", "query", "close">>
Calls == {"ask", "model"}

(* The role of an account, read anew from the database, decides. *)
Permissions == {"admin:access", "products:manage", "orders:manage", "audit:view"}
RolePermissions == [customer |-> {}, admin |-> Permissions]
Statements == {"query", "act"} \cup Permissions

-----------------------------------------------------------------------------
(* Bindings, in the order configure makes them.  An instance is built at    *)
(* once from what it needs, a singleton at its first use, the others once   *)
(* per scope.                                                               *)
Binds(i, k, needs) == [interface |-> i, kind |-> k, needs |-> needs]
Instance(i) == Binds(i, "instance", {})
Scoped(i, needs) == Binds(i, "scoped", needs)
Single(i, needs) == Binds(i, "singleton", needs)

WebBindings ==
  << Instance("Settings"), Instance("EventBus"),
     Scoped("IUserRepository", {"AsyncSession"}),
     Scoped("IProductRepository", {"AsyncSession"}),
     Scoped("ICartRepository", {"AsyncSession"}),
     Scoped("IOrderRepository", {"AsyncSession"}),
     Scoped("IReviewRepository", {"AsyncSession"}),
     Scoped("IAuditLogRepository", {"AsyncSession"}),
     Scoped("IAuthService", {"IUserRepository", "EventBus", "Settings"}),
     Scoped("IProductService", {"IProductRepository", "IAuditLogRepository"}),
     Scoped("ICartService", {"ICartRepository", "IProductRepository"}),
     Scoped("IOrderService", {"IOrderRepository", "ICartRepository", "IProductRepository",
                              "EventBus", "IAuditLogRepository"}),
     Scoped("IReviewService", {"IReviewRepository", "IOrderRepository", "IProductRepository",
                               "EventBus"}),
     Scoped("IAdminService", {"IProductRepository", "IOrderRepository", "IUserRepository",
                              "IAuditLogRepository", "Settings"}),
     Single("IAIGateway", {"Settings"}),
     Instance("ScopeFactory"),
     Scoped("ICatalogSearchService", {"ScopeFactory", "IAIGateway", "Settings"}) >>

AiBindings ==
  << Instance("Settings"), Instance("EventBus"), Instance("PromptLibrary"),
     Instance("AliasLibrary"), Instance("IntentParser"),
     Scoped("IProductReadRepository", {"AsyncSession"}),
     Scoped("IOrderReadRepository", {"AsyncSession"}),
     Scoped("IReviewReadRepository", {"AsyncSession"}),
     Instance("SearchCapabilities"), Instance("IndexCoverage"), Instance("EmbeddingProviders"),
     Scoped("ISearchRepository", {"AsyncSession", "Settings", "SearchCapabilities", "IndexCoverage"}),
     Instance("IReranker"),
     Single("ISearchService", {"IntentParser", "AliasLibrary", "EmbeddingProviders", "IReranker",
                               "IndexCoverage", "Settings"}),
     Scoped("ISearchIndexRepository", {"AsyncSession"}),
     Single("IIndexService", {"Settings", "IndexCoverage", "EmbeddingProviders"}),
     Scoped("IChatRepository", {"AsyncSession"}),
     Binds("ToolRegistry", "instance", {"EventBus", "ISearchService"}),
     Instance("ILLMClient"),
     Single("IChatService", {"ILLMClient", "ToolRegistry", "PromptLibrary", "Settings", "EventBus"}) >>

(* Whether interface i can be built, in a scope or outside one, with the    *)
(* first n bindings made: a singleton is built outside every scope, and     *)
(* only a scope has a session.                                              *)
Resolves(b, n) ==
    LET bound == {b[k].interface : k \in 1..n}
        binding(i) == b[CHOOSE k \in 1..n : b[k].interface = i]
        ok[i \in bound \cup {"AsyncSession"}, scope \in BOOLEAN] ==
            IF i = "AsyncSession" THEN scope
            ELSE \/ binding(i).kind = "instance"
                 \/ \A d \in binding(i).needs :
                        /\ d \in bound \cup {"AsyncSession"}
                        /\ ok[d, scope /\ binding(i).kind = "scoped"]
    IN  ok

Resolvable(b, i, scope) ==
    LET ok == Resolves(b, Len(b)) IN <<i, scope>> \in DOMAIN ok /\ ok[i, scope]

-----------------------------------------------------------------------------
(* Endpoints: what a handler resolves, in a scope or outside, and the flows *)
(* it may take.  The guard of an admin route shares the scope of its body.  *)
Injected(i) == [inside |-> {i}, outside |-> {}, flows |-> {Scope}]
Admin(p, i) == [inside |-> {"IAuthService", i}, outside |-> {},
                flows |-> {<<"open", p, "act", "close">>}]
Unscoped(o, i, f) == [inside |-> i, outside |-> o, flows |-> f]

AdminEndpoints ==
    [dashboard |-> Admin("admin:access", "IAdminService"),
     order_status_counts |-> Admin("orders:manage", "IAdminService"),
     list_orders |-> Admin("orders:manage", "IAdminService"),
     audit_log |-> Admin("audit:view", "IAdminService"),
     list_products |-> Admin("products:manage", "IProductService"),
     get_product |-> Admin("products:manage", "IProductService"),
     create_product |-> Admin("products:manage", "IProductService"),
     update_product |-> Admin("products:manage", "IProductService"),
     archive_product |-> Admin("products:manage", "IProductService"),
     unarchive_product |-> Admin("products:manage", "IProductService"),
     adjust_stock |-> Admin("products:manage", "IProductService"),
     advance_order_status |-> Admin("orders:manage", "IOrderService")]

CartEndpoints ==
    [op \in {"get_cart", "add_item", "update_item", "remove_item"} |-> Injected("ICartService")]
OrderEndpoints ==
    [op \in {"checkout", "list_orders", "get_order", "cancel_order"} |-> Injected("IOrderService")]
ReviewEndpoints ==
    [op \in {"create_review", "list_reviews", "review_eligibility"} |-> Injected("IReviewService")]
AuthEndpoints == [op \in {"register", "login", "me"} |-> Injected("IAuthService")]

(* The catalog search asks the AI service before it opens a session. *)
ProductEndpoints ==
    [list_products |-> Unscoped({"ICatalogSearchService"}, {"IProductRepository"},
                                {Scope, <<"ask">> \o Scope}),
     get_product |-> Injected("IProductService"),
     list_categories |-> Injected("IProductService")]

(* A chat or a wake-up that finds the assistant not configured ends at once. *)
AssistantEndpoints ==
    [op \in {"chat", "warm"} |-> Unscoped({"Settings", "IAIGateway"}, {}, {<<"ask">>})]

Healthz == Unscoped({}, {}, {Scope})

-----------------------------------------------------------------------------
(* The AI service.  A search retrieves, between an embedding (which looks   *)
(* into the cache first) and a reranking, and may do without either.        *)
Embedding == {<<>>, Scope, Scope \o <<"model">>}
Search == <<"embedding">> \o Scope \o <<"models">>

\* mutant: the scope of the tool's products stays open meanwhile
SearchToolInAScope == {Scope, <<"open", "query">> \o Search \o Scope \o <<"close">>}

(* Tools run in one scope, but search_products opens its own: for all of a  *)
(* plain search, or for the products that a smart one found.                *)
SearchTool == {Scope, Search \o Scope}
CatalogTools ==
    [search_products |-> Unscoped({"ISearchService"}, {"IProductReadRepository"}, SearchTool),
     get_product |-> Injected("IProductReadRepository"),
     list_categories |-> Injected("IProductReadRepository")]
OrderTools ==      \* which read nothing for a visitor who is not signed in
    [op \in {"get_order", "list_orders", "get_order_status"} |->
        [inside |-> {"IOrderReadRepository"}, outside |-> {},
         flows |-> {Scope, <<"open", "close">>}]]
AnalyticsTools ==
    [op \in {"store_stats", "top_rated_products", "low_stock_products"} |->
        Injected("IProductReadRepository")]

EndpointsOf(table) == {table[op] : op \in DOMAIN table}
FlowsOf(endpoints) == UNION {e.flows : e \in endpoints}

(* The assistant is not offered the internal tool, and a call with wrong    *)
(* arguments, or of a tool it is not offered, runs nothing.                 *)
Offered == UNION {EndpointsOf(CatalogTools), EndpointsOf(OrderTools),
                  {AnalyticsTools[op] : op \in DOMAIN AnalyticsTools \ {"store_stats"}}}
ToolCall == {<<>>} \cup FlowsOf(Offered)

(* A chat finds its session; a turn loads it (unless it is not there),      *)
(* stops if it is full or else asks the model; a round ends with storing    *)
(* the messages, after the tools the model called (a tool that fails is     *)
(* reported to it) and its answer to them.                                  *)
Turn == {<<>>, Scope, Scope \o <<"model", "round">>}
Round == {Scope, <<"try", "tool", "caught", "model">> \o Scope}

SearchEndpoint == Unscoped({"ISearchService"}, {"ISearchRepository"}, {Search})
ChatEndpoint == Unscoped({"IChatService"}, {"IChatRepository"}, {Scope \o <<"turn">>})

(* The MCP server offers all tools and one resource. *)
McpCatalog == EndpointsOf(CatalogTools)
McpOrders == EndpointsOf(OrderTools)
McpAnalytics == EndpointsOf(AnalyticsTools)
StoreOverview == Injected("IProductReadRepository")
McpServer == {StoreOverview} \cup McpCatalog \cup McpOrders \cup McpAnalytics

AiEndpoints == {Healthz, SearchEndpoint, ChatEndpoint} \cup McpServer

WebEndpoints ==
    {Healthz} \cup UNION {EndpointsOf(AdminEndpoints), EndpointsOf(CartEndpoints),
                          EndpointsOf(OrderEndpoints), EndpointsOf(ReviewEndpoints),
                          EndpointsOf(AuthEndpoints), EndpointsOf(ProductEndpoints),
                          EndpointsOf(AssistantEndpoints)}

-----------------------------------------------------------------------------
(* The index worker: a sweep prunes, queues, measures the coverage and, now *)
(* and then, prunes the query cache; a batch, if any product was claimed,   *)
(* is loaded, embedded and written, what failed is recorded and the         *)
(* coverage measured anew.                                                  *)
Sweep == {<<>>, Scope \o Scope \o Scope, Scope \o Scope \o Scope \o Scope}
Claimed == <<"try">> \o Scope \o <<"models">> \o Scope \o <<"caught", "scopes">>
Batch == {<<>>, Claimed}
Iteration == <<"sweep">> \o Scope \o <<"batch", "scopes">>

(* Jobs run by hand: the keepalive, and a reindexing, which queues what is  *)
(* named or has drifted (or only lists it), drains the queue and reports.   *)
Keepalive == Scope
Queue == {Scope, Scope \o Scope}
Drain == {<<>>, Claimed \o Scope}
Jobs == {Keepalive, <<>>, <<"queue">> \o Scope \o <<"drain">> \o Scope \o Scope \o Scope}

(* The ways to go on that the flows above leave open. *)
Ways ==
    [embedding |-> Embedding, models |-> {<<>>, <<"model">>}, scopes |-> {<<>>, Scope},
     tool |-> ToolCall, turn |-> Turn, round |-> Round,
     sweep |-> Sweep, batch |-> Batch, queue |-> Queue, drain |-> Drain]

(* The start of the AI service: two probes, then, for smart search, two     *)
(* checks; without the database they are skipped.  Its stop ends the worker *)
(* and gives its leases back before the engine is disposed of.              *)
Probe == <<"try">> \o Scope \o <<"caught">>
Check == <<"try">> \o Scope \o <<"verify", "caught">>
Starts(svc) == IF svc = "ai" THEN {Probe \o Probe \o Check \o Check, Probe \o Probe \o Probe}
               ELSE {<<>>}
StopDisposingFirst(svc, background) ==    \* mutant
    CASE svc = "ai" /\ background -> <<"dispose", "join">> \o Probe \o <<"flush">>
      [] svc = "ai" /\ ~background -> <<"dispose", "flush">>
      [] svc = "web" -> <<"join", "aclose", "dispose", "flush">>
      [] OTHER -> <<"dispose">>
Stop(svc, background) ==
    CASE svc = "ai" /\ background -> <<"join">> \o Probe \o <<"dispose", "flush">>
      [] svc = "ai" /\ ~background -> <<"dispose", "flush">>
      [] svc = "web" -> <<"join", "aclose", "dispose", "flush">>
      [] OTHER -> <<"dispose">>

-----------------------------------------------------------------------------
(* Each service can be configured (what is built at once needs only what is *)
(* bound before) and every handler, job and probe finds what it asks for.   *)
Configurable(b) ==
    \A k \in DOMAIN b : b[k].kind = "instance" =>
        LET ok == Resolves(b, k - 1) IN
        \A d \in b[k].needs : <<d, FALSE>> \in DOMAIN ok /\ ok[d, FALSE]
Finds(b, e) ==
    (\A i \in e.inside : Resolvable(b, i, TRUE)) /\ (\A i \in e.outside : Resolvable(b, i, FALSE))
Background == [web |-> Unscoped({}, {"IProductRepository"}, {Keepalive}),
               ai |-> Unscoped({"IIndexService"}, {"ISearchIndexRepository", "ISearchRepository",
                                                   "AsyncSession"}, {Iteration})]

ASSUME WiringSound ==
    /\ Configurable(WebBindings) /\ Configurable(AiBindings)
    /\ \A e \in WebEndpoints \cup {Background.web} : Finds(WebBindings, e)
    /\ \A e \in AiEndpoints \cup {Background.ai} : Finds(AiBindings, e)
=============================================================================
