# Verification of DSK Agent

TLA+ models of the Go backend (`backend/`) and of the Python agent service
(`agent-service/`) of DSK Agent, model-checked with TLC, and theorems about them
proved with TLAPS. Paths below are relative to `src/`; `PROJECT.json` maps every
definition to the lines it translates, and lists runs, mutants, findings, hazards
and theorems.

DSK Agent sells apartments. Staff (managers and supervisors) and clients talk in chat
sessions, staff make deals and commercial offers, and a language model answers staff
and writes offers for them. Two processes share the work: the backend with its
PostgreSQL tables, and the agent service; RabbitMQ is between them. Nothing in
the backend holds a lock or a transaction across the steps of a request, with the
exception of the two transactions on deals and the reads of one SQL statement; everything
a request read may be stale when it writes. That, redelivery, and failures in the middle
of a request are what the models are about.

## 1. Inventory

| Component (where) | State | Operations | Hard behaviour | Correct if |
|---|---|---|---|---|
| **Commercial offers** (`backend/internal/service/offer.go`, `repository/offer.go`) | table `offers`: one row per idempotency key (`request_id`) and per version of a deal, status, prices, who decided | Create, RequestApproval, Decide; Calculate, Get, List read | concurrent creates with one key; version computed by a subquery; limit, price and units read before the INSERT; contradicting verdicts | creates are idempotent, versions are 1, 2, 3, …, one verdict, no approval without a limit or a supervisor, terms never change |
| **Deals** (`service/deal.go`, `repository/deal.go`) | table `deals`, status of `apartments` and of `chat_sessions` | CreateDeal, UpdateDealStatus | three tables follow one status; permissions and prices read earlier; staff edit apartments meanwhile | deals only for own clients; discount within a limit; total matches discount; apartment follows its deal |
| **Chat sessions** (`handler/chat.go`, `repository/chat.go`) | `chat_sessions`, `messages`, `chat_session_rejections` | open or reuse, take, close, reject, send, read, hide | takes race; ignored errors; permissions checked on a row read earlier | a take stands; only the assigned manager acts |
| **Discount policies** (`repository/discount_policy.go`) | policies with periods per building and role | create, active limit | back-dated and concurrent creates; limits change between check and use | the policy that began last rules; closed periods stay |
| **Catalogue** (`service/construction.go`, `repository/construction.go`, `repository/ancillary_unit.go`) | complexes, buildings, apartments, ancillary units, progress | CRUD, progress | whole-row updates while offers and deals are made | – (input of the above) |
| **Backend RPC consumer** (`broker/backend_rpc.go`) | queue, the delivery in hand | dispatch 14 operations, one at a time; respond, ack, requeue | a crash or failed response after the effect: the request runs twice | operations that change state are idempotent |
| **Backend RPC client** (`app/broker/backend_rpc.py`) | futures by correlation id | start, close, call, response | response after the timeout; close during a call | an answer reaches its own call only |
| **Agent RPC caller** (`service/ai_agent.go`) | one connection, a callback queue per request | ensureConnection, sendRPC | answer after 75 s; connection lost under several requests | the caller gets an answer to its own request |
| **Agent consumer** (`app/broker/consumer.py`, `publisher.py`) | queue, deliveries in hand, retry header | handle, retry by republishing, answer, ack | crash between publish and ack; redelivery; retry copies | no request lost, retries bounded, each answered |
| **Offer agent** (`app/agents/offer.py`) | unfinished offers by user and session, in memory | generate, resume_pending, expiry, eviction | messages of one session interleave; memory at its limit; restart | the discount comes from the message, the deal from the same conversation; memory bounded |
| **Offer graph** (`app/graphs/offer_graph.py`) | the state of one run | load, calculate, text, create, submit | effects in the backend while the call times out | the text says what happened |
| **AI chat handler, audit** (`handler/ai.go`, `handler/dialog_ai.go`, `service/dialog_analysis.go`, `repository/ai_audit.go`) | messages and audit rows around an RPC | Chat, Analyze, ReplyAssist | rights read long before the answer; ignored errors; the asker hangs up | staff assistance stays out of the client's chat; only the entitled are served; the audit tells the truth |
| **Domain events, offer continuation** (`app/broker/event_consumer.py`, `app/graphs/offer_continuation.py`) | event queue, retries | offer approved/rejected, construction delayed → next step | retried or redelivered events repeat effects | each event settled, effects bounded |
| **Construction delays, recommendations** (`app/agents/construction_delay.py`, `repository/recommendation.go`) | recommendations, unique per request | advise on the deals of a building | redelivery in the middle of the deals; one deal fails | done means that every deal was advised on |
| **Construction notifications** (`service/notification.go`, `repository/notification.go`) | claimed construction states, notifications | NotifyConstructionUpdate, reading | the state is claimed before the notices are stored; deals change in between | a state is told once, to every deal active throughout |
| **Offer delivery, PDF** (`service/offer_delivery.go`, `repository/offer_delivery.go`) | documents, deliveries | PDF, Send | offer read twice; mail sent, completion fails | only sanctioned terms leave; a delivery marked sent was sent |
| **Router and other agents** (`app/agents/router.py`, …) | – | prompts and formatting | the language model is free to say anything | (nondeterministic input) |
| **Users, authentication** (`service/auth.go`, `service/user.go`, `repository/user.go`) | users, tokens given out | register, appoint, login, update, preferences | check, then insert; read, change, write back; tokens outlive changes | an address names one account; authority is granted; updates do not undo each other |
| **Reminders, competitors, ERP** | single tables | CRUD | – | – |
| **Frontend**, **configuration, schema, scripts** | – | – | – | – |

Interactions: HTTP handlers call services, services call repositories, each repository
method is one SQL statement (two in the transactions of deals). `AIHandler.Chat` publishes a
request and waits on a callback queue of its own (`service/ai_agent.go`). The agent consumer takes
up to `RABBITMQ_PREFETCH_COUNT` deliveries and handles them as asyncio tasks that interleave at
every `await`; the offer graph calls the backend over a second pair of queues with the
client's 5 s timeout. Verdicts on offers and construction delays are meant to reach the agent as domain events. The backend publishes none; the
scripts `agent-service/scripts/publish_construction_event.py` and `publish_offer_event.py` do, and are what `Publish` of DomainEvents models.

## 2. Modules

| Module | Models | Used by |
|---|---|---|
| `OfferLifecycle` | abstract: what the table `offers` promises its readers, one atomic step per change | refined by `Offers` |
| `Offers` | calls of `service/offer.go`, one SQL statement per step, and a catalogue that changes meanwhile | `MCOffers`, `OfferDelivery`, `OffersProofs` |
| `OfferDelivery` | downloads and mails of offers; extends `Offers`, whose life cycle goes on meanwhile | `MCOfferDelivery`, `OffersProofs` |
| `DiscountPolicies` | transactions that replace the policies of one building and role | `MCDiscountPolicies`, `AdministrationProofs` |
| `Chat` | requests of `handler/chat.go`, one statement per step | `Deals`, `Assistant`, `ChatProofs` |
| `Deals` | requests of `service/deal.go`; extends `Chat`, whose sessions its transactions write | `MCDeals`, `DealsProofs` |
| `Assistant` | AI requests of a chat session or a deal, their RPC and their records; extends `Chat` | `MCAssistant`, `AssistantProofs` |
| `Notices` | the catalogue's creates and updates, and the notices of construction delays | `MCNotices`, `NoticesProofs` |
| `Accounts` | accounts, tokens, profile updates and preferences | `MCAccounts`, `AdministrationProofs` |
| `BackendRpc` | Python RPC client, broker and Go consumer | `AgentChat`, `DomainEvents` |
| `AgentChat` | a chat request of staff from `AIHandler.Chat` through consumer, offer agent and graph to the backend and back; extends `BackendRpc` | `MCAgentChat`, `AgentChatProofs` |
| `DomainEvents` | domain events in the agent service, and what they ask of the backend; extends `BackendRpc` | `MCDomainEvents`, `DomainEventsProofs` |
| `MC…` | instances for TLC | |
| `…Proofs` | theorems and proofs | |

### State and actions against the code

**Offers.** `offers` is the table; `pc[c]`, `req[c]`, `work[c]` are the next statement, the
request and the Go locals of call `c`; `reply[c]` is what its caller is told. Create is the
sequence `ReadLimit` (parsing, authorization, `GetActiveMax`), `ReadPrice`,
`ReadUnit` twice, `Lookup` (`GetByRequestID`), `Snapshot` (the subquery for the version) and `Insert`
(the CHECKs, `ON CONFLICT (request_id)`, and the unique index on deal and version);
RequestApproval is `ReadOffer`, `Mark`, `Recheck`; Decide is `ReadForDecision`, `Settle`. `Abandon`
cuts a call short between statements: context cancelled, process stopped, or a database error. A committed write
may lose its acknowledgement. Splitting the subquery from the INSERT is PostgreSQL's
behaviour: the snapshot is taken before the unique index serialises the rows. `PublishPolicy`,
`UpdateApartment`, `UpdateUnit` are the edits staff make. `ceiling` is history: the largest limit that was ever in
force. Money wraps at `MaxInt`, as int64 does.

**Chat.** `session`, `message`, `rejections` are the tables; `chat[c]` is a request in flight. Each
handler is a read that authorizes (`FindGeneral`, `ReadForTake`, `ReadForClose`,
`ReadForSend`, `ReadForMessages`) and then its statements (`Create`, `Greet`, `Assign`, `Close`, `Reject`,
`CloseRejected`, `Post`, `MarkRead`, and the one-statement `Hide`). With `Faults` the statements whose errors
the code ignores may fail. Order by `updated_at` among reusable sessions is left open:
any of them may be found.

**Deals.** `deals` and `apartment` are tables, `limit` the policy in force per apartment and
role (the apartment's building decides it; `UpdateApartment` may therefore replace it). `deal[c]` is a request
in flight. CreateDeal is `ReadDealLimit`, `CheckClient`, `ReadSaleData`,
`CommitDeal`, `Announce`; UpdateDealStatus is `ReadDeal`, `ReadUpdateLimit`, `CommitStatus`,
`Announce`. Percentages are integers in 1/1000 %, one digit finer than the column, which `Stored` rounds. `setter` and `edited` are
history. What follows a commit besides the chat message, the in-app notice of `service/deal.go:114` and an e-mail, is left out.

**BackendRpc.** `pending` is `BackendRpcClient._pending`; `requests`, `working` and `replies` are the
queue, the delivery the Go consumer handles and the reply queue; `offers` is the table,
reduced to what a caller sees. `Issue` and `Resume` are `call` before and after its await,
`IssueFails` a publication that raises, whether or not the broker has the request,
`HandleResponse` and `CloseClient` the other two writers of futures; `Dispatch`,
`Respond` and `AckRequest` are the steps of `handleDelivery`. `Dispatch` abstracts module `Offers`: a taken key
answers with the row that holds it, a discount exceeds the limit or not, a submission accepts a
draft or an offer already pending; any operation may be refused or fail, before or after its effect.

**AgentChat.** `handling` lists the deliveries taken; `handling[h].at` is the await at which
handler `h` stands. `Deliver` is `_handle_message` up to the first await, including the purge of
expired entries and the choice of `resume_pending` over the router. `Route`, `Extract`, `ResumeOffer`
are the agent, `Load`, `WriteText`, `OfferCreated`, `Submit`, `OfferSubmitted` the
graph, `Retry` the republication with `x-retry-count` raised, `Answer` and `Ack` the end.
`RestartAgent` ends the process: unacknowledged deliveries return to the queue, and
unfinished offers are forgotten. `Reconnect` is what `connect_robust` does about a broken connection: the deliveries return
to the queue (`TakenBack`) and the reply queue is lost, while the handlers go on; they are in `lost` from then on, and what they
nack (`PutBack`) or acknowledge has no effect. `ReadAnswer` and `GiveUp` are the ends of `sendRPC`. What the language model extracts is
any value of the schema `OfferRequestFacts`; what the code makes of it is `Understood`.

**OfferDelivery.** `document` is `offer_documents`, `enrolled` is `offer_deliveries`, `mailed` what the mail server took, and
`delivery[x]` a request of `OfferHandler.PDF` or `Send`: `ReadForDelivery` (`GetForActor`), `Build` (`GetDocument` reads the offer
again), `Admit`, `File`, `Enrol`, `Mail`, `Finish`. `GiveUp` cuts a request short between statements. The document is
the record of the terms that an offer keeps; its layout, and the catalogue data it also shows, are left out.

**DiscountPolicies.** `policies` holds the committed rows of one building and role; `creation[c]` is a transaction of Create at READ COMMITTED:
`Begin` takes the snapshot of the UPDATE, `Close` waits for rows that others have locked and looks at them again, `Number` computes the
version and inserts, `Commit` makes both visible unless the version is taken, `Fail` rolls back. `Active(t)` is what
`GetActiveMax` may pick at instant `t`.

**Assistant.** `ask[a]` is an AI request; `asked`, `open` and `callback` are the agent's inbox and the callback queues,
`record` is `ai_audit_log`, `dealt` what is needed of `deals`. Chat is `ReadForChat`, `Question`, `Send`, `Receive`, `Record`, `Answer`; Analyze and
ReplyAssist are `ReadForDialog`, `Send`, `Receive`, `Record`. `Reply` and `ReadDialog` are the agent, `LoseConnection` the broker, `Abandon` the asker
who hangs up: the context is cancelled, so neither audit row nor answer is stored. `about` is history: which request a message belongs to.

**Notices.** `complexes`, `building`, `apartment`, `stage`, `deals` are tables; `claimed` is `construction_notification_states`, `notices` the
notifications, whose write and deal stand for the id of a row. A write of a stage is `CreateProgress` or `UpdateProgress` (the row), `ClaimConstructionState` (the upsert with its `WHERE`),
`ReadDeals`, and `Tell` per deal; `CutShort` ends it anywhere, since errors are ignored. `steady`, `claims` and `overlapped` are history.

**Accounts.** `users` is the table, `tokens` those given to someone: a token is valid whatever happens to its account, so any may be presented at
any time. Register and RegisterStaff are `LookUp` and `CreateUser`, UpdateMe is `ReadForUpdate` and `UpdateUser`, and the agent's
`UpdateClientPreferences` is one statement. `expected`, `appointer` and `overlapped` are history: `expected` is the table had each request been one step.

**DomainEvents.** `event` and `queue` are what was published and what waits, by retry counter; `handling[h].at` is the await at which a handler stands.
`Deliver`, `Retry`, `Ack` are the consumer, `RestartAgent` and `Reconnect` are as in AgentChat, `ListDeals` … `Advised` the workflow of a construction delay, `MarkRejected` …
`PdfFailed` the continuation of an offer, `ServeRequest` and `AnswerRequest` the backend. A call is identified by run, operation and deal, as
each draws a fresh request id. `Listings` are the lists of active deals a query may return; each run reads one anew. The backlog of the backend is bounded; a call beyond it waits for its timeout, which is also what happens to
`offer.generate_pdf`, whose key is bound to no queue. `ForeignCall` is a request of another agent that keeps the backend busy.

## 3. Runs

Every bound is a CONSTANT of the cfg. Sets of calls and of identifiers are symmetric wherever their
elements are interchangeable; runs that check liveness use no symmetry.

| Run | Asks | Instance | Why it is enough |
|---|---|---|---|
| `offers` | `TypeOK`, `OneVerdict`, `NoUnsanctionedApproval`, `ImplementsLifecycle`, `ChangesAreAuthorised` | two scenarios, kept apart by the constraint `Scenarios`: 4 calls on 1 offer while policies change, or 1 call while policies, building, prices and units change at any step | create, submit and two verdicts that contradict each other need four calls; the race between a call and the catalogue needs one, and prices −1, 4, 20000 and 90000 with `MaxInt` 100000 reach every price error and overflow; together they meet every refusal |
| `emails` | `IdempotentCreate`, `VersionsAreARun`, `OnlySanctionedTermsLeave`, `LogAgreesWithMail` | 3 calls, 2 keys, 2 ids, a manager and a supervisor, 1 delivery | a key conflict and a version conflict need two calls each, an approved offer three (create, submit, approve); the delivery runs in between and may be cut short anywhere |
| `policies` | `LatestRules`, `PeriodsStand` | 4 creates, 3 instants | two open policies and a third that meets both; the fourth may be back-dated |
| `sessions` | `AssignmentStands`, `OnlyTheAssignedManagerActs`, `StaffAssistanceStaysPrivate`, `AgentServesTheEntitled`, `RecordsAreTruthful` | 3 chat requests, 1 AI request, 1 session, 2 messages, 1 deal | open, two takes or a take and a close is the shortest race for a session, with an AI request of the client, the manager or the loser across it; all five are proved for any number |
| `staff_only` | finding: `OnlyStaffAskTheAgent` | as `sessions`, with 1 chat request | |
| `notices` | `ToldOncePerTurn`, `SteadyDealsAreTold`, `ClaimFollowsStage` | 3 writes of 1 stage, 3 reports, 2 buildings, 2 deals, 1 edit | the shortest way to tell a text twice is a turn to another state and back; the two delays differ only in what the fingerprint trims |
| `accounts` | `EmailsIdentifyAccounts`, `AuthorityIsGranted`, `AsIfOneStep` | 5 requests on 4 ids, two of them seeded | login, read, a preference and a write by one client is the shortest lost update; login, appointment and login the shortest grant |
| `events` | `RecommendationsAreBounded`, `DoneMeansAdvised`, `EveryEventIsSettled` | 1 event of any kind, 2 deals of which a run is told both or the second, 4 runs, 1 retry, 1 fault anywhere, backlog 1 | (1 + retries) · (1 + faults) = 4 runs is the most one event can need, so the bound cuts nothing off |
| `deals` | `DealsOnlyForOwnClients`, `DiscountWithinALimit`, `TotalFollowsDiscount`, `ApartmentFollowsItsOnlyDeal` | 2 deal requests, 2 chat requests, 1 deal, policy 3 % against configured 5 %, discounts 2.996, 3.5 and 4.004 % | a create and an update overlap with edits; the discounts lie around the policy and between two values of the column |
| `booking` | finding: `NoDoubleBooking` | 2 creates for one apartment | |
| `conversation` | `TypeOK`, `OffersStayInTheConversation`, `NoInventedDiscount`, `PendingBounded` | 2 requests of 6 messages in 2 sessions, 2 handlers at once, memory of 1 entry | one message leaves an unfinished offer, the other resumes, expires or evicts it, in every interleaving with the first's graph |
| `delivery` | `SavedMeansStored`, `OneOfferPerDelivery`, `NoRequestLost`, `RetriesAreBounded`, `EveryRequestIsAnswered` | 1 request, 4 handlings, 1 retry, 1 fault anywhere | (1 + retries) · (1 + faults) = 4 handlings is the most one request can need, so the bound cuts nothing off |

Deadlock is not checked where the system may stop: in `sessions`, `notices`, `accounts` and `policies` (every request done), and in
the runs of AgentChat and DomainEvents (everything settled, or the bound on handlings reached). Elsewhere the catalogue can always be edited,
so a state without successor would be an error of the model. In `sessions` no guest writes; guests are within the theorems about `Chat`.

`MaxMoves` bounds edits in Notices, `MaxFaults` crashes, broken connections, failed publications and, in DomainEvents, calls of other agents, `MaxHandlings` runs, `MaxBacklog` the backend's queue;
`MaxInt` stands for the largest int64.

**Fairness.** Only `FairSpec` of AgentChat and of DomainEvents assume any: weak fairness of every step of a handler
(asyncio runs every ready task, and every await in it ends: calls of the backend after 5 s,
calls of the language model by their own timeout), of `Take` (the broker delivers what is queued while prefetch allows) and of the
restart of a stopped service (`docker-compose.yml` names no restart policy, so somebody has to start it). Nothing is assumed of the backend or the model: they may stay silent or fail
for ever. `MaxFaults` bounds crashes, broken connections and failed publications; without the bound no request need ever be
answered. All other specifications are safety only; in the backend every request is finite by construction.

**Mutants.** Each property of each passing run has a mutant in `PROJECT.json`: a plausible bug
in one mapped definition, under which the run's own instance violates the property.

## 4. Findings and observations

Two runs find a property violated:

- `booking`, `NoDoubleBooking`: two deals can hold one apartment, since the transaction does not look at its status again.
- `staff_only`, `OnlyStaffAskTheAgent`: the code and its documents disagree about who may ask the agent. `backend/README.md:34` says that a client has no direct
  access to the AI, `:245` that the endpoint is for staff only, `internal/swagger/runtime_spec.go:18` takes it out of the clients' API, and
  `runtime_spec_test.go:46` tests that it is gone; but `cmd/user_server/main.go:138` routes `POST /api/ai/chat` to the same handler, which lets the client
  of a session ask (`handler/ai.go:77`). The specification is of the code: `MayAsk` admits the client, and `AgentServesTheEntitled` says
  that nobody is served beyond the rights the code grants, a client's to his own session included. It says nothing for the documents'
  stricter reading, which is `OnlyStaffAskTheAgent`.

What else the models made visible, and the properties allow for:

- A create with a used key is answered with another actor's offer if that row is committed between the lookup and the INSERT: the comparison announced
  at `service/offer.go:206` is not repeated after `ON CONFLICT` (`repository/offer.go:111`).
- RequestApproval answers "not found" for an offer that exists and was decided meanwhile (`service/offer.go:282`).
- A client's confirmation of a deal may carry a discount, up to a manager's limit, that changes the price (`service/deal.go:196`, comment at `:171`).
- Staff are told that saving an offer failed although it is stored: after a timeout, or if its status is not the expected one (`graphs/offer_graph.py:260`).
- Two concurrent requests of a client may open two general sessions (`service/chat.go:42`).
- When two writes of a construction stage overlap, their claims may come in the other order, and the claimed state is then not the stored one;
  a write cut short after its claim loses its notices, for the next one sees no change. A deal made after the claim is never told of the state it found.
- `ON CONFLICT (request_id)` stores a recommendation once per request, and every run draws fresh ids: a deal may be advised once per run.
- The continuation of an approved offer always ends in a timeout: no queue is bound to `offer.generate_pdf`. A retry that cannot be published drops
  its event. A client that is being closed fails calls with a code that is not retried, so at a shutdown an event may be acknowledged as failed.
- An asker who hangs up cancels the context: the agent may act on the request, but no audit row is written. A session closed meanwhile still gets the answer.
  `ensureConnection` dials anew when only the channel is closed, and leaks the old connection.
- A delivery left `pending` or `failed` proves nothing: the mail goes out between two statements, and a second click mails again.
- A connection that `connect_robust` restores leaves the handlers of the old deliveries at work beside those of the new ones, beyond the limit of prefetch.
- Two profile updates that overlap may undo each other's e-mail or password; tokens stay valid through every change of the account.

## 5. Proofs

All theorems hold for every value of the constants that satisfies the named ASSUMEs of the module
(roles are roles, requests are well-formed, limits lie in 0..10000, `None` is no value); the number of
calls, users, deals, sessions and the prices are arbitrary.

**`OffersProofs`.** Every property of `Offers` is proved: `TypeCorrect` (`TypeOK`), `CreateIsIdempotent` (`IdempotentCreate`),
`VersionsNeverSkip` (`VersionsAreARun`), `ApprovalsAreSanctioned` (`NoUnsanctionedApproval`), `VerdictsAreFinal` (`OneVerdict`),
`ChangesAreAccountedFor` (`ChangesAreAuthorised`) and the refinement `CallsImplementLifecycle` (`ImplementsLifecycle`).
Types alone are not inductive: that `Insert` stores a typed row needs that a call at that statement carries a create request with
a valid discount, and a version computed from a snapshot. `CallShape` says so for every statement a call may stand at, and
`Typed` (`TypeOK /\ CallShape`) is inductive. The lemmas `TableSteps` and `CallSteps` reduce every step to what it can do to a row
and to a call; on them rest, each inductive together with `Typed`:
- `KeyInv`: keys are unique in the table, and a successful create points at a row with its key;
- `VersionInv`: the versions of a deal are a run, and all versions below the one a snapshot computed exist
  (`SnapshotIsDense`: it may be stale, but rows are never deleted), so a stale INSERT meets the unique index;
- `SanctionInv`: the ceiling covers the limits in force and never sinks, so what a call found within the limit stays within the ceiling;
- `VerdictInv`: the row of an acknowledged verdict shows it, and a decided row is never matched again (`DecidedStays`);
- `Undecided`: a row without a verdict names no judge, which makes `Decided` the verdict of the life cycle. The refinement also uses
  `VersionInv`: a version that is not taken, in a run without gaps, is the next one;
- `Authorised`: a call on its way to a write was entitled to its deal, and offers keep their deals.

The second half of the module is about `OfferDelivery`: `DeliveriesTyped` (`DeliveryTypeOK`), `SanctionedTermsLeave` (`OnlySanctionedTermsLeave`) and `LogTellsTheTruth`
(`LogAgreesWithMail`). `OffersAlone` shows that the composition lets offers live as they do alone, so that all theorems about `Offers` hold in it.
`DeliveryInv` says what each request carries (`Carries`: an approval it read still holds, and its paper says what the offer says now), what it has
left behind (`Leaves`: log, mail, document), and what is on file (`Filed`). `OffersStand` (offers keep their terms, and approved ones their approval)
is why an approval read statements before the mail is as good as one read with it.

**`ChatProofs`.** `ChatTypesCorrect`, `AssignmentsStand`, `AssignedManagerActs`. The inductive
invariant is `ChatInv`: every request in flight is in step with its session (`CallOK`), general sessions are
never assigned (`GeneralUnassigned`), acknowledged takes stand (`AssignedStay`), and stored messages and
rejections, as well as the requests about to store one, belong to the assigned manager (`MessagesOK`,
`RejectionsOK`). The lemma `SessionsEvolve` says what any step may do to a session (never change its apartment, nor an
employee once set); it is why a permission read earlier is still good when it is used. Two modules extend `Chat`, and what they
need of it is stated once: `ChatEvolves` (a step of Chat keeps apartments, employees and, but for their marks, messages),
`OutsideStepInv` (a step of somebody else that writes a session or a message as a chat request might keeps `ChatInv`), and
`InvariantMeans` (`ChatInv` implies the properties).

**`DealsProofs`.** `DealsTyped` (`TypeOK`), `OwnClientsOnly` (`DealsOnlyForOwnClients`), `DiscountsWithinLimits`
(`DiscountWithinALimit`), `TotalsFollow` (`TotalFollowsDiscount`) and `ApartmentsFollow` (`ApartmentFollowsItsOnlyDeal`). The
properties speak of rows, but a row is written from values read up to four statements before. `DealsInv` adds what the statements a request
has behind it have established (`Establishes`): its discount is within the ceiling, its client is served by its author (`Served`), its price is that of its
discount; rows are `Justified` by the same facts; and the ceiling covers every limit in force (`CeilingCovers`), which makes a
limit that was replaced meanwhile as good as one in force. `Evolution` keeps these facts true in every step: sessions keep
their employee, deals their parties and base price, and the ceiling rises only. The two writing transactions are proved once
(`TransactionInv`). `ChatInv` is part of `DealsInv`: a transaction that closes a session is an outside step of Chat. That rounding to
the column cannot pass a limit is `Rounding`: limits are whole hundredths, and rounding is monotone. `ApartmentsFollow` is an invariant on its
own, from what a transaction does to the apartment (`DealMovesApartment`).

**`AssistantProofs`.** `AssistantTyped` (`TypeOK`), `ChatStaysSound` (the properties of `Chat` in the composition),
`StaffAssistancePrivate` (`StaffAssistanceStaysPrivate`), `AgentServesEntitled` (`AgentServesTheEntitled`) and `RecordsTruthful`
(`RecordsAreTruthful`). `AssistantInv` says that a request that passed its check is still admissible (`Admissible`, by `SessionsEvolve`
and since a dialog keeps its parties), what a request has published and been told (`InFlight`, `Published`), that a message the assistant
wrote belongs to a client's request in the same session (`Belongs`), that an entry of the audit agrees with its request
(`Recorded`), and that the agent is given no message but of clients and managers. An audit row, an answer and the
callback are written at different statements, and the connection may be lost between any two: `Recorded` must
hold of all of them at once.

**`AdministrationProofs`** is about two modules that share no state. `DiscountPolicies`: `LatestPolicyRules` (`LatestRules`)
and `PeriodsAreFinal` (`PeriodsStand`). That the latest
policy alone is active says nothing of transactions in flight. The inductive `PoliciesInv` adds that a closed policy ends later than
it starts, and where another policy starts (`Successors`); that versions are distinct (`Versions`); that what a
transaction is about to close is committed, open and started earlier than its own policy, and that a transaction has locks
only while it inserts or commits (`Holds`); and that no two transactions hold the same row (`Locks`).

`Accounts`: `AccountsTyped` (`TypeOK`), `EmailsUnique` (`EmailsIdentifyAccounts`), `AuthorityGranted`
(`AuthorityIsGranted`) and `UpdatesAsOneStep` (`AsIfOneStep`). The properties say nothing of requests in flight. The
inductive `IInv` adds that a row about to be inserted is typed and has a staff role only if its author is a supervisor
(`InsertOK`); that a row about to be written back belongs to an account, has its role and, unless updates of the
account overlapped, holds what the request makes of the account as it is now (`WriteOK`, `Fresh`); that two requests
about to write one account are an overlap (`Alone`); and that the history knows the same accounts (`Tracked`). The lemma
`Stored` shows that a step that keeps accounts and their roles (`Kept`) leaves these facts true of all other requests.

**`NoticesProofs`.** `SteadyDealsTold` (`SteadyDealsAreTold`) and `ClaimsFollowStages` (`ClaimFollowsStage`). `NoticesInv` says what a write
knows of the deals that stayed active since its claim (`Knows`): they are active still until it has listed the deals, then
each is on its list or told. `Follows` is about a stage that never had two writers at once: it has one writer at most, which
has claimed what it wrote unless it is about to, and what nobody writes and nobody failed to claim is claimed. `Advances`
states what every step of a write does to claims and calls, whichever statement it stands at and whether it fails there.
`ToldOnce` (`ToldOncePerTurn`) counts notices of one deal and text against the turns of the stage to the state they tell. A count is not inductive, so
`TurnsInv` keeps what it rests on: each claim of a stage is made by one write at most (`MadeClaims(f)`: `f[c]` is the claim that write `c` made), a notice
has the text of the claim its write made, and a write leaves a deal one notice at most. So notices of one deal and text map one to one into turns.

**`DomainEventsProofs`.** `DoneIsAdvised` (`DoneMeansAdvised`) and `RecommendationsBounded` (`RecommendationsAreBounded`), for any number of events, deals,
retries and redeliveries, and a backend that answers or does not. `EventInv` holds the loop invariant of the workflow (`CourseOK`: every deal the run was told of has
its recommendation, or is still to be dealt with, or the run has failed for good), and follows an "ok" from the table to the delivery that hears it: the
backend answers so only to what it has stored (`WorkingOK`), a future holds no other success (`PendingOK`), and a row belongs to one
run, operation and deal (`RowsOK`), whichever copy of the request stored it. `StepKinds` reduces `Next` to a few kinds of step, as for `AgentChat`, and
`TurnsOK` is the same potential: runs so far, turns of the copies still queued, and turns that a run with the event in hand may
leave. A restart and a reconnect are one kind of step, in which the broker takes deliveries back. `RowsOfRuns` maps the recommendations of a deal
one to one into the runs. The code's query returns a list of deals, whichever it is: that is the assumption `EventAssumption`.

**`AgentChatProofs`.** Every safety property of `AgentChat` is proved, for any number of messages, sessions, handlings, retries and
faults, and any behaviour of the language model, the broker and the backend.
- `DiscountsAreWritten` (`NoInventedDiscount`) and `OffersAreAskedFor` (`OffersStayInTheConversation`). The properties
  speak of stored offers only; `AgentInv` follows a discount and a deal back to the message: a queued copy belongs to
  a message that was sent (`QueueOK`), a handler with a plan has one about a deal asked for in its session, and from `load`
  on a sanctioned discount (`HandlingOK`), a remembered plan belongs to its key's user and session (`PendingOK`), and requests to
  the backend, queued or in hand, are what a handler may ask for (`RequestsOK`, `WorkingOK`), so that stored offers are too
  (`OffersOK`). `Remembers` (no step withdraws a message or changes a handler's request) keeps each of these facts true once it is.
- What follows needs to know what a step does to a request. `StepKinds` reduces `Next` to a few kinds: a
  request is made (`Asks`), taken from the queue (`Takes`), or its handler works on, passes it on, puts it back, answers,
  acknowledges, or drops what the broker took back (`HandlerStep`), or the broker takes deliveries back (`TakesBack`: a restart or a reconnect), or nothing of this happens (`Rests`).
- `RequestsAreKept` (`NoRequestLost`). `Custody`: an unanswered request is queued or in the hands of a handler that has
  neither answered nor passed it on; a handler that only has to acknowledge holds nothing.
- `MemoryIsBounded` (`PendingBounded`). `Remember` evicts one entry, so the bound rests on `Oldest` choosing a member: a finite,
  non-empty set of entries has a least one. That is induction over a set; it is done without the library's induction rules, by
  taking a least counterexample (`Least`, `FiniteInduction`, `Greatest`).
- `SavedOffersExist` (`SavedMeansStored`). `TruthOK` follows a success from the table outwards: in the delivery in hand, in the
  reply queue, in the future, in the handler's local, in the answers published. At each of them, an offer of that call is in the
  table with that status. `OnTheWay` and `Backlog` say where a call may be; that no later step takes an offer out or its status back makes
  every hand-over safe, also to a caller whose future is long gone.
- `AgentTyped` (`TypeOK`). The part that is not typing is that a future belongs to a handler at the await of its own call
  (`FuturesOK`), which timeouts, restarts and late responses must keep.
- `RetriesMakeNoOffers` (`OneOfferPerDelivery`). Counting offers is not inductive, for an offer is made long after the
  delivery. `CountOK` counts those that may still make one: handlings that have asked for the offer, or have not got that far
  (`Makers`), plus queued copies (`Copies`) are at most one more than the redeliveries. Passing a request on gives up a maker
  for a copy, because only a handler that has not asked yet does so. After a restart or a reconnect, `CopiesBack` maps the copies that
  came back one to one into the deliveries that were held; after a reconnect their handlers may make an offer each, which the
  redelivery pays for.
- `RetriesBoundTheWork` (`RetriesAreBounded`). `TurnsOK` is a potential: handlings so far, plus the turns that queued copies still have (1 +
  `MaxRetries` − k for a copy with counter k), plus those a handler with the request in hand may leave to others. Each delivery
  brings 1 + `MaxRetries`, and no step adds any. The turns are sets of pairs, since a sum over a set would need
  recursion.

TLC checked `Custody`, `FuturesOK`, `TruthOK`, `CountOK`, `TurnsOK` and the bound on the memory as invariants of the instances
`conversation` and `delivery` before they were proved.

TLC checked `NoticesInv` and `FollowsInv` likewise, on the instance `notices`.

Every safety property of every run is a theorem. Only model-checked: the liveness properties (`EveryRequestIsAnswered`,
`EveryEventIsSettled`), which rest on fairness and are out of the prover's reach, and the two properties that a run is expected to violate
(`NoDoubleBooking`, `OnlyStaffAskTheAgent`). `BackendRpc` and `OfferLifecycle` have no theorems of their own: the first is proved about as part of `AgentChat` and `DomainEvents`, the
second as what `Offers` refines.

## 6. Abstractions

- A database error is a request that ends without acknowledgement, before or after its statement's effect.
- The broker neither crashes nor loses what it confirmed. Of aio-pika it is assumed that a robust connection declares its queues again under their
  names, the exclusive reply queue empty, and that an ack on the old channel raises. The order inside the agent's queue is not kept, since
  retries append copies and several deliveries are handled at once.
- The four nodes of the graph that only read are one step: what they read decides nothing but whether a call is
  refused or whether approval is required, and both are left open. The limit may differ
  between calculation and creation, because policies change in between.
- Parking and storage chosen in a message are left out of AgentChat; they add parameters to the call, not control.
- Requests of dialog analysis share consumer, retry and answer with chat requests and touch no offers; AgentChat leaves them out, Assistant follows them from the handler's side.
- Verdicts of supervisors are in Offers, not in AgentChat, where no later status matters.
- The e-mails about deals and construction delays are left out, and so is the in-app notice of a deal (`service/deal.go:114-125`), which is stored between the
  commit and the chat message: nothing depends on them. The e-mails of offers are in OfferDelivery.
- Totals of deals are rounded half up from exact products; the code multiplies and rounds a float64 (`service/deal.go:64-66`, `:97`), which differs from that for
  amounts beyond its 53 bits only, or where a product falls within its error of a half.
- A failure without an error object (`ErrRPCFailed`) is told as 503 by `handler/dialog_ai.go:110`, other failures of the agent as 502 or 422: `Told` has one result
  for all of them.
- A publication that raises although the broker has the message is a step of its own for calls (`IssueFails`) and for retries of events. For the answer and
  the retry of a chat request and for the backend's response it is what the publication, followed by `Reconnect`, `RestartAgent` or `CrashBackend` before the
  ack, does.
- The hazards in `PROJECT.json` whose properties leave a part of the harm open say which in a note: what the code permits is not forbidden here.
- Operations of the backend RPC that read answer success, absence or failure; the data they return is left out, except where a caller branches on it.

## 7. Not modelled, and what is left

Not modelled: the prompts and texts of the agents around the language model (nondeterministic wherever they decide something); reminders, competitors
and the ERP (single-statement tables on which nothing depends); the frontend; configuration, seeds, swagger; the layout of the PDF; password hashing, expiry of tokens
and cookies. `percentStringToBasisPoints` wraps for literals of twenty digits (`service/offer.go:442`), which percentages given in
basis points do not show.

Possible next theorems: theorems of `BackendRpc` of its own, stated once and used by both modules that extend it (what a future, a queued request and a
delivery in hand say of each other is now proved twice, in `FuturesOK`, `TruthOK` and in `WorkingOK`, `PendingOK`); and invariants of
`OfferLifecycle`, from which those of `Offers` that speak of the table alone would follow by refinement.
