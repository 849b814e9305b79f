----------------------------- MODULE RatesClient -----------------------------
(***************************************************************************)
(* The REST API client: paging through the rates while they change, the    *)
(* retries of each request, answers that are lost, the Lambda that stores  *)
(* what was collected, and the POST of a run summary.                      *)
(*                                                                         *)
(* A rate is its place in the provider's list; of its updated_at only      *)
(* whether it is above updated_since matters.                              *)
(***************************************************************************)
EXTENDS Naturals, Sequences, FiniteSets, SequencesExt

CONSTANTS
    MaxRates,       \* bound: rates that the provider may come to list
    MaxPageSize,    \* bound: page_size is 1..MaxPageSize
    MaxAttempts     \* api.max_retries

ASSUME RatesAssumption ==
    MaxRates \in Nat /\ MaxPageSize \in Nat \ {0} /\ MaxAttempts \in Nat \ {0}

VARIABLES
    listed,         \* provider: how many rates it lists
    fresh,          \* provider: those above updated_since
    log,            \* provider: ingest-log entries of the current POST
    setup,          \* configuration and event of this client
    pc,             \* what the client is doing
    page, attempt,  \* locals of get_all_rates() and of the retry wrapper
    collected,      \* local of get_all_rates()
    latest,         \* latest.json, and what was due when it was collected
    due,            \* history: the rates that have qualified all the while
    quiet           \* history: nothing has changed since the start

provider == <<listed, fresh, log>>
client == <<pc, page, attempt, collected, latest>>
history == <<due, quiet>>
vars == <<provider, setup, client, history>>

Rates == 1..MaxRates

TypeOK ==
    /\ listed \in 0..MaxRates
    /\ fresh \subseteq 1..listed
    /\ log \in 0..MaxAttempts
    /\ setup \in [pageSize : 1..MaxPageSize, since : BOOLEAN, authorized : BOOLEAN]
    /\ pc \in {"idle", "get", "write", "post", "posted"}
    /\ page \in 1..(MaxRates + 1)
    /\ attempt \in 0..(MaxAttempts - 1)
    /\ collected \in Seq(Rates)
    /\ latest.data \in Seq(Rates) /\ latest.due \subseteq Rates
    /\ due \subseteq 1..listed
    /\ quiet \in BOOLEAN

Init ==
    /\ listed \in 0..MaxRates
    /\ fresh \in SUBSET (1..listed)
    /\ log = 0
    /\ setup \in [pageSize : 1..MaxPageSize, since : BOOLEAN, authorized : BOOLEAN]
    /\ pc = "idle" /\ page = 1 /\ attempt = 0 /\ collected = <<>>
    /\ latest = [data |-> <<>>, due |-> {}]
    /\ due = {} /\ quiet = TRUE

-----------------------------------------------------------------------------
\* The provider

\* The rates that it has for the client, and their order: a rate's place among them is
\* the number of them up to it.
Matching == {i \in 1..listed : setup.since => i \in fresh}

Place(S, i) == Cardinality({j \in S : j <= i})

Ordered(S) == [k \in 1..Cardinality(S) |-> CHOOSE i \in S : Place(S, i) = k]

Qualifying == Ordered(Matching)

\* (Seeded mistake: a page has one rate too many.)
LongChunk(p) ==
    LET start == (p - 1) * setup.pageSize IN
    SubSeq(Qualifying, start + 1,
           IF start + setup.pageSize < Len(Qualifying)
             THEN start + setup.pageSize + 1 ELSE Len(Qualifying))

Chunk(p) ==
    LET start == (p - 1) * setup.pageSize IN
    SubSeq(Qualifying, start + 1,
           IF start + setup.pageSize < Len(Qualifying)
             THEN start + setup.pageSize ELSE Len(Qualifying))

\* (Seeded mistake: a last page with a single rate is not announced.)
HasNextButOne(p) == p * setup.pageSize + 1 < Len(Qualifying)

HasNext(p) == p * setup.pageSize < Len(Qualifying)

\* A new rate is listed, or an old one gets a new value.
ProviderChanges ==
    /\ \/ listed < MaxRates /\ listed' = listed + 1 /\ fresh' = fresh \cup {listed + 1}
       \/ UNCHANGED listed /\ \E i \in (1..listed) \ fresh : fresh' = fresh \cup {i}
    /\ quiet' = FALSE
    /\ UNCHANGED <<log, setup, client, due>>

-----------------------------------------------------------------------------
\* retry(): only a RetryableError is retried, and at most MaxAttempts times.

Failure(step) ==
    IF attempt + 1 >= MaxAttempts
      THEN pc' = "idle" /\ attempt' = 0
      ELSE pc' = step /\ attempt' = attempt + 1

-----------------------------------------------------------------------------
\* get_all_rates(), and the Lambda around it

StartIngestion ==
    /\ pc = "idle"
    /\ pc' = "get" /\ page' = 1 /\ attempt' = 0 /\ collected' = <<>>
    /\ due' = Range(Qualifying) /\ quiet' = TRUE
    /\ UNCHANGED <<provider, setup, latest>>

PageArrives ==
    /\ pc = "get" /\ setup.authorized
    /\ collected' = collected \o Chunk(page)
    /\ attempt' = 0
    /\ IF HasNext(page)
         THEN page' = page + 1 /\ pc' = "get"
         ELSE UNCHANGED page /\ pc' = "write"
    /\ UNCHANGED <<provider, setup, latest, history>>

\* A 429 or 5xx, a refused connection, or no answer in time.
PageFails ==
    /\ pc = "get"
    /\ Failure("get")
    /\ UNCHANGED <<provider, setup, page, collected, latest, history>>

\* A 401 ends the ingestion.
Unauthorized ==
    /\ pc \in {"get", "post"} /\ ~setup.authorized
    /\ pc' = "idle" /\ attempt' = 0
    /\ UNCHANGED <<provider, setup, page, collected, latest, history>>

\* _write_raw(): an error of S3 is swallowed.
WriteRaw ==
    /\ pc = "write"
    /\ pc' = "idle"
    /\ latest' \in {latest, [data |-> collected, due |-> due]}
    /\ UNCHANGED <<provider, setup, page, attempt, collected, history>>

\* The Lambda is killed, or runs out of its time.
Killed ==
    /\ pc \in {"get", "write"}
    /\ pc' = "idle" /\ attempt' = 0
    /\ UNCHANGED <<provider, setup, page, collected, latest, history>>

-----------------------------------------------------------------------------
\* post_ingest_log()

StartPost ==
    /\ pc = "idle"
    /\ pc' = "post" /\ attempt' = 0 /\ log' = 0
    /\ UNCHANGED <<listed, fresh, setup, page, collected, latest, history>>

PostAnswered ==
    /\ pc = "post" /\ setup.authorized
    /\ log' = log + 1
    /\ pc' = "posted" /\ attempt' = 0
    /\ UNCHANGED <<listed, fresh, setup, page, collected, latest, history>>

\* (Seeded mistake: no answer in time counts as done.)
PostAssumed ==
    /\ pc = "post"
    /\ log' \in IF setup.authorized THEN {log, log + 1} ELSE {log}
    /\ pc' = "posted" /\ attempt' = 0
    /\ UNCHANGED <<listed, fresh, setup, page, collected, latest, history>>

\* As PageFails, except that the entry may have been made when the answer is lost.
PostFails ==
    /\ pc = "post"
    /\ log' \in IF setup.authorized THEN {log, log + 1} ELSE {log}
    /\ Failure("post")
    /\ UNCHANGED <<listed, fresh, setup, page, collected, latest, history>>

PostReturns ==
    /\ pc = "posted" /\ pc' = "idle"
    /\ UNCHANGED <<provider, setup, page, attempt, collected, latest, history>>

\* What goes on by itself, once begun.
ClientStep ==
    \/ PageArrives \/ PageFails \/ Unauthorized \/ WriteRaw
    \/ PostAnswered \/ PostFails \/ PostReturns

Next ==
    \/ ProviderChanges
    \/ StartIngestion \/ StartPost
    \/ ClientStep
    \/ Killed

Spec == Init /\ [][Next]_vars

-----------------------------------------------------------------------------
\* client.py: "follows pagination.has_next until exhausted": what is stored has every
\* rate that qualified from the first page to the last, though rates that come to
\* qualify shift the pages, and pages fail and are asked for again.
NothingMissed ==
    /\ pc = "write" => due \subseteq Range(collected)
    /\ latest.due \subseteq Range(latest.data)

\* test_api_pagination_collects_all: while nothing changes, each rate comes once and in
\* order, whatever was retried.
ExactWhenQuiet == pc = "write" /\ quiet => collected = Qualifying

\* A POST that returns has made its entry; retries may have made more of them, up to
\* one for each attempt.
PostedIsLogged == pc = "posted" => log \in 1..MaxAttempts
==============================================================================
