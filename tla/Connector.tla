----------------------------- MODULE Connector ------------------------------
(***************************************************************************)
(* The SigNoz connector (src/apps/ai-engine/connectors/): LogFetcher.search*)
(* follows the server's pages until it has `limit` rows, and each page is  *)
(* one SigNozClient._request, which retries a transport error and a        *)
(* retryable status with a growing pause.                                  *)
(*                                                                         *)
(* One search is followed.  The server is outside: it may lose a request   *)
(* or its answer, answer with an error, with something that is not JSON,   *)
(* or with the page asked for.  A row is its position on the server; a row *)
(* without a readable timestamp is skipped.                                *)
(***************************************************************************)
EXTENDS Integers, Sequences, FiniteSets, SequencesExt

CONSTANTS
  Page,      \* Page[p]: what page p holds, a sequence of TRUE (readable) and FALSE
  MaxLimit   \* the largest limit a caller asks for

RetryAttempts == 3
ASSUME ConnectorAssumption ==
  MaxLimit \in Nat \ {0} /\ Page \in Seq(Seq(BOOLEAN)) /\ Page # <<>>

VARIABLES
  wanted,    \* limit
  page,      \* the page the next request asks for (the next_page token)
  attempt,   \* of the current request; 0: between two requests
  got,       \* collected: the rows, as <<page, position>>
  outcome,   \* running, returned, or raised with a status
  sent       \* how often each page was asked for (ghost)

connectorVars == <<wanted, page, attempt, got, outcome, sent>>

ConnectorInit ==
  /\ wanted \in 1..MaxLimit /\ page = 1 /\ attempt = 0 /\ got = <<>>
  /\ outcome = "running" /\ sent = [p \in 1..Len(Page) |-> 0]

(* The readable rows of a page, in its order.                              *)
Readable(p) == {k \in 1..Len(Page[p]) : Page[p][k]}
Listings(p) ==
  {at \in [1..Cardinality(Readable(p)) -> Readable(p)] :
     /\ \A i, j \in DOMAIN at : i < j => at[i] < at[j]
     /\ \A k \in Readable(p) : \E i \in DOMAIN at : at[i] = k}
Rows(p, at) == [k \in DOMAIN at |-> <<p, at[k]>>]

(* The first rows of a collection, as many as are wanted.                  *)
FirstOf(all) == SubSeq(all, 1, IF Len(all) < wanted THEN Len(all) ELSE wanted)

(* while len(collected) < limit: ask for a page. *)
Request ==
  /\ outcome = "running" /\ attempt = 0 /\ Len(got) < wanted
  /\ attempt' = 1 /\ sent' = [sent EXCEPT ![page] = @ + 1]
  /\ UNCHANGED <<wanted, page, got, outcome>>

(* Variant: one attempt too many. *)
ExtraTransient(status) ==
  /\ outcome = "running" /\ attempt > 0
  /\ IF attempt <= RetryAttempts
     THEN /\ attempt' = attempt + 1 /\ sent' = [sent EXCEPT ![page] = @ + 1]
          /\ UNCHANGED outcome
     ELSE outcome' = status /\ UNCHANGED <<attempt, sent>>
  /\ UNCHANGED <<wanted, page, got>>

(* A timeout, a transport error or one of 429, 500, 502, 503, 504: once    *)
(* more after a pause, or the last one is raised.                          *)
Transient(status) ==
  /\ outcome = "running" /\ attempt > 0
  /\ IF attempt < RetryAttempts
     THEN /\ attempt' = attempt + 1 /\ sent' = [sent EXCEPT ![page] = @ + 1]
          /\ UNCHANGED outcome
     ELSE outcome' = status /\ UNCHANGED <<attempt, sent>>
  /\ UNCHANGED <<wanted, page, got>>

(* Any other error status, or a body that is not JSON, is raised at once. *)
Permanent ==
  /\ outcome = "running" /\ attempt > 0
  /\ outcome' = "error"
  /\ UNCHANGED <<wanted, page, attempt, got, sent>>

(* Variant: the whole page is taken. *)
WholeArrive ==
  /\ outcome = "running" /\ attempt > 0
  /\ attempt' = 0 /\ \E at \in Listings(page) : got' = got \o Rows(page, at)
  /\ IF Page[page] = <<>> \/ page = Len(Page) \/ Len(got') >= wanted
     THEN outcome' = "returned" /\ UNCHANGED page
     ELSE page' = page + 1 /\ UNCHANGED outcome
  /\ UNCHANGED <<wanted, sent>>

(* Variant: a page without readable rows is taken for the last one. *)
EarlyArrive ==
  /\ outcome = "running" /\ attempt > 0
  /\ attempt' = 0
  /\ \E at \in Listings(page) : got' = FirstOf(got \o Rows(page, at))
  /\ IF Readable(page) = {} \/ page = Len(Page) \/ Len(got') >= wanted
     THEN outcome' = "returned" /\ UNCHANGED page
     ELSE page' = page + 1 /\ UNCHANGED outcome
  /\ UNCHANGED <<wanted, sent>>

(* Variant: a full collection does not end the search. *)
FullArrive ==
  /\ outcome = "running" /\ attempt > 0
  /\ attempt' = 0
  /\ \E at \in Listings(page) : got' = FirstOf(got \o Rows(page, at))
  /\ IF Page[page] = <<>> \/ page = Len(Page)
     THEN outcome' = "returned" /\ UNCHANGED page
     ELSE page' = page + 1 /\ UNCHANGED outcome
  /\ UNCHANGED <<wanted, sent>>

(* The page arrives.  An empty one ends the search, a full collection too; *)
(* otherwise the token of the next page is followed.                       *)
Arrive ==
  /\ outcome = "running" /\ attempt > 0
  /\ attempt' = 0
  /\ \E at \in Listings(page) : got' = FirstOf(got \o Rows(page, at))
  /\ IF Page[page] = <<>> \/ page = Len(Page) \/ Len(got') >= wanted
     THEN outcome' = "returned" /\ UNCHANGED page
     ELSE page' = page + 1 /\ UNCHANGED outcome
  /\ UNCHANGED <<wanted, sent>>

ConnectorNext ==
  \/ Request
  \/ \E status \in {"transport", "status"} : Transient(status)
  \/ Permanent
  \/ Arrive

ConnectorFair == WF_connectorVars(ConnectorNext)
ConnectorSpec == ConnectorInit /\ [][ConnectorNext]_connectorVars /\ ConnectorFair
-----------------------------------------------------------------------------
ConnectorTypeOK ==
  /\ wanted \in 1..MaxLimit /\ page \in 1..Len(Page) /\ attempt \in Nat
  /\ got \in Seq((1..Len(Page)) \X Nat) /\ Len(got) <= wanted
  /\ sent \in [1..Len(Page) -> Nat]
  /\ outcome \in {"running", "returned", "transport", "status", "error"}

(* The readable rows of all of the server's pages, and their order.        *)
Served ==
  {r \in (1..Len(Page)) \X UNION {Readable(p) : p \in 1..Len(Page)} :
     r[2] \in Readable(r[1])}
Precedes(r, q) == r[1] < q[1] \/ (r[1] = q[1] /\ r[2] < q[2])

(* What a search returns is exactly the first `limit` readable rows in     *)
(* their order, each once, however many of its requests were retried; it   *)
(* returns fewer only when there are no more, or none before a page that   *)
(* came empty, which ends the search (log_fetcher.py:71-72).               *)
RowsOnce ==
  /\ \A j \in 1..Len(got) : got[j] \in Served
  /\ \A j, k \in 1..Len(got) : j < k => Precedes(got[j], got[k])
  /\ \A j \in 1..Len(got), r \in Served :
       Precedes(r, got[j]) => \E i \in 1..Len(got) : got[i] = r
  /\ outcome = "returned" /\ Len(got) < wanted =>
       \A r \in Served : (\E i \in 1..Len(got) : got[i] = r) \/ (Page[page] = <<>> /\ r[1] > page)

(* Not so: log_fetcher.py:46-48 follows the tokens until the limit is      *)
(* reached or the server sends none; an empty page that carries a token    *)
(* ends the search before the rows of the pages after it.                  *)
FewerOnlyAtEnd ==
  outcome = "returned" =>
    Len(got) = wanted \/ \A r \in Served : \E i \in 1..Len(got) : got[i] = r

(* A page is asked for at most RetryAttempts times, none beyond the last   *)
(* one needed, and pages are asked for in their order.                     *)
AskedInOrder ==
  /\ \A p \in 1..Len(Page) : sent[p] <= RetryAttempts /\ (sent[p] > 0 => p <= page)
  /\ outcome \in {"transport", "status"} => sent[page] = RetryAttempts

(* On a server whose pages come to an end a search that has begun ends too.*)
SearchEnds == attempt > 0 ~> outcome # "running"

(* A search over a server that loses, repeats and fails gives each row     *)
(* once, in the order of the pages, and comes to an end.                   *)
SearchSound == [](ConnectorTypeOK /\ RowsOnce /\ AskedInOrder) /\ SearchEnds

=============================================================================
