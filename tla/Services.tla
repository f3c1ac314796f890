------------------------------ MODULE Services ------------------------------
(***************************************************************************)
(* The typed services of api/: one caller makes one call, which walks the  *)
(* pages of a listing that the server may change between two of them, or   *)
(* submits an order that may fail after it took effect.                    *)
(*                                                                         *)
(* A record is [id, ticker, codes, type]: codes are its class codes, that  *)
(* of the primary board first, as the API lists them.                      *)
(***************************************************************************)
EXTENDS Integers, Sequences, FiniteSets, SequencesExt

Wire == INSTANCE Records

CONSTANTS
    Calls,          \* the calls the caller may make, see CallsAssumption
    Listings,       \* the listings the server may start with
    NewRecords,     \* the records the server may add, in their order
    MaxPageSize,    \* MAX_PAGE_SIZE, which is also what the server sends at most
    MaxChanges,     \* bound on the changes of a listing during a call
    MaxAttempts     \* bound on the times an order is submitted

ASSUME BoundsAssumption ==
    MaxPageSize \in Nat \ {0} /\ MaxChanges \in Nat /\ MaxAttempts \in Nat \ {0}

\* No record is listed twice, and what the server adds is not listed before.
ASSUME ListingsAssumption ==
    /\ \A records \in Listings \cup {NewRecords} :
         records \in Seq(ToSet(records)) /\ IsInjective(records)
    /\ \A records \in Listings : ToSet(records) \cap ToSet(NewRecords) = {}

\* A history call is [kind, tickers, newest_first, size]; a by_type call [kind, type, size];
\* a lookup [kind, keys]; an order [kind, quantity, visible], where the optional argument
\* visible is a set of at most one.
ASSUME CallsAssumption ==
    \A c \in Calls :
      /\ c.kind \in {"history", "operations", "by_type", "lookup", "order"}
      /\ c.kind \in {"history", "operations"} => c.newest_first \in BOOLEAN
      /\ c.kind \in {"history", "operations", "by_type"} => c.size \in Int
      /\ c.kind = "lookup" => IsFiniteSet(c.keys)

VARIABLES
    call,           \* the call: its kind and arguments
    status,         \* "running", "done", or the exception that ended it
    page,           \* the next page to fetch
    chunks,         \* lookup: the chunks of tickers not yet fetched, the current one first
    out,            \* the records yielded, or seen by lookup
    found,          \* what lookup returned
    listing,        \* the server's listing
    first,          \* the listing when the call was made
    added,          \* how often the server added a record
    dropped,        \* and dropped one: cancelled, expired, moved out of the filter
    attempts        \* how often the order was submitted

caller == <<call, status, page, chunks, out, found, attempts>>
server == <<listing, first, added, dropped>>
servicesVars == <<caller, server>>

None == "None"

----------------------------------------------------------------------------
(* The instruments: tables of types and the keys of a record.              *)

\* Mutant of ModelByType: notes are taken for shares.
ModelWithoutNotes ==
  [type \in Wire!InstrumentType |->
     CASE type \in {"STOCK", "FOREIGN_STOCK", "DEPOSITARY_RECEIPTS", "ETF", "MUTUAL_FUNDS", "NOTES"} -> "equity"
       [] type \in {"BONDS", "EURO_BONDS"} -> "bond"
       [] type = "FUTURES" -> "future"
       [] type = "OPTIONS" -> "option"
       [] type = "CURRENCY" -> "currency_pair"
       [] type = "INDICES" -> "index"
       [] type = "GOODS" -> "commodity"]

\* What get_by_type checks every record against; an unknown type is not in it.
ModelByType ==
  [type \in Wire!InstrumentType |->
     CASE type \in {"STOCK", "FOREIGN_STOCK", "DEPOSITARY_RECEIPTS", "ETF", "MUTUAL_FUNDS"} -> "equity"
       [] type \in {"BONDS", "EURO_BONDS", "NOTES"} -> "bond"
       [] type = "FUTURES" -> "future"
       [] type = "OPTIONS" -> "option"
       [] type = "CURRENCY" -> "currency_pair"
       [] type = "INDICES" -> "index"
       [] type = "GOODS" -> "commodity"]

\* What the overloads of get_by_type and iter_by_type promise to the type checker.
EquityType == {"STOCK", "FOREIGN_STOCK", "DEPOSITARY_RECEIPTS", "ETF", "MUTUAL_FUNDS"}
BondType == {"BONDS", "EURO_BONDS", "NOTES"}
PromisedClass(type) ==
  IF type \in EquityType THEN {"equity"}
  ELSE IF type \in BondType THEN {"bond"}
  ELSE IF type = "FUTURES" THEN {"future"}
  ELSE IF type = "OPTIONS" THEN {"option"}
  ELSE IF type = "CURRENCY" THEN {"currency_pair"}
  ELSE IF type = "INDICES" THEN {"index"}
  ELSE IF type = "GOODS" THEN {"commodity"}
  ELSE Wire!Instruments

\* The class a record is read as.
RecordClass(record) == Wire!InstrumentTag({[at |-> <<"instrumentType">>, is |-> record.type]})

\* A key is a ticker and a class code; a record has one per board, none without a ticker.
KeysOf(record) ==
  IF record.ticker = None THEN {}
  ELSE {<<record.ticker, code>> : code \in ToSet(record.codes) \ {None}}

----------------------------------------------------------------------------
(* The server.                                                             *)

\* The records that are wanted, in their order.
Among(records, wanted) ==
  LET hits == {i \in DOMAIN records : records[i] \in wanted}
      Hit(n) == CHOOSE i \in hits : Cardinality({j \in hits : j <= i}) = n
  IN [n \in 1 .. Cardinality(hits) |-> records[Hit(n)]]

Wanted(records, tickers) == {r \in ToSet(records) : r.ticker \in tickers}

\* An empty filter is sent as no filter.
Matching(records, tickers) ==
  IF tickers = {} THEN records ELSE Among(records, Wanted(records, tickers))

\* The listing the call is about, in the order it asked for.
View(records) ==
  CASE call.kind \in {"history", "operations"} ->
         LET matching == Matching(records, call.tickers)
         IN IF call.newest_first THEN Reverse(matching) ELSE matching
    [] call.kind = "by_type" -> records
    [] call.kind = "lookup" /\ chunks # << >> ->
         Among(records, Wanted(records, ToSet(Head(chunks))))
    [] OTHER -> << >>

Least(a, b) == IF a < b THEN a ELSE b

\* One page of n records, as many as the server is willing to send.
Page(records, n) ==
  LET size == Least(n, MaxPageSize)
  IN SubSeq(records, page * size + 1, Least((page + 1) * size, Len(records)))

\* Mutant of TotalPages: the last page counts when it is full.
FullPages(records, n) == Len(records) \div n

TotalPages(records, n) == (Len(records) + n - 1) \div n

ServerAdds ==
  /\ status = "running" /\ call.kind # "order"
  /\ added + dropped < MaxChanges
  /\ added < Len(NewRecords)
  /\ listing' = Append(listing, NewRecords[added + 1])
  /\ added' = added + 1
  /\ UNCHANGED <<caller, first, dropped>>

ServerDrops ==
  /\ status = "running" /\ call.kind # "order"
  /\ added + dropped < MaxChanges
  /\ \E i \in 1 .. Len(listing) : listing' = RemoveAt(listing, i)
  /\ dropped' = dropped + 1
  /\ UNCHANGED <<caller, first, added>>

----------------------------------------------------------------------------
(* Pages.                                                                  *)

CheckPage(size) == page >= 0 /\ 1 <= size /\ size <= MaxPageSize

\* Ends the call; what it raised if it did not return.
EndCall(result) ==
  /\ status' = result
  /\ UNCHANGED <<call, page, chunks, out, found, attempts, server>>

RefusePage ==
  /\ status = "running" /\ call.kind \in {"history", "operations", "by_type"}
  /\ ~CheckPage(call.size)
  /\ EndCall("ValueError")

\* iter_pages: stops at the last page, as the reply counts them, or at an empty one.
NextPage ==
  /\ status = "running" /\ call.kind = "history" /\ CheckPage(call.size)
  /\ LET view == View(listing)
         records == Page(view, call.size)
     IN /\ out' = out \o records
        /\ page' = page + 1
        /\ status' = IF records = << >> \/ page + 1 >= TotalPages(view, call.size)
                     THEN "done" ELSE "running"
  /\ UNCHANGED <<call, chunks, found, attempts, server>>

\* iter_until_short: the reply counts nothing, a short page is the last.
NextUntilShort(records) ==
  /\ out' = out \o records
  /\ page' = page + 1
  /\ status' = IF Len(records) < call.size THEN "done" ELSE "running"
  /\ UNCHANGED <<call, chunks, found, attempts, server>>

NextOperations ==
  /\ status = "running" /\ call.kind = "operations" /\ CheckPage(call.size)
  /\ NextUntilShort(Page(View(listing), call.size))

\* get_by_type: a record of another class than the type's is an error.
Misfiled(records) ==
  /\ call.type \in DOMAIN ModelByType
  /\ \E r \in ToSet(records) : RecordClass(r) # ModelByType[call.type]

NextByType ==
  /\ status = "running" /\ call.kind = "by_type" /\ CheckPage(call.size)
  /\ LET records == Page(View(listing), call.size)
     IN IF Misfiled(records) THEN EndCall("ProtocolError") ELSE NextUntilShort(records)

----------------------------------------------------------------------------
(* lookup: the tickers of the keys, in chunks of a page size, every page   *)
(* of each; a key no record lists is taken from the only record of its     *)
(* ticker.                                                                 *)

\* batched(sorted(tickers)): any order of the tickers stands for the sorted one.
Chunks(keys) ==
  LET tickers == SetToSeq({key[1] : key \in keys})
      n == (Len(tickers) + MaxPageSize - 1) \div MaxPageSize
  IN [i \in 1 .. n |-> SubSeq(tickers, (i - 1) * MaxPageSize + 1, Least(i * MaxPageSize, Len(tickers)))]

FirstListing(key, records) ==
  Among(records, {r \in ToSet(records) : key \in KeysOf(r)})

OfTicker(key, records) == Among(records, Wanted(records, {key[1]}))

Resolved(keys, records) ==
  [key \in {k \in keys : FirstListing(k, records) # << >> \/ Len(OfTicker(k, records)) = 1} |->
     IF FirstListing(key, records) # << >>
     THEN Head(FirstListing(key, records))
     ELSE Head(OfTicker(key, records))]

\* Mutant of LookupPage: the page number runs on into the next chunk.
LookupPageRunsOn ==
  /\ status = "running" /\ call.kind = "lookup" /\ chunks # << >>
  /\ LET records == Page(View(listing), MaxPageSize)
         last == Len(records) < MaxPageSize
     IN /\ out' = out \o records
        /\ page' = page + 1
        /\ chunks' = IF last THEN Tail(chunks) ELSE chunks
  /\ UNCHANGED <<call, status, found, attempts, server>>

\* Mutant of LookupPage: an empty page does not end its chunk.
LookupPageStays ==
  /\ status = "running" /\ call.kind = "lookup" /\ chunks # << >>
  /\ LET records == Page(View(listing), MaxPageSize)
         last == Len(records) < MaxPageSize
     IN /\ out' = out \o records
        /\ page' = IF last THEN 0 ELSE page + 1
        /\ chunks' = IF last /\ records # << >> THEN Tail(chunks) ELSE chunks
  /\ UNCHANGED <<call, status, found, attempts, server>>

LookupPage ==
  /\ status = "running" /\ call.kind = "lookup" /\ chunks # << >>
  /\ LET records == Page(View(listing), MaxPageSize)
         last == Len(records) < MaxPageSize
     IN /\ out' = out \o records
        /\ page' = IF last THEN 0 ELSE page + 1
        /\ chunks' = IF last THEN Tail(chunks) ELSE chunks
  /\ UNCHANGED <<call, status, found, attempts, server>>

LookupReturns ==
  /\ status = "running" /\ call.kind = "lookup" /\ chunks = << >>
  /\ found' = Resolved(call.keys, out)
  /\ status' = "done"
  /\ UNCHANGED <<call, page, chunks, out, attempts, server>>

----------------------------------------------------------------------------
(* Orders.  Each call is one request, which fails or tells its result;     *)
(* after a failure the caller may submit again.  That one request places   *)
(* an order at most once is about the transport: see ApiHttp.              *)

\* A body whose quantity, or visible quantity, is not positive is never sent.
ValidOrder == call.quantity >= 1 /\ \A visible \in call.visible : visible >= 1

RefuseOrder ==
  /\ status = "running" /\ call.kind = "order" /\ ~ValidOrder
  /\ EndCall("ValidationError")

\* The call returns the result, or raises and the caller may call again.
Submit ==
  /\ status = "running" /\ call.kind = "order" /\ ValidOrder
  /\ attempts < MaxAttempts
  /\ attempts' = attempts + 1
  /\ status' \in {"running", "done"}
  /\ UNCHANGED <<call, page, chunks, out, found, listing, first, added, dropped>>

GiveUp ==
  /\ status = "running" /\ call.kind = "order" /\ attempts > 0
  /\ EndCall("ApiError")

----------------------------------------------------------------------------

ServicesInit ==
  /\ call \in Calls
  /\ listing \in Listings
  /\ call.kind = "order" => listing = << >>
  /\ first = listing
  /\ status = "running"
  /\ page = 0
  /\ chunks = IF call.kind = "lookup" THEN Chunks(call.keys) ELSE << >>
  /\ out = << >>
  /\ found = << >>
  /\ added = 0 /\ dropped = 0
  /\ attempts = 0

Fetch ==
  \/ RefusePage \/ NextPage \/ NextOperations \/ NextByType
  \/ LookupPage \/ LookupReturns
  \/ RefuseOrder \/ Submit \/ GiveUp

ServicesNext == Fetch \/ ServerAdds \/ ServerDrops

\* The caller goes on taking records until there are none; the server owes nothing.
ServicesSpec == ServicesInit /\ [][ServicesNext]_servicesVars /\ WF_servicesVars(Fetch)

----------------------------------------------------------------------------
(* Properties.                                                             *)

\* The types of what a call remembers.
ServicesTypeOK ==
  /\ call \in Calls /\ first \in Listings
  /\ status \in {"running", "done", "ValueError", "ProtocolError", "ValidationError", "ApiError"}
  /\ page \in Nat /\ attempts \in 0 .. MaxAttempts
  /\ added + dropped \in 0 .. MaxChanges
  /\ ToSet(out) \cup ToSet(listing) \subseteq ToSet(first) \cup ToSet(NewRecords)

Paged == call.kind \in {"history", "operations"}

\* "Every order matching the filter, across all pages": whatever the page size, an
\* iteration that ends has yielded every record there was at its start, unless the server
\* dropped one meanwhile, and it yields none twice: oldest first nothing can shift back to
\* a later page, and newest first only an added record shifts the others.
EachOnce ==
  Paged =>
    /\ status = "done" /\ dropped = 0 => ToSet(Matching(first, call.tickers)) \subseteq ToSet(out)
    /\ ~call.newest_first \/ added = 0 => Cardinality(ToSet(out)) = Len(out)

\* The records of one type come as the class the overload promises, and a listing in
\* which every record has the type asked for is never refused: the table of the service,
\* the overloads and the tags of the union are three copies of one mapping.
TypedAsPromised ==
  call.kind = "by_type" =>
    /\ \A r \in ToSet(out) : RecordClass(r) \in PromisedClass(call.type)
    /\ status = "ProtocolError" =>
         \E r \in ToSet(first) \cup ToSet(NewRecords) : r.type # call.type

\* What lookup found names the right ticker whatever shifted; and on a listing that did not
\* change it is what the whole listing says: the record that lists the key, or the only
\* one of its ticker, over any number of chunks and pages.
LookupResolves ==
  (status = "done" /\ call.kind = "lookup") =>
    /\ \A key \in DOMAIN found : found[key].ticker = key[1]
    /\ added + dropped = 0 => found = Resolved(call.keys, first)

\* Every call comes to an end once the server leaves the listing alone.
CallEnds == <>(status # "running")
=============================================================================
