------------------------------ MODULE Decoding ------------------------------
(***************************************************************************)
(* One value is read by a model, dumped by it and read again.  A value is  *)
(* a record of the API, a date, a coded field or a whole portfolio.        *)
(***************************************************************************)
EXTENDS Records

CONSTANTS
    Sent,       \* the values the API sends: [kind, value], see Read
    Lines       \* the portfolios: sequences of [term, class]

VARIABLES
    kind,       \* "instrument", "position", or the one class of a record; "moex_date",
                \* "calendar_date", "str_enum", "int_enum", "portfolio"
    sent,       \* what the API sent
    read,       \* what the model made of it
    again,      \* what it made of its own dump
    stage       \* 0 sent, 1 read, 2 dumped and read again

vars == <<kind, sent, read, again, stage>>

\* The wire keys moved into a nested object of the class.
Table(class, target) ==
  CASE target = "board" ->
         (CASE class \in Positions -> POSITION_BOARD [] class \in Limits -> LIMIT_BOARD
            [] class \in Margins -> [board |-> "class_code"])
    [] target # "board" ->
         [listing |-> LISTING, trading |-> TRADING, eligibility |-> ELIGIBILITY,
          priceChange |-> PRICE_CHANGE, issuer |-> ISSUER, analytics |-> ANALYTICS,
          underlying |-> [baseAssetSecuritySecCode |-> "ticker",
                          baseAssetSecurityClassCode |-> "class_code"],
          balanceValue |-> BALANCE_VALUE, currentValue |-> CURRENT_VALUE,
          dailyPL |-> DAILY_PL, unrealizedPL |-> UNREALIZED_PL][target]

\* The wire keys a class reads: its flat ones, and those moved into its nested objects.
\* Whether an option is a call or a put is derived, not sent.
OwnKeys(class) ==
  (DOMAIN Classes[class].flat \ {"optionType"})
    \cup UNION {DOMAIN Table(class, target) : target \in DOMAIN Classes[class].nested}

\* The classes of the same union or module, and what the API sends them between them.
Family(class) == CHOOSE f \in {Instruments, Positions, Limits, Margins} : class \in f
FamilyKeys(class) == UNION {OwnKeys(c) : c \in Family(class)}

Wanted(class) ==
  IF class \in {"unknown", "unknown_position"} THEN FamilyKeys(class) ELSE OwnKeys(class)

Read(what, value) ==
  CASE what = "instrument" ->
         LET class == InstrumentTag(value)
         IN [class |-> class, object |-> Validate(class, value)]
    [] what = "position" ->
         LET class == PositionTag(value)
         IN [class |-> class, object |-> Validate(class, value)]
    [] what \in Limits \cup Margins -> [class |-> what, object |-> Validate(what, value)]
    [] what = "moex_date" -> OptionalMoexDate(value)
    [] what = "calendar_date" -> OptionalCalendarDate(value)
    [] what = "str_enum" -> ReadStrEnum(value.enum, value.scalar)
    [] what = "int_enum" -> ReadIntEnum(value.enum, value.scalar)
    [] what = "portfolio" -> [by_term |-> ByTerm(value), terms |-> Terms(value)]

\* What the model dumps: to JSON (a date becomes text again) or as Python objects.
Dumped(what, value, result, by_alias, json) ==
  CASE what \in {"instrument", "position"} \cup Limits \cup Margins ->
         Dump(result.class, result.object, by_alias)
    [] what \in {"moex_date", "calendar_date"} ->
         IF result.form = "none" THEN [form |-> "empty", at |-> 0]
         ELSE [result EXCEPT !.form = IF json THEN "date" ELSE "object"]
    [] what = "str_enum" ->
         [value EXCEPT !.scalar = [json |-> "string", text |-> result.value]]
    [] what = "int_enum" ->
         IF result = Rejected THEN value
         ELSE [value EXCEPT !.scalar = [json |-> "number", text |-> result.value]]
    [] what = "portfolio" -> value

Init ==
  /\ \/ \E s \in Sent : kind = s.kind /\ sent = s.value
     \/ kind = "portfolio" /\ sent \in Lines
  /\ read = None
  /\ again = None
  /\ stage = 0

ReadSent ==
  /\ stage = 0
  /\ read' = Read(kind, sent)
  /\ stage' = 1
  /\ UNCHANGED <<kind, sent, again>>

ReadDumped ==
  /\ stage = 1
  /\ \E by_alias, json \in BOOLEAN :
       again' = Read(kind, Dumped(kind, sent, read, by_alias, json))
  /\ stage' = 2
  /\ UNCHANGED <<kind, sent, read>>

Next == ReadSent \/ ReadDumped

Spec == Init /\ [][Next]_vars

----------------------------------------------------------------------------
(* Properties.                                                             *)

\* Validating what a model dumped, under its aliases or its field names, as JSON or as
\* Python objects, gives the same object of the same class: grouping flat keys leaves an
\* already grouped object alone, and a date or a code reads back as itself.
RoundTrip == stage = 2 => again = read

IsRecord == kind \in {"instrument", "position"} \cup Limits \cup Margins

\* The two cases in which a record loses a key of its own: an exchange without a board, and
\* half of the key of an underlying.
Dropped(e) ==
  \/ /\ e.at = <<"exchange">>
     /\ kind = "position" /\ "board" \in DOMAIN Classes[read.class].nested /\ ~Has(sent, "board")
  \/ /\ e.at[1] \in {"baseAssetSecuritySecCode", "baseAssetSecurityClassCode"}
     /\ ~Has(sent, "baseAssetSecuritySecCode") \/ ~Has(sent, "baseAssetSecurityClassCode")

\* A record keeps the keys its class reads, drops the others and mixes none up.  The API
\* sends every record with keys of the other classes and keys nobody declares.  Those the
\* class reads end in the object, each in a field of its own: a validator that runs before
\* another neither eats nor redirects the other's keys, and no table names a field its
\* nested object lacks.  The others end nowhere (test_positions.py:136).  The class for an
\* unknown type promises "every field the API sends": it reads what any class of its family
\* reads.  A key declared by no class of the family is ignored, in the unknown class too.
\* In a portfolio every line that has a term is under that term, in the order received.
KnownKept ==
  /\ (stage = 1 /\ IsRecord) =>
       /\ \A e \in sent :
            (\E o \in read.object : o.is = e.is) <=> (e.at[1] \in Wanted(read.class) /\ ~Dropped(e))
       /\ \A o1, o2 \in read.object : o1.at = o2.at => o1 = o2
  /\ (stage = 1 /\ kind = "portfolio") =>
       /\ DOMAIN read.by_term = ToSet(read.terms)
       /\ \A term \in DOMAIN read.by_term : read.by_term[term] = Select(sent, Positions, term)
       /\ FoldLeft(LAMBDA n, term : n + Len(read.by_term[term]), 0, read.terms)
            = Len(SelectSeq(sent, LAMBDA line : line.term # None))

\* A date sent as midnight Moscow time is the day it names in Moscow, whatever zone the
\* timestamp was written in; one sent as midnight UTC is the day in UTC; a plain date is
\* itself; and the epoch, which stands for no date, is none.
SameDay ==
  /\ (stage > 0 /\ kind = "moex_date" /\ sent.form = "stamp" /\ (sent.at + 3) % 24 = 0) =>
       IF sent.at = -3 THEN read.form = "none" ELSE 24 * read.at = sent.at + 3
  /\ (stage > 0 /\ kind = "calendar_date" /\ sent.form = "stamp" /\ sent.at % 24 = 0) =>
       IF sent.at = 0 THEN read.form = "none" ELSE 24 * read.at = sent.at
  /\ (stage > 0 /\ kind \in {"moex_date", "calendar_date"} /\ sent.form = "date") =>
       IF sent.at = 0 THEN read.form = "none" ELSE read.at = sent.at
=============================================================================
