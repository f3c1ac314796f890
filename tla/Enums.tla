------------------------------- MODULE Enums -------------------------------
(***************************************************************************)
(* The enumerations of models/enums.py and how a JSON scalar is read as    *)
(* one of them.  An enumeration is a function from the names of its        *)
(* declared members to their codes.  A value without a declared member     *)
(* does not fail: it becomes a pseudo-member that is not known.            *)
(***************************************************************************)
LOCAL INSTANCE Integers
LOCAL INSTANCE TLC

----------------------------------------------------------------------------
(* Enumerations of strings.                                                *)

ApiErrorType ==
  {"VALIDATION_ERROR", "RESOURCE_EXHAUSTED", "USER_BLOCKED", "BAD_REQUEST", "NOT_FOUND",
   "UNAUTHORIZED", "FORBIDDEN", "CONFLICT", "INTERNAL_SERVER_ERROR", "SESSION_NOT_FOUND_ERROR",
   "SESSION_EXPIRED_ERROR", "SESSION_FAILED_ERROR", "USER_NOT_FOUND", "CANDLE_LIMIT_EXCEEDED"}
Side == [BUY |-> "1", SELL |-> "2"]
OrderType == [MARKET |-> "1", LIMIT |-> "2", ALGO_GTD |-> "3", ICEBERG |-> "4", CONDITIONAL |-> "5"]
OrderStatus ==
  [NEW |-> "0", PARTIALLY_FILLED |-> "1", FILLED |-> "2", CANCELLED |-> "4", REPLACED |-> "5",
   PENDING_CANCEL |-> "6", REJECTED |-> "8", PENDING_REPLACE |-> "9", PENDING_NEW |-> "10"]
ExecutionType ==
  [NEW |-> "0", PARTIAL_FILL |-> "1", FILL |-> "2", CANCELLED |-> "4", REPLACED |-> "5",
   PENDING_CANCEL |-> "6", REJECTED |-> "8", SUSPENDED |-> "9", PENDING_NEW |-> "10",
   TRADE |-> "11", ORDER_STATUS |-> "12", CORRECTED |-> "13"]
TimeInForce == [DAY |-> "1", FILL_OR_KILL |-> "2", GOOD_TILL_DATE |-> "3"]
OrderIdType == [CLIENT |-> "1", EXCHANGE |-> "2"]

CodedStrEnums == {Side, OrderType, OrderStatus, ExecutionType, TimeInForce, OrderIdType}

\* Members whose name and code are the same word, or whose code alone matters.
InstrumentType ==
  {"CURRENCY", "STOCK", "FOREIGN_STOCK", "BONDS", "NOTES", "DEPOSITARY_RECEIPTS", "EURO_BONDS",
   "MUTUAL_FUNDS", "ETF", "FUTURES", "OPTIONS", "GOODS", "INDICES"}
PositionType == {"moneyLimit", "depoLimit", "futuresLimit", "futuresHolding", "otcLimit"}
Term == {"T0", "T1", "T2", "T365"}
InstrumentSubType == [CALL_OPTION |-> "AST_OPT_CALL", PUT_OPTION |-> "AST_OPT_PUT"]

\* The debt family, which a position reads to tell a bond from a share.
IsDebt(type) == type \in {"BONDS", "EURO_BONDS", "NOTES"}

----------------------------------------------------------------------------
(* Enumerations of integers.                                               *)

OffsetType == [PRICE_CURRENCY |-> 0, PERCENT |-> 1]
StopExecutionType == [MARKET |-> 1, LIMIT |-> 2]
OrderListStatus == [CANCELLED |-> 1, EXECUTED |-> 2, ACTIVE |-> 3]
OrderListType ==
  [MARKET |-> 1, LIMIT |-> 2, ICEBERG |-> 3, STOP_LIMIT |-> 4, TAKE_PROFIT_LIMIT |-> 5,
   STOP_LOSS |-> 6, TAKE_PROFIT_AND_STOP_LOSS |-> 7, LIMIT_30_DAYS |-> 10, TAKE_PROFIT |-> 11]
SecurityTradingStatus ==
  [UNKNOWN |-> 0, SUSPENDED |-> 2, OPEN |-> 17, CLOSED |-> 18, CLOSING |-> 100,
   OPENING |-> 101, AUCTION |-> 102, CLOSING_AUCTION |-> 103, DISCRETE_AUCTION |-> 104]
DealType ==
  [ORDINARY |-> 1, NEGOTIATED |-> 2, PLACEMENT |-> 3, TRANSFER |-> 4,
   REPO_FIRST_LEG_NEGOTIATED |-> 5, SWAP_SETTLEMENT |-> 6, OTC_SWAP_SETTLEMENT |-> 7,
   BASKET_SETTLEMENT |-> 8, OTC_BASKET_SETTLEMENT |-> 9, CCP_REPO |-> 10,
   CCP_REPO_FIRST_LEG |-> 11, CCP_REPO_SECOND_LEG |-> 12, CCP_REPO_NEGOTIATED |-> 13,
   CCP_REPO_NEGOTIATED_FIRST_LEG |-> 14, CCP_REPO_NEGOTIATED_SECOND_LEG |-> 15,
   CCP_REPO_RETURN |-> 16, CALENDAR_SPREAD |-> 17, CALENDAR_SPREAD_FIRST_LEG |-> 18,
   CALENDAR_SPREAD_SECOND_LEG |-> 19, BASKET_REPO_FIRST_LEG |-> 20,
   BASKET_REPO_SECOND_LEG |-> 21, FUTURES_POSITION_TRANSFER |-> 22]
RiskLevel == [UNSPECIFIED |-> 0, INITIAL |-> 1, STANDARD |-> 2, ELEVATED |-> 3, SPECIAL |-> 4]

CodedIntEnums ==
  {OffsetType, StopExecutionType, OrderListStatus, OrderListType, SecurityTradingStatus,
   DealType, RiskLevel}

----------------------------------------------------------------------------
(* Reading.  A JSON scalar is its type and its text: the number 2 and the  *)
(* string "2" have the same text.  A code that is not a number stands for  *)
(* every other string.                                                     *)

NotANumber == "code"
Scalars(texts) == [json : {"string", "number"}, text : texts \ {NotANumber}]
                    \cup {[json |-> "string", text |-> NotANumber]}

Member(text, known) == [value |-> text, is_known |-> known]
Rejected == [value |-> "", is_known |-> FALSE]

\* A string is looked up and then kept as it is; an integer goes through _missing_, which
\* makes it the string of the same digits and looks again.
ReadStrEnum(enum, scalar) ==
  Member(scalar.text, \E name \in DOMAIN enum : enum[name] = scalar.text)

\* A string of digits is read as the integer; any other string is no member at all.
ReadIntEnum(enum, scalar) ==
  IF scalar.text = NotANumber
  THEN Rejected
  ELSE Member(scalar.text, \E name \in DOMAIN enum : ToString(enum[name]) = scalar.text)

=============================================================================
