------------------------------ MODULE VenueCalls ------------------------------
(***************************************************************************)
(* http_util.py, variational_client.py, variational_gateway.py,            *)
(* lighter_client.py and lighter_signer.py: what becomes of one call of    *)
(* the bot on its way to a venue and back.  LiveExecutor and HedgeEngine   *)
(* take a call for one exchange that is answered or raises; here it is     *)
(* the exchanges it consists of, each of which may get any Reply, between  *)
(* which the venues go on (VenueStep, Publish).                            *)
(*                                                                         *)
(* A call is one of Calls, by the method that makes it:                    *)
(*   "positions"  VariationalOrderGateway.signed_position                  *)
(*   "account"    LighterSignerClient.signed_position, account_snapshot    *)
(*   "orders"     LighterSignerClient.open_orders                          *)
(*   "history"    LighterReadOnlyClient.funding_history                    *)
(*   "contract"   LighterReadOnlyClient.public_contract, its mark price    *)
(*   "quote"      VariationalOrderGateway.request_quote                    *)
(*   "rfq"        VariationalOrderGateway.submit_market_order              *)
(*   "ioc"        LighterSignerClient.place_market_order                   *)
(*   "post_only"  LighterSignerClient.place_post_only_limit_order          *)
(*   "cancel"     LighterSignerClient.cancel_all                           *)
(***************************************************************************)
EXTENDS Venues

CONSTANTS Coarse,    \* the Lighter size step a row without decimals means: one coin
          Marks,     \* Lighter's mark prices, 0 for a row without one
          Listings,  \* identities Variational may list the symbol under
          Fallback,  \* the one of the configuration
          MaxQty,    \* bound: quantity an order asks for
          MaxHeld    \* bound: quantity held or on order at the venues

ASSUME CallsAssumption ==
    /\ Coarse \in Nat /\ Coarse >= LotStep
    /\ Marks \subseteq Nat
    /\ Fallback \in Listings
    /\ MaxQty \in Nat
    /\ MaxHeld \in Nat

VARIABLES published,  \* what the venues publish: mark price, size decimals, listing,
                      \* and how many funding settlements
          armed,      \* net_guard's write guard
          row,        \* LighterReadOnlyClient._markets: the symbol's row
          meta,       \* VariationalOrderGateway._meta_cache: the symbol's
          op,         \* the call in progress, or the last one
          at,         \* the exchange it is at, "done" when it has returned
          side, qty,  \* what its order asks for
          end,        \* how it ended, "none" before it does
          said,       \* the value it returned, 0 if none
          bare,       \* it read that value from a row without it
          sent,       \* it has sent a mutating request
          took,       \* quantity a venue took on from it
          seen        \* the values of what it reads since it began

caches == <<row, meta>>
request == <<op, side, qty>>
progress == <<at, end, said, bare>>
vars == <<venueVars, published, armed, caches, request, progress, sent, took, seen>>

Orders == {"rfq", "ioc", "post_only"}
Others == {"positions", "account", "orders", "history", "contract", "quote", "cancel"}
Calls == Orders \cup Others

\* Mutant: the SDK's methods rely on http_util's guard.
GuardedByHttp == {"rfq"}

\* The methods that test the guard first: the SDK has a session of its own,
\* which http_util does not see.
Guarded == Orders \cup {"cancel"}

Published == [mark : Marks, decimals : BOOLEAN, listing : Listings, settled : 0 .. 1]

ProcessTypeOK ==
    /\ published \in Published
    /\ armed \in BOOLEAN
    /\ row \in [known : BOOLEAN, mark : Nat, step : {LotStep, Coarse}]
    /\ meta \in [known : BOOLEAN, listing : Listings]
    /\ op \in Calls
    /\ at \in {"done", "row", "get", "meta", "quote", "order"}
    /\ side \in Kind
    /\ qty \in 0 .. MaxQty
    /\ end \in {"none", "raised", "ack", "value"}
    /\ said \in Nat
    /\ bare \in BOOLEAN
    /\ sent \in BOOLEAN
    /\ took \in Nat

CallsTypeOK == VenueTypeOK /\ ProcessTypeOK /\ seen \subseteq Nat

(***************************************************************************)
(* What comes back over HTTP.  "served": a success with the payload;       *)
(* "bare": a success whose row for the symbol lacks the field that is      *)
(* wanted; "coded": a success with an error code instead; "garbage": a     *)
(* success whose body is not JSON or not of the expected shape; "refused": *)
(* a status of 400 or more; nothing, which curl_cffi raises ("thrown") and *)
(* urllib makes status 0 ("lost").                                         *)
(***************************************************************************)
Reply == {"served", "bare", "coded", "refused", "garbage", "thrown", "lost"}

Served(r) == r = "served"
Success(r) == r \in {"served", "bare", "coded", "garbage"}
Raises(r) == r \in {"coded", "refused", "thrown"}

Resting == rest["open"] + rest["reduce"]
InFlight(v) == flight[v]["open"] + flight[v]["reduce"]
Held == pos["var"] + pos["lit"] + InFlight("var") + InFlight("lit") + Resting

(***************************************************************************)
(* How a call goes on, and how it ends.                                    *)
(***************************************************************************)
At(p) == at = p /\ UNCHANGED <<request, armed, published>>
Goto(p) == at' = p /\ UNCHANGED <<end, said, bare>>
Return(how, v) == at' = "done" /\ end' = how /\ said' = v /\ UNCHANGED bare
Raise == Return("raised", 0)
Answer(v) == Return("value", v)

NothingSent == UNCHANGED <<venueVars, sent, took>>

First(o) == IF o \in {"positions", "account"} THEN "get"
            ELSE IF o \in {"quote", "rfq"} THEN "meta" ELSE "row"

\* The caller makes its next call; a guarded one is over at once if the guard
\* is up.
Call(o, k, n) ==
    /\ at = "done"
    /\ op' = o /\ side' = k /\ qty' = n
    /\ sent' = FALSE /\ took' = 0
    /\ bare' = FALSE
    /\ IF armed /\ o \in Guarded THEN at' = "done" /\ end' = "raised"
                                 ELSE at' = First(o) /\ end' = "none"
    /\ said' = 0
    /\ UNCHANGED <<venueVars, published, armed, caches>>

(***************************************************************************)
(* Metadata.                                                               *)
(***************************************************************************)
\* Mutant: absent decimals make the step zero.
RowOfNothing == [known |-> TRUE, mark |-> published.mark,
                 step |-> IF published.decimals THEN LotStep ELSE 0]

NoRow == [known |-> FALSE, mark |-> 0, step |-> LotStep]
Row == [known |-> TRUE, mark |-> published.mark,
        step |-> IF published.decimals THEN LotStep ELSE Coarse]

WithRow(mark) ==
    IF op = "contract" THEN Answer(mark)
    ELSE IF op \in {"orders", "history"} THEN Goto("get") ELSE Goto("order")

\* _market_row: the rows are loaded the first time the symbol is asked for.
MarketRow ==
    /\ At("row")
    /\ \/ row.known /\ UNCHANGED row /\ WithRow(row.mark)
       \/ ~row.known /\ row' = Row /\ WithRow(Row.mark)
       \/ ~row.known /\ UNCHANGED row /\ Raise
    /\ NothingSent /\ UNCHANGED meta

NoMeta == [known |-> FALSE, listing |-> Fallback]

\* _instrument_meta: the listing, or what the configuration says it is when
\* asset() raises; whichever it is, it is kept.
InstrumentMeta ==
    /\ At("meta")
    /\ \/ meta.known /\ UNCHANGED meta
       \/ /\ ~meta.known
          /\ \E l \in {published.listing, Fallback} : meta' = [known |-> TRUE, listing |-> l]
    /\ Goto("quote")
    /\ NothingSent /\ UNCHANGED row

(***************************************************************************)
(* Reads.                                                                  *)
(***************************************************************************)
\* A reader that finds the row but not its field reads zero (D, "or ZERO").
AnswerFrom(r, v) ==
    /\ at' = "done" /\ end' = "value"
    /\ said' = IF Served(r) THEN v ELSE 0
    /\ bare' = (r = "bare")

\* Mutant: a row of an unknown shape is skipped.
SkipUnknownRows(r) == IF Success(r) THEN AnswerFrom(r, pos["var"]) ELSE Raise

\* _get_authed and _position_info raise on all but a list of known rows.
Positions(r) ==
    IF Success(r) /\ r \in {"served", "bare"} THEN AnswerFrom(r, pos["var"]) ELSE Raise

\* account_snapshot makes None of all but one account, and its readers make a
\* flat position of None; a body it cannot even ask for accounts raises.
Account(r) == AnswerFrom(r, pos["lit"]) \/ (r = "garbage" /\ Raise)

\* account_active_orders raises on an error status or code; a body without
\* orders is no orders.  A bare order is one still.  The token before it may
\* fail.
ActiveOrders(r) ==
    \/ Raise
    \/ IF Raises(r) THEN Raise
       ELSE Answer(IF r \in {"served", "bare"} THEN Resting ELSE 0)

\* So does funding_history, which skips the rows without a timestamp.
FundingHistory(r) ==
    \/ Raise
    \/ IF Raises(r) THEN Raise ELSE AnswerFrom(r, published.settled)

Get ==
    /\ At("get")
    /\ \E r \in Reply :
         \/ op = "positions" /\ Positions(r)
         \/ op = "account" /\ Account(r)
         \/ op = "orders" /\ ActiveOrders(r)
         \/ op = "history" /\ FundingHistory(r)
    /\ NothingSent /\ UNCHANGED caches

(***************************************************************************)
(* Orders.                                                                 *)
(***************************************************************************)
\* _post: request_json asks the guard again, and any status but a success
\* raises.  A quote is served for the listed instrument only; it has to have
\* a price and an id.
RequestQuote ==
    /\ At("quote")
    /\ IF armed THEN sent' = FALSE /\ Raise
       ELSE /\ sent' = TRUE
            /\ \/ Raise
               \/ /\ meta.listing = published.listing
                  /\ IF op = "quote" THEN Answer(published.mark) ELSE Goto("order")
    /\ UNCHANGED <<venueVars, caches, took>>

Sends == sent' = TRUE /\ UNCHANGED caches
Taken(n) == took' = took + n
NotTaken == UNCHANGED <<venueVars, took>>

\* submit_market_order against the quote: acknowledged only with an id.  Any
\* other reply may be that of an order the venue took on.
SubmitRfq ==
    /\ At("order") /\ op = "rfq"
    /\ \E r \in Reply :
         /\ \/ Accept("var", side, qty) /\ Taken(qty)
            \/ ~Served(r) /\ NotTaken
         /\ IF Success(r) /\ Served(r) THEN Return("ack", 0) ELSE Raise
    /\ Sends

\* Mutant: rounded up, as to_int_scaled does in the other direction.
RoundUp == (qty + row.step - 1) \div row.step

\* scaled_amounts: whole steps of the row.
BaseAmount == qty \div row.step

\* What Lighter takes that for.
Scaled == BaseAmount * LotStep

\* A quantity of no step, or a post-only order this SDK cannot place: it
\* raises before the SDK is called.
Unplaceable ==
    /\ At("order")
    /\ op = "post_only" \/ (op = "ioc" /\ BaseAmount = 0)
    /\ Raise
    /\ NothingSent /\ UNCHANGED caches

\* The SDK's reply is an order or an error, or it raises.
SdkReplies(acted, idle) ==
    \/ acted /\ (Return("ack", 0) \/ Raise)
    \/ idle /\ Raise

PlaceIoc ==
    /\ At("order") /\ op = "ioc" /\ BaseAmount > 0
    /\ SdkReplies(Accept("lit", side, Scaled) /\ Taken(Scaled), NotTaken)
    /\ Sends

PlacePostOnly ==
    /\ At("order") /\ op = "post_only" /\ BaseAmount > 0
    /\ SdkReplies(/\ rest' = [rest EXCEPT ![side] = @ + Scaled]
                  /\ UNCHANGED <<pos, flight>>
                  /\ Taken(Scaled), NotTaken)
    /\ Sends

\* cancel_all; that it was acknowledged does not say that it was done.
PullAll ==
    /\ At("order") /\ op = "cancel"
    /\ CancelAll
    /\ Return("ack", 0) \/ Raise
    /\ Sends /\ UNCHANGED took

(***************************************************************************)
(* Around the calls.                                                       *)
(***************************************************************************)
NotCalling == UNCHANGED <<caches, request, progress, sent, took>>

\* The engine arms and disarms between two calls.
Guard ==
    /\ at = "done"
    /\ armed' = ~armed
    /\ UNCHANGED <<venueVars, published>> /\ NotCalling

VenueActs == VenueStep /\ UNCHANGED <<published, armed>> /\ NotCalling

\* Prices move and settlements come and go; how the market is listed stays.
Publish ==
    /\ published' \in {p \in Published : /\ p.listing = published.listing
                                        /\ p.decimals = published.decimals}
    /\ UNCHANGED <<venueVars, armed>> /\ NotCalling

\* A new process: the caches are empty, the guard is up.
Restart ==
    /\ armed' = TRUE
    /\ row' = NoRow
    /\ meta' = NoMeta
    /\ Raise
    /\ UNCHANGED <<venueVars, published, request, sent, took>>

Init ==
    /\ VenueInit
    /\ published \in Published
    /\ armed = TRUE
    /\ row = NoRow
    /\ meta = NoMeta
    /\ op = "account"
    /\ at = "done"
    /\ side = "open"
    /\ qty = 0
    /\ end = "none"
    /\ said = 0
    /\ bare = FALSE
    /\ sent = FALSE
    /\ took = 0
    /\ seen = {}

Ask(o) == Call(o, "open", 0)
Order(o, k, n) == Held + n <= MaxHeld /\ Call(o, k, n)

Step ==
    \/ \E o \in Others : Ask(o)
    \/ \E o \in Orders, k \in Kind, n \in 1 .. MaxQty : Order(o, k, n)
    \/ MarketRow \/ InstrumentMeta \/ Get \/ RequestQuote
    \/ SubmitRfq \/ Unplaceable \/ PlaceIoc \/ PlacePostOnly \/ PullAll
    \/ Guard \/ VenueActs \/ Publish \/ Restart

\* What a call reads, and the history of it while the call runs.
Subject(o) ==
    CASE o = "positions" -> pos["var"]
      [] o = "account" -> pos["lit"]
      [] o = "orders" -> Resting
      [] o = "history" -> published.settled
      [] o = "contract" -> published.mark
      [] OTHER -> 0

Witness ==
    seen' = IF at' = "done" /\ end' # "value" THEN {}
            ELSE IF at # "done" THEN seen \cup {Subject(op)'}
            ELSE IF at' # "done" THEN {Subject(op)'} ELSE seen

Next == Step /\ Witness

Spec == Init /\ [][Next]_vars

-----------------------------------------------------------------------------
\* A Variational position read raises or returns a position that was held
\* while the call ran: no reply becomes another one, but for a row without its
\* quantity (_position_info: "silently reading an unrecognized structure as no
\* position is a dangerous fail-open").  What Lighter says of its position and
\* of its orders was so too, or it is nothing.  This is what Venues!Reads and
\* ShowsNoOrders, with their fault "blind", take for granted.
ReadsAsVenuesSay ==
    /\ end = "value" /\ op = "positions" /\ ~bare => said \in seen
    /\ end = "value" /\ op \in {"account", "orders"} => said \in seen \cup {0}

\* No call has a venue take on more than it was asked for, whatever the scale
\* of the market row and whichever of its exchanges failed, and an
\* acknowledged order is one that a venue took on (scaled_amounts, _post).
OrdersWithinAsked ==
    /\ took <= qty
    /\ end = "ack" /\ op \in Orders => took > 0

\* Nothing that changes a venue leaves the process while the guard is up, by
\* http_util or by the SDK's own session (net_guard.check, is_armed).
ArmedSendsNothing == [][sent' /\ ~sent => ~armed]_vars
=============================================================================
