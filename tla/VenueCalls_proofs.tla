--------------------------- MODULE VenueCalls_proofs ---------------------------
(***************************************************************************)
(* What TLAPS proves of a call on its way to a venue and back, for every   *)
(* step size, price, listing and quantity, whatever is replied.            *)
(***************************************************************************)
EXTENDS VenueCalls, Venues_proofs

\* The exchanges a call goes through, by its method.
Control ==
    /\ at = "get" => op \in {"positions", "account", "orders", "history"}
    /\ at = "row" => op \in {"orders", "history", "contract", "ioc", "post_only", "cancel"}
    /\ at \in {"meta", "quote"} => op \in {"quote", "rfq"}
    /\ at = "order" => op \in Guarded
    /\ at # "done" => end = "none"

\* The guard was down when a guarded call passed it, and stays so.
Behind == at # "done" /\ op \in Guarded => ~armed

\* An order asks for something, and no venue has taken it on before it is sent.
Untaken == (at # "done" => took = 0) /\ (op \in Orders => qty > 0)

CallInv == ProcessTypeOK /\ Control /\ Behind /\ Untaken /\ OrdersWithinAsked

\* What a running call reads is in its history.
Watched == at # "done" => Subject(op) \in seen

SeenInv == seen \subseteq Nat /\ Watched /\ ReadsAsVenuesSay

-----------------------------------------------------------------------------
\* Whole steps of a row, taken for steps of the venue: no more than was asked
\* for, as long as the row's step is not the smaller one (scaled_amounts).
LEMMA ScaledDown ==
    ASSUME NEW q \in Nat, NEW s \in Nat, s >= LotStep
    PROVE  /\ q \div s \in Nat
           /\ (q \div s) * LotStep \in Nat
           /\ (q \div s) * LotStep <= q
           /\ q \div s > 0 => (q \div s) * LotStep > 0
<1>0. LotStep \in Nat /\ LotStep > 0 /\ s > 0
  BY VenueAssumption, SMT DEF VenueAssumption
<1>1. PICK d \in Nat : d = q \div s /\ d * s <= q
  BY <1>0, SMT
<1>2. d * LotStep \in Nat /\ d * LotStep <= d * s /\ (d > 0 => d * LotStep > 0)
  BY <1>0, SMT
<1>3. d * s \in Nat
  BY <1>0, SMT
<1> QED
  BY <1>1, <1>2, <1>3, SMT

\* The fields of what is published and of a row.
LEMMA FieldsTyped ==
    ASSUME ProcessTypeOK
    PROVE  /\ published.mark \in Nat /\ published.settled \in Nat
           /\ published.listing \in Listings /\ Fallback \in Listings
           /\ row.mark \in Nat /\ row.step \in Nat /\ row.step >= LotStep
           /\ qty \in Nat
<1>1. /\ published \in [mark : Marks, decimals : BOOLEAN, listing : Listings, settled : 0 .. 1]
      /\ row \in [known : BOOLEAN, mark : Nat, step : {LotStep, Coarse}]
      /\ qty \in 0 .. MaxQty
  BY Zenon DEF ProcessTypeOK, Published
<1>2. /\ Coarse \in Nat /\ Coarse >= LotStep /\ Marks \subseteq Nat
      /\ Fallback \in Listings /\ LotStep \in Nat
  BY CallsAssumption, VenueAssumption, Zenon DEF CallsAssumption, VenueAssumption
<1>3. published.mark \in Marks /\ published.settled \in 0 .. 1 /\ published.listing \in Listings
  BY <1>1, SMT
<1>4. row.mark \in Nat /\ row.step \in {LotStep, Coarse}
  BY <1>1, SMT
<1>5. published.mark \in Nat
  BY <1>2, <1>3, Zenon
<1>6. published.settled \in Nat
  BY <1>3, SMT
<1>7. row.step \in Nat /\ row.step >= LotStep
  BY <1>2, <1>4, SMT
<1>8. qty \in Nat
  BY <1>1, SMT
<1> QED
  BY <1>2, <1>3, <1>4, <1>5, <1>6, <1>7, <1>8, Zenon

LEMMA ScaledTyped ==
    ASSUME ProcessTypeOK
    PROVE  /\ BaseAmount \in Nat
           /\ Scaled \in Nat /\ Scaled <= qty
           /\ BaseAmount > 0 => Scaled > 0
<1>1. qty \in Nat /\ row.step \in Nat /\ row.step >= LotStep
  BY FieldsTyped
<1> QED
  BY <1>1, ScaledDown, Zenon DEF Scaled, BaseAmount

\* What a call reads is a number.
LEMMA SubjectTyped == VenueTypeOK /\ ProcessTypeOK => Subject(op) \in Nat
<1> SUFFICES ASSUME VenueTypeOK, ProcessTypeOK PROVE Subject(op) \in Nat
  OBVIOUS
<1>1. pos["var"] \in Nat /\ pos["lit"] \in Nat /\ Resting \in Nat
  BY SMT DEF VenueTypeOK, Venue, Kind, Resting
<1>2. published.mark \in Nat /\ published.settled \in Nat
  BY FieldsTyped
<1> QED
  BY <1>1, <1>2, SMT DEF Subject

\* Rows and listings, loaded or not.
LEMMA CachesTyped ==
    ASSUME ProcessTypeOK
    PROVE  /\ {Row, NoRow} \subseteq [known : BOOLEAN, mark : Nat, step : {LotStep, Coarse}]
           /\ NoMeta \in [known : BOOLEAN, listing : Listings]
           /\ \A l \in {published.listing, Fallback} :
                  [known |-> TRUE, listing |-> l] \in [known : BOOLEAN, listing : Listings]
<1>1. published.mark \in Nat /\ published.listing \in Listings /\ Fallback \in Listings
  BY FieldsTyped
<1>2. NoMeta \in [known : BOOLEAN, listing : Listings]
  BY <1>1, SMT DEF NoMeta
<1>3. ASSUME NEW l \in {published.listing, Fallback}
      PROVE  [known |-> TRUE, listing |-> l] \in [known : BOOLEAN, listing : Listings]
  <2>1. l \in Listings
    BY <1>1, Zenon
  <2> QED
    BY <2>1, SMT
<1>4. NoRow \in [known : BOOLEAN, mark : Nat, step : {LotStep, Coarse}]
  BY SMT DEF NoRow
<1>5. Row \in [known : BOOLEAN, mark : Nat, step : {LotStep, Coarse}]
  <2>1. PICK s \in {LotStep, Coarse} : s = IF published.decimals THEN LotStep ELSE Coarse
    BY Zenon
  <2>2. Row = [known |-> TRUE, mark |-> published.mark, step |-> s]
    BY <2>1, Zenon DEF Row
  <2> QED
    BY <1>1, <2>2, SMT
<1> QED
  BY <1>2, <1>3, <1>4, <1>5, Zenon

-----------------------------------------------------------------------------
\* One exchange of a call: what is left to show of it.
LEMMA OnTheWay ==
    ASSUME CallInv, NEW p, At(p), p # "done", Control',
           row' \in [known : BOOLEAN, mark : Nat, step : {LotStep, Coarse}],
           meta' \in [known : BOOLEAN, listing : Listings],
           at' \in {"done", "get", "quote", "order"},
           end' \in {"none", "raised", "ack", "value"}, said' \in Nat,
           bare' \in BOOLEAN, sent' \in BOOLEAN,
           took' \in Nat, at' # "done" => took' = 0, took' <= qty,
           end' = "ack" /\ op \in Orders => took' > 0
    PROVE  CallInv'
<1>1. UNCHANGED <<op, side, qty, armed, published>> /\ at = p
  BY Zenon DEF At, request
<1>2. ProcessTypeOK'
  BY <1>1, SMT DEF CallInv, ProcessTypeOK, Published
<1>3. Behind'
  BY <1>1, Zenon DEF CallInv, Behind
<1>4. Untaken' /\ OrdersWithinAsked'
  BY <1>1, Zenon DEF CallInv, Untaken, OrdersWithinAsked
<1> QED
  BY <1>2, <1>3, <1>4, Zenon DEF CallInv

\* A call begins, or is refused.
LEMMA CallKeeps ==
    ASSUME CallInv, NEW o \in Calls, NEW k \in Kind, NEW n \in 0 .. MaxQty,
           o \in Orders => n > 0, Call(o, k, n)
    PROVE  CallInv'
<1>1. /\ op' = o /\ side' = k /\ qty' = n /\ sent' = FALSE /\ took' = 0 /\ bare' = FALSE
      /\ said' = 0 /\ UNCHANGED <<published, armed, row, meta>>
  BY Zenon DEF Call, caches
<1>2. \/ at' = "done" /\ end' = "raised"
      \/ at' = First(o) /\ end' = "none" /\ ~(armed /\ o \in Guarded)
  BY Zenon DEF Call
<1>3. /\ First(o) \in {"get", "meta", "row"}
      /\ First(o) = "get" => o \in {"positions", "account"}
      /\ First(o) = "meta" => o \in {"quote", "rfq"}
      /\ First(o) = "row" => o \in {"orders", "history", "contract", "ioc", "post_only", "cancel"}
  BY SMT DEF First, Calls, Orders, Others
<1>4. ProcessTypeOK'
  <2>1. /\ at' \in {"done", "row", "get", "meta", "quote", "order"}
        /\ end' \in {"none", "raised", "ack", "value"}
        /\ said' \in Nat /\ took' \in Nat
    BY <1>1, <1>2, <1>3, SMT
  <2> QED
    BY <1>1, <2>1, Zenon DEF CallInv, ProcessTypeOK, Published
<1>5. Control'
  BY <1>1, <1>2, <1>3, SMT DEF Control
<1>6. Behind'
  BY <1>1, <1>2, SMT DEF Behind
<1>7. n \in Nat
  BY CallsAssumption, SMT DEF CallsAssumption
<1>8. Untaken' /\ OrdersWithinAsked'
  BY <1>1, <1>2, <1>7, SMT DEF Untaken, OrdersWithinAsked
<1> QED
  BY <1>4, <1>5, <1>6, <1>8, Zenon DEF CallInv

LEMMA MarketRowKeeps ==
    ASSUME CallInv, MarketRow
    PROVE  CallInv'
<1>1. At("row") /\ UNCHANGED <<op, sent, took, meta>>
  BY Zenon DEF MarketRow, At, NothingSent, request
<1>2. row' \in [known : BOOLEAN, mark : Nat, step : {LotStep, Coarse}]
  BY CachesTyped, Zenon DEF MarketRow, CallInv, ProcessTypeOK
<1>3. Raise \/ \E m \in Nat : WithRow(m)
  <2>1. row.mark \in Nat /\ Row.mark \in Nat
    BY FieldsTyped, Zenon DEF CallInv, Row
  <2> QED
    BY <2>1, Zenon DEF MarketRow
<1>4. /\ \/ at' = "done" /\ end' \in {"raised", "value"} /\ said' \in Nat
         \/ at' = "get" /\ op \in {"orders", "history"} /\ UNCHANGED <<end, said>>
         \/ at' = "order" /\ op \notin {"contract", "orders", "history"} /\ UNCHANGED <<end, said>>
      /\ UNCHANGED bare
  BY <1>3, SMT DEF Raise, Return, Answer, Goto, WithRow
<1>5. at = "row" /\ end = "none" /\ took = 0
      /\ op \in {"orders", "history", "contract", "ioc", "post_only", "cancel"}
  BY <1>1, SMT DEF At, CallInv, Control, Untaken
<1>6. Control'
  BY <1>1, <1>4, <1>5, SMT DEF Control, Guarded, Orders
<1> QED
  BY <1>1, <1>2, <1>4, <1>5, <1>6, OnTheWay, FieldsTyped, SMT DEF CallInv, ProcessTypeOK

LEMMA InstrumentMetaKeeps ==
    ASSUME CallInv, InstrumentMeta
    PROVE  CallInv'
<1>1. /\ At("meta") /\ at' = "quote"
      /\ UNCHANGED <<op, sent, took, row, end, said, bare>>
  BY Zenon DEF InstrumentMeta, At, Goto, NothingSent, request
<1>2. meta' \in [known : BOOLEAN, listing : Listings]
  BY CachesTyped, Zenon DEF InstrumentMeta, CallInv, ProcessTypeOK
<1>3. at = "meta" /\ end = "none" /\ took = 0 /\ op \in {"quote", "rfq"}
  BY <1>1, SMT DEF At, CallInv, Control, Untaken
<1>4. Control'
  BY <1>1, <1>3, SMT DEF Control
<1> QED
  BY <1>1, <1>2, <1>3, <1>4, OnTheWay, FieldsTyped, SMT DEF CallInv, ProcessTypeOK

\* How a reply to a read ends it.
LEMMA ReadEnds ==
    ASSUME Get
    PROVE  \/ Raise
           \/ \E v \in {0, Resting} : Answer(v)
           \/ \E r, v : AnswerFrom(r, v) /\ v \in {pos["var"], pos["lit"], published.settled}
<1>1. PICK r \in Reply : \/ Positions(r) \/ Account(r) \/ ActiveOrders(r) \/ FundingHistory(r)
  BY Zenon DEF Get
<1>2. CASE Positions(r) \/ Account(r) \/ FundingHistory(r)
  BY <1>2, Zenon DEF Positions, Account, FundingHistory
<1>3. CASE ActiveOrders(r)
  <2>1. PICK v \in {0, Resting} : v = IF r \in {"served", "bare"} THEN Resting ELSE 0
    BY Zenon
  <2> QED
    BY <1>3, <2>1, Zenon DEF ActiveOrders
<1> QED
  BY <1>1, <1>2, <1>3

LEMMA GetKeeps ==
    ASSUME VenueTypeOK, CallInv, Get
    PROVE  CallInv'
<1>1. At("get") /\ UNCHANGED <<op, sent, took, row, meta>>
  BY Zenon DEF Get, At, NothingSent, caches, request
<1>2. at' = "done" /\ end' \in {"raised", "value"} /\ said' \in Nat /\ bare' \in BOOLEAN
  <2>1. pos["var"] \in Nat /\ pos["lit"] \in Nat /\ Resting \in Nat
    BY SMT DEF VenueTypeOK, Venue, Kind, Resting
  <2>2. published.settled \in Nat /\ bare \in BOOLEAN
    BY FieldsTyped, Zenon DEF CallInv, ProcessTypeOK
  <2>3. CASE Raise \/ \E v \in {0, Resting} : Answer(v)
    BY <2>1, <2>2, <2>3, SMT DEF Raise, Answer, Return
  <2>4. ASSUME NEW r, NEW v, AnswerFrom(r, v), v \in {pos["var"], pos["lit"], published.settled}
        PROVE  at' = "done" /\ end' = "value" /\ said' \in Nat /\ bare' \in BOOLEAN
    BY <2>1, <2>2, <2>4, SMT DEF AnswerFrom, Served
  <2> QED
    BY <2>3, <2>4, ReadEnds, Zenon
<1>3. at = "get" /\ took = 0
  BY <1>1, SMT DEF At, CallInv, Untaken
<1>4. Control'
  BY <1>1, <1>2, SMT DEF Control
<1> QED
  BY <1>1, <1>2, <1>3, <1>4, OnTheWay, FieldsTyped, SMT DEF CallInv, ProcessTypeOK

LEMMA RequestQuoteKeeps ==
    ASSUME CallInv, RequestQuote
    PROVE  CallInv'
<1>1. At("quote") /\ UNCHANGED <<op, took, row, meta, bare>> /\ sent' \in BOOLEAN
  BY Zenon DEF RequestQuote, At, Raise, Return, Answer, Goto, caches, request
<1>2. \/ at' = "done" /\ end' \in {"raised", "value"} /\ said' \in {0, published.mark}
      \/ at' = "order" /\ op # "quote" /\ UNCHANGED <<end, said>>
  BY SMT DEF RequestQuote, Raise, Return, Answer, Goto
<1>3. at = "quote" /\ took = 0 /\ end = "none" /\ op \in {"quote", "rfq"}
  BY <1>1, SMT DEF At, CallInv, Control, Untaken
<1>4. Control'
  BY <1>1, <1>2, <1>3, SMT DEF Control, Guarded, Orders
<1> QED
  BY <1>1, <1>2, <1>3, <1>4, OnTheWay, FieldsTyped, SMT DEF CallInv, ProcessTypeOK

\* An order is taken on for no more than it asks, or it is not; it is
\* acknowledged only if it was.
LEMMA OrderKeeps ==
    ASSUME CallInv, At("order"), at' = "done", end' \in {"raised", "ack"},
           UNCHANGED <<row, meta, bare>>, said' = 0, sent' \in BOOLEAN,
           NEW n \in Nat, n <= qty, n > 0, took' = took + n \/ took' = took,
           end' = "ack" /\ op \in Orders => took' = took + n
    PROVE  CallInv'
<1>1. at = "order" /\ took = 0 /\ UNCHANGED op
  BY SMT DEF At, CallInv, Untaken, request
<1>2. Control'
  BY <1>1, SMT DEF Control
<1>3. qty \in Nat
  BY FieldsTyped, Zenon DEF CallInv
<1>4. took' \in Nat /\ took' <= qty /\ (end' = "ack" /\ op \in Orders => took' > 0)
  BY <1>1, <1>3, SMT
<1> QED
  BY <1>1, <1>2, <1>4, OnTheWay, SMT DEF CallInv, ProcessTypeOK

\* A submission raises or is acknowledged, and changes the venue by what it
\* took on.
LEMMA SubmitRfqKeeps ==
    ASSUME VenueTypeOK, CallInv, SubmitRfq
    PROVE  VenueTypeOK' /\ CallInv'
<1>1. /\ At("order") /\ op = "rfq" /\ sent' = TRUE /\ UNCHANGED <<row, meta>>
      /\ (Accept("var", side, qty) /\ took' = took + qty) \/ UNCHANGED <<pos, flight, rest, took>>
      /\ at' = "done" /\ end' \in {"raised", "ack"} /\ said' = 0 /\ UNCHANGED bare
  BY Zenon DEF SubmitRfq, Sends, Taken, NotTaken, Raise, Return, caches, venueVars
<1>2. end' = "ack" => took' = took + qty
  <2>1. "raised" # "ack"
    OBVIOUS
  <2> QED
    BY <2>1, Zenon DEF SubmitRfq, Taken, Raise, Return
<1>3. qty \in Nat /\ qty > 0
  BY <1>1, FieldsTyped, SMT DEF CallInv, Untaken, Orders
<1>4. CallInv'
  <2>1. qty <= qty /\ sent' \in BOOLEAN
    BY <1>1, <1>3, SMT
  <2> QED
    BY <1>1, <1>2, <1>3, <2>1, OrderKeeps, Zenon
<1>5. VenueTypeOK'
  <2>1. "var" \in Venue /\ side \in Kind
    BY Zenon DEF Venue, CallInv, ProcessTypeOK
  <2> QED
    BY <1>1, <1>3, <2>1, SubmissionTyped, Zenon DEF Refuse, venueVars
<1> QED
  BY <1>4, <1>5

LEMMA PlacementKeeps ==
    ASSUME VenueTypeOK, CallInv, PlaceIoc \/ PlacePostOnly
    PROVE  VenueTypeOK' /\ CallInv'
<1>1. /\ At("order") /\ sent' = TRUE /\ UNCHANGED <<row, meta>>
      /\ \/ Accept("lit", side, Scaled) /\ took' = took + Scaled
         \/ /\ rest' = [rest EXCEPT ![side] = @ + Scaled] /\ UNCHANGED <<pos, flight>>
            /\ took' = took + Scaled
         \/ UNCHANGED <<pos, flight, rest, took>> /\ end' = "raised"
      /\ at' = "done" /\ end' \in {"raised", "ack"} /\ said' = 0 /\ UNCHANGED bare
  BY Zenon DEF PlaceIoc, PlacePostOnly, SdkReplies, Sends, Taken, NotTaken, Raise, Return,
     caches, venueVars
<1>2. Scaled \in Nat /\ Scaled <= qty /\ Scaled > 0
  BY ScaledTyped, Zenon DEF CallInv, PlaceIoc, PlacePostOnly
<1>3. CallInv'
  <2>1. sent' \in BOOLEAN /\ (end' = "ack" => took' = took + Scaled)
    <3>1. "raised" # "ack"
      OBVIOUS
    <3> QED
      BY <1>1, <3>1, Zenon
  <2> QED
    BY <1>1, <1>2, <2>1, OrderKeeps, Zenon
<1>4. VenueTypeOK'
  <2>1. "lit" \in Venue /\ side \in Kind
    BY Zenon DEF Venue, CallInv, ProcessTypeOK
  <2>2. CASE rest' = [rest EXCEPT ![side] = @ + Scaled] /\ UNCHANGED <<pos, flight>>
    <3>1. ASSUME NEW n \in Nat, rest' = [rest EXCEPT ![side] = @ + n] PROVE rest' \in [Kind -> Nat]
      BY <2>1, <3>1, SMT DEF VenueTypeOK
    <3>2. rest' \in [Kind -> Nat]
      BY <1>2, <2>2, <3>1, Zenon
    <3> QED
      BY <2>2, <3>2, Zenon DEF VenueTypeOK
  <2> QED
    BY <1>1, <1>2, <2>1, <2>2, SubmissionTyped, Zenon DEF Refuse, venueVars
<1> QED
  BY <1>3, <1>4

LEMMA UnplaceableKeeps ==
    ASSUME CallInv, Unplaceable
    PROVE  CallInv'
<1>1. /\ At("order") /\ UNCHANGED <<op, row, meta, sent, took, bare>>
      /\ at' = "done" /\ end' = "raised" /\ said' = 0
  BY Zenon DEF Unplaceable, At, request, Raise, Return, NothingSent, caches
<1>2. took = 0
  BY <1>1, SMT DEF At, CallInv, Untaken
<1>3. Control'
  BY <1>1, SMT DEF Control
<1> QED
  BY <1>1, <1>2, <1>3, OnTheWay, FieldsTyped, SMT DEF CallInv, ProcessTypeOK

LEMMA PullAllKeeps ==
    ASSUME VenueTypeOK, CallInv, PullAll
    PROVE  VenueTypeOK' /\ CallInv'
<1>1. /\ At("order") /\ op = "cancel" /\ sent' = TRUE /\ UNCHANGED <<op, row, meta, took, bare>>
      /\ at' = "done" /\ end' \in {"raised", "ack"} /\ said' = 0
  BY Zenon DEF PullAll, At, request, Raise, Return, Sends, caches
<1>2. took = 0 /\ op \notin Orders
  BY <1>1, SMT DEF At, CallInv, Untaken, Orders
<1>3. Control'
  BY <1>1, SMT DEF Control
<1>4. CallInv'
  BY <1>1, <1>2, <1>3, OnTheWay, FieldsTyped, SMT DEF CallInv, ProcessTypeOK
<1> QED
  BY <1>4, CancelTyped, Zenon DEF PullAll

\* Between the calls and beside them.
LEMMA AroundKeeps ==
    ASSUME VenueTypeOK, CallInv, Guard \/ VenueActs \/ Publish \/ Restart
    PROVE  VenueTypeOK' /\ CallInv'
<1>1. CASE Guard
  <2>1. /\ UNCHANGED <<pos, flight, rest, published, row, meta, op, side, qty>>
        /\ UNCHANGED <<at, end, said, bare, sent, took>>
        /\ armed' = ~armed /\ at = "done"
    BY <1>1, Zenon DEF Guard, NotCalling, caches, request, progress, venueVars
  <2>2. ProcessTypeOK'
    BY <2>1, Zenon DEF CallInv, ProcessTypeOK, Published
  <2> QED
    BY <2>1, <2>2, Zenon DEF CallInv, Control, Behind, Untaken, OrdersWithinAsked, VenueTypeOK
<1>2. CASE VenueActs \/ Publish
  <2>1. /\ UNCHANGED <<armed, row, meta, op, side, qty, at, end, said, bare, sent, took>>
        /\ VenueStep \/ UNCHANGED venueVars
    BY <1>2, Zenon DEF VenueActs, Publish, NotCalling, caches, request, progress
  <2>2. published' \in Published
    <3>1. CASE VenueActs
      BY <3>1, Zenon DEF VenueActs, CallInv, ProcessTypeOK, Published
    <3>2. CASE Publish
      BY <3>2, Zenon DEF Publish
    <3> QED
      BY <1>2, <3>1, <3>2
  <2>3. ProcessTypeOK'
    BY <2>1, <2>2, Zenon DEF CallInv, ProcessTypeOK
  <2>4. VenueTypeOK'
    BY <2>1, VenueStepKeeps, Zenon DEF VenueTypeOK, venueVars
  <2> QED
    BY <2>1, <2>3, <2>4, Zenon DEF CallInv, Control, Behind, Untaken, OrdersWithinAsked
<1>3. CASE Restart
  <2>1. /\ UNCHANGED <<pos, flight, rest, published, op, side, qty, bare, sent, took>>
        /\ armed' = TRUE /\ row' = NoRow /\ meta' = NoMeta
        /\ at' = "done" /\ end' = "raised" /\ said' = 0
    BY <1>3, Zenon DEF Restart, Raise, Return, request, venueVars
  <2>2. ProcessTypeOK'
    <3>1. 0 \in Nat
      OBVIOUS
    <3> QED
      BY <2>1, <3>1, CachesTyped, Zenon DEF CallInv, ProcessTypeOK, Published
  <2>3. Control'
    BY <2>1, SMT DEF Control
  <2>4. Behind' /\ Untaken' /\ OrdersWithinAsked'
    <3>1. "raised" # "ack"
      OBVIOUS
    <3> QED
      BY <2>1, <3>1, Zenon DEF CallInv, Behind, Untaken, OrdersWithinAsked
  <2> QED
    BY <2>1, <2>2, <2>3, <2>4, Zenon DEF CallInv, VenueTypeOK
<1> QED
  BY <1>1, <1>2, <1>3

-----------------------------------------------------------------------------
\* Every step of the calls, of their callers and of the venues.
LEMMA StepKeepsCalls ==
    ASSUME VenueTypeOK, CallInv, Step
    PROVE  VenueTypeOK' /\ CallInv'
<1>1. CASE \E o \in Others : Ask(o)
  <2>1. PICK o \in Others : Call(o, "open", 0)
    BY <1>1, Zenon DEF Ask
  <2>2. o \in Calls /\ o \notin Orders /\ "open" \in Kind /\ 0 \in 0 .. MaxQty
    BY CallsAssumption, SMT DEF Calls, Orders, Others, Kind, CallsAssumption
  <2>3. CallInv'
    BY <2>1, <2>2, CallKeeps, Zenon
  <2> QED
    BY <2>1, <2>3, Zenon DEF Call, VenueTypeOK, venueVars
<1>2. CASE \E o \in Orders, k \in Kind, n \in 1 .. MaxQty : Order(o, k, n)
  <2>1. PICK o \in Orders, k \in Kind, n \in 1 .. MaxQty : Call(o, k, n)
    BY <1>2, Zenon DEF Order
  <2>2. o \in Calls /\ n \in 0 .. MaxQty /\ n > 0
    BY CallsAssumption, SMT DEF Calls, CallsAssumption
  <2>3. CallInv'
    BY <2>1, <2>2, CallKeeps, Zenon
  <2> QED
    BY <2>1, <2>3, Zenon DEF Call, VenueTypeOK, venueVars
<1>3. CASE MarketRow \/ InstrumentMeta \/ Get \/ RequestQuote \/ Unplaceable
  <2>1. VenueTypeOK'
    BY <1>3, Zenon DEF MarketRow, InstrumentMeta, Get, RequestQuote, Unplaceable, NothingSent,
       VenueTypeOK, venueVars
  <2>2. CallInv'
    BY <1>3, MarketRowKeeps, InstrumentMetaKeeps, GetKeeps, RequestQuoteKeeps, UnplaceableKeeps, Zenon
  <2> QED
    BY <2>1, <2>2
<1> QED
  BY <1>1, <1>2, <1>3, SubmitRfqKeeps, PlacementKeeps, PullAllKeeps, AroundKeeps, Zenon DEF Step

\* A read answers with what it reads at that moment, or Lighter with nothing;
\* what a call has answered is left alone.
LEMMA StepAnswers ==
    ASSUME CallInv, Step, end' = "value", op' \in {"positions", "account", "orders"}
    PROVE  \/ at = "done" /\ UNCHANGED <<at, op, end, said, bare>>
           \/ /\ at = "get" /\ op' = op
              /\ op = "positions" /\ ~bare' => said' = Subject(op)
              /\ op \in {"account", "orders"} => said' \in {0, Subject(op)}
<1>0. "raised" # "value" /\ "ack" # "value" /\ "none" # "value"
  OBVIOUS
<1>1. CASE Get
  <2>1. at = "get" /\ op' = op /\ ~Raise
    BY <1>0, <1>1, Zenon DEF Get, At, request, Raise, Return
  <2>2. /\ op = "positions" => Subject(op) = pos["var"]
        /\ op = "account" => Subject(op) = pos["lit"]
        /\ op = "orders" => Subject(op) = Resting
    BY SMT DEF Subject
  <2>3. PICK r \in Reply : \/ op = "positions" /\ Positions(r)
                           \/ op = "account" /\ Account(r)
                           \/ op = "orders" /\ ActiveOrders(r)
                           \/ op = "history" /\ FundingHistory(r)
    BY <1>1, Zenon DEF Get
  <2>4. CASE op = "positions"
    <3>1. r \in {"served", "bare"} /\ AnswerFrom(r, pos["var"])
      BY <2>1, <2>3, <2>4, SMT DEF Positions
    <3>2. bare' \/ said' = pos["var"]
      BY <3>1, Zenon DEF AnswerFrom, Served
    <3> QED
      BY <2>1, <2>2, <2>4, <3>2, Zenon
  <2>5. CASE op = "account"
    <3>1. AnswerFrom(r, pos["lit"])
      BY <2>1, <2>3, <2>5, SMT DEF Account
    <3>2. said' \in {0, pos["lit"]}
      BY <3>1, SMT DEF AnswerFrom
    <3> QED
      BY <2>1, <2>2, <2>5, <3>2, SMT
  <2>6. CASE op = "orders"
    <3>1. ActiveOrders(r)
      BY <2>3, <2>6, SMT
    <3>2. said' \in {0, Resting}
      BY <2>1, <3>1, Zenon DEF ActiveOrders, Answer, Return
    <3> QED
      BY <2>1, <2>2, <2>6, <3>2, SMT
  <2> QED
    BY <2>1, <2>4, <2>5, <2>6, Zenon
<1>2. CASE Guard \/ VenueActs \/ Publish
  <2>1. UNCHANGED <<at, op, end, said, bare>>
    BY <1>2, Zenon DEF Guard, VenueActs, Publish, NotCalling, request, progress
  <2>2. at = "done"
    BY <1>0, <2>1, Zenon DEF CallInv, Control
  <2> QED
    BY <2>1, <2>2
<1>3. ~(MarketRow \/ RequestQuote)
  <2>1. ASSUME MarketRow PROVE FALSE
    <3>1. at = "row" /\ end = "none" /\ op' = op
      BY <2>1, SMT DEF MarketRow, At, CallInv, Control, request
    <3>2. op # "contract"
      BY <3>1, SMT
    <3> QED
      BY <1>0, <2>1, <3>1, <3>2, Zenon DEF MarketRow, WithRow, Raise, Return, Goto
  <2>2. ASSUME RequestQuote PROVE FALSE
    <3>1. at = "quote" /\ end = "none" /\ op' = op
      BY <2>2, SMT DEF RequestQuote, At, CallInv, Control, request
    <3> QED
      BY <3>1, SMT DEF CallInv, Control
  <2> QED
    BY <2>1, <2>2
<1>4. ~InstrumentMeta
  <2>1. ASSUME InstrumentMeta PROVE at = "meta" /\ UNCHANGED end
    BY <2>1, Zenon DEF InstrumentMeta, At, Goto
  <2>2. at = "meta" => end = "none"
    BY SMT DEF CallInv, Control
  <2> QED
    BY <1>0, <2>1, <2>2, Zenon
<1>5. ~(SubmitRfq \/ Unplaceable \/ PlaceIoc \/ PlacePostOnly \/ PullAll \/ Restart)
  BY <1>0, Zenon DEF SubmitRfq, Unplaceable, PlaceIoc, PlacePostOnly, PullAll, SdkReplies, Restart,
     Raise, Return
<1>6. ASSUME NEW o, NEW k, NEW n, Call(o, k, n) PROVE FALSE
  BY <1>0, <1>6, Zenon DEF Call
<1> QED
  BY <1>1, <1>2, <1>3, <1>4, <1>5, <1>6, Zenon DEF Step, Ask, Order

LEMMA WitnessKeeps ==
    ASSUME CallInv, SeenInv, CallInv', Subject(op)' \in Nat, Step, Witness
    PROVE  SeenInv'
<1>1. seen' \subseteq Nat
  BY Zenon DEF Witness, SeenInv
<1>2. at # "done" => Subject(op) \in seen
  BY Zenon DEF SeenInv, Watched
<1>3. Watched'
  BY Zenon DEF Witness, Watched
<1>4. ReadsAsVenuesSay'
  <2> SUFFICES ASSUME end' = "value", op' \in {"positions", "account", "orders"}
               PROVE  /\ op' = "positions" /\ ~bare' => said' \in seen'
                      /\ op' \in {"account", "orders"} => said' \in seen' \cup {0}
    BY SMT DEF ReadsAsVenuesSay
  <2>1. at' = "done"
    BY SMT DEF CallInv, Control
  <2>2. CASE at = "done" /\ UNCHANGED <<at, op, end, said, bare>>
    <3>1. seen' = seen
      BY <2>1, <2>2, Zenon DEF Witness
    <3> QED
      BY <2>2, <3>1, Zenon DEF SeenInv, ReadsAsVenuesSay
  <2>3. CASE /\ at = "get" /\ op' = op
             /\ op = "positions" /\ ~bare' => said' = Subject(op)
             /\ op \in {"account", "orders"} => said' \in {0, Subject(op)}
    <3>1. at # "done"
      BY <2>3, SMT
    <3>2. Subject(op) \in seen'
      BY <1>2, <3>1, Zenon DEF Witness
    <3> QED
      BY <2>3, <3>2, Zenon
  <2> QED
    BY <2>2, <2>3, StepAnswers, Zenon
<1> QED
  BY <1>1, <1>3, <1>4, Zenon DEF SeenInv

-----------------------------------------------------------------------------
LEMMA CallsHold == Spec => [](VenueTypeOK /\ CallInv /\ SeenInv)
<1>1. Init => VenueTypeOK /\ CallInv /\ SeenInv
  <2> SUFFICES ASSUME Init PROVE VenueTypeOK /\ CallInv /\ SeenInv
    OBVIOUS
  <2>1. VenueTypeOK
    BY SMT DEF Init, VenueInit, VenueTypeOK, Flat, NoOrders
  <2>2. ProcessTypeOK
    <3>1. 0 \in Nat /\ 0 \in 0 .. MaxQty /\ "account" \in Calls /\ "open" \in Kind
      BY CallsAssumption, SMT DEF Calls, Others, Kind, CallsAssumption
    <3>2. /\ NoRow \in [known : BOOLEAN, mark : Nat, step : {LotStep, Coarse}]
          /\ NoMeta \in [known : BOOLEAN, listing : Listings]
      <4>1. Fallback \in Listings
        BY CallsAssumption, Zenon DEF CallsAssumption
      <4> QED
        BY <4>1, SMT DEF NoRow, NoMeta
    <3> QED
      BY <3>1, <3>2, Zenon DEF Init, ProcessTypeOK
  <2>3. Control /\ Behind /\ Untaken /\ OrdersWithinAsked
    BY SMT DEF Init, Control, Behind, Untaken, OrdersWithinAsked, Orders
  <2>4. SeenInv
    BY SMT DEF Init, SeenInv, Watched, ReadsAsVenuesSay
  <2> QED
    BY <2>1, <2>2, <2>3, <2>4, Zenon DEF CallInv
<1>2. ASSUME VenueTypeOK, CallInv, SeenInv, Next PROVE VenueTypeOK' /\ CallInv'
  BY <1>2, StepKeepsCalls, Zenon DEF Next
<1>3. (VenueTypeOK /\ ProcessTypeOK => Subject(op) \in Nat)'
  BY SubjectTyped, PTL
<1>4. ASSUME VenueTypeOK, CallInv, SeenInv, Next PROVE SeenInv'
  <2>1. VenueTypeOK' /\ CallInv'
    BY <1>2, <1>4
  <2>2. Subject(op)' \in Nat
    BY <1>3, <2>1, Zenon DEF CallInv
  <2> QED
    BY <1>4, <2>1, <2>2, WitnessKeeps, Zenon DEF Next
<1>5. ASSUME VenueTypeOK, CallInv, SeenInv, UNCHANGED vars
      PROVE  VenueTypeOK' /\ CallInv' /\ SeenInv'
  <2>1. /\ UNCHANGED <<pos, flight, rest, published, armed, row, meta, op, side, qty>>
        /\ UNCHANGED <<at, end, said, bare, sent, took, seen>>
    BY <1>5, Zenon DEF vars, venueVars, caches, request, progress
  <2>2. VenueTypeOK'
    BY <1>5, <2>1, Zenon DEF VenueTypeOK
  <2>3. CallInv'
    <3>1. ProcessTypeOK'
      BY <1>5, <2>1, Zenon DEF CallInv, ProcessTypeOK, Published
    <3>2. Control'
      BY <1>5, <2>1, Zenon DEF CallInv, Control
    <3>3. Behind' /\ Untaken' /\ OrdersWithinAsked'
      BY <1>5, <2>1, Zenon DEF CallInv, Behind, Untaken, OrdersWithinAsked
    <3> QED
      BY <3>1, <3>2, <3>3, Zenon DEF CallInv
  <2>4. Subject(op)' = Subject(op)
    <3>1. pos' = pos /\ rest' = rest /\ published' = published /\ op' = op
      BY <2>1, Zenon
    <3>2. Resting' = Resting
      BY <3>1, Zenon DEF Resting
    <3> QED
      BY <3>1, <3>2, SMT DEF Subject
  <2>5. SeenInv'
    BY <1>5, <2>1, <2>4, Zenon DEF SeenInv, Watched, ReadsAsVenuesSay
  <2> QED
    BY <2>2, <2>3, <2>5
<1>6. (VenueTypeOK /\ CallInv /\ SeenInv) /\ [Next]_vars => (VenueTypeOK /\ CallInv /\ SeenInv)'
  BY <1>2, <1>4, <1>5, Zenon
<1> QED
  BY <1>1, <1>6, PTL DEF Spec

\* The caches, the exchange and the outcome of a call keep their types,
\* whatever a venue replies.
THEOREM CallsTyped == Spec => []CallsTypeOK
<1>1. VenueTypeOK /\ CallInv /\ SeenInv => CallsTypeOK
  BY Zenon DEF CallInv, SeenInv, CallsTypeOK
<1> QED
  BY <1>1, CallsHold, PTL

\* A Variational position that is returned was held while it was read, and
\* nothing but a failed account or order read takes Lighter for empty
\* (_position_info, account_snapshot, account_active_orders).
THEOREM ReadsJustified == Spec => []ReadsAsVenuesSay
<1>1. VenueTypeOK /\ CallInv /\ SeenInv => ReadsAsVenuesSay
  BY Zenon DEF SeenInv
<1> QED
  BY <1>1, CallsHold, PTL

\* No call has a venue take on more than it was asked for, for every size step
\* that is not below the venue's (scaled_amounts, submit_market_order).
THEOREM NeverEnlarged == Spec => []OrdersWithinAsked
<1>1. VenueTypeOK /\ CallInv /\ SeenInv => OrdersWithinAsked
  BY Zenon DEF CallInv
<1> QED
  BY <1>1, CallsHold, PTL

\* Nothing that changes a venue is sent while the guard is up, although it is
\* tested before the metadata and the quote are fetched (net_guard.check).
THEOREM GuardHolds == Spec => ArmedSendsNothing
<1>1. ASSUME CallInv, [Next]_vars, sent', ~sent PROVE ~armed
  <2>1. CASE RequestQuote
    BY <1>1, <2>1, Zenon DEF RequestQuote
  <2>2. CASE SubmitRfq \/ PlaceIoc \/ PlacePostOnly \/ PullAll
    <3>1. at = "order"
      BY <2>2, Zenon DEF SubmitRfq, PlaceIoc, PlacePostOnly, PullAll, At
    <3>2. op \in Guarded /\ at # "done"
      BY <1>1, <3>1, SMT DEF CallInv, Control
    <3> QED
      BY <1>1, <3>2, Zenon DEF CallInv, Behind
  <2>3. ~(MarketRow \/ InstrumentMeta \/ Get \/ Unplaceable \/ Guard \/ VenueActs \/ Publish \/ Restart)
    BY <1>1, Zenon DEF MarketRow, InstrumentMeta, Get, Unplaceable, NothingSent, Guard, VenueActs,
       Publish, Restart, NotCalling
  <2>4. ASSUME NEW o, NEW k, NEW n, Call(o, k, n) PROVE FALSE
    BY <1>1, <2>4, Zenon DEF Call
  <2>5. ~(UNCHANGED vars)
    BY <1>1, Zenon DEF vars
  <2> QED
    BY <1>1, <2>1, <2>2, <2>3, <2>4, <2>5, Zenon DEF Next, Step, Ask, Order
<1>2. CallInv /\ [Next]_vars => (sent' /\ ~sent => ~armed)
  BY <1>1
<1> QED
  BY <1>2, CallsHold, PTL DEF Spec, ArmedSendsNothing

================================================================================
