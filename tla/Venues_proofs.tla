----------------------------- MODULE Venues_proofs -----------------------------
(***************************************************************************)
(* What every module that has the venues in it cites: nothing they do, or  *)
(* are asked to do, takes their positions and orders out of their types,   *)
(* so no fill goes through zero and no order is negative; and what a step  *)
(* of theirs can have done to a position and the orders on it.             *)
(***************************************************************************)
EXTENDS Venues, TLAPS

\* A position read is a quantity, of one venue or of both.
LEMMA ReadsNat ==
    ASSUME VenueTypeOK
    PROVE  /\ \A v \in Venue : Reads(v) \subseteq Nat
           /\ ReadsBoth \subseteq [Venue -> Nat]
<1>1. \A v \in Venue : Reads(v) \subseteq Nat
  BY SMT DEF VenueTypeOK, Reads
<1>2. \A r \in ReadsBoth : r \in [Venue -> Nat]
  BY <1>1, SMT DEF ReadsBoth
<1> QED
  BY <1>1, <1>2, Zenon

-----------------------------------------------------------------------------
\* A submission adds to what is in flight, or nothing changes.
LEMMA SubmissionTyped ==
    ASSUME VenueTypeOK, NEW v \in Venue, NEW k \in Kind, NEW n \in Nat,
           Accept(v, k, n) \/ Refuse(v, k, n)
    PROVE  VenueTypeOK'
<1>1. CASE Accept(v, k, n)
  BY <1>1, SMT DEF VenueTypeOK, Accept
<1>2. CASE UNCHANGED venueVars
  BY <1>2, Zenon DEF VenueTypeOK, venueVars
<1> QED
  BY <1>1, <1>2, Zenon DEF Refuse

\* Pulling orders leaves some or none.
LEMMA CancelTyped ==
    ASSUME VenueTypeOK, CancelAll
    PROVE  VenueTypeOK'
<1>1. NoOrders \in [Kind -> Nat]
  BY SMT DEF NoOrders, Kind
<1> QED
  BY <1>1, Zenon DEF VenueTypeOK, CancelAll

\* A fill moves the position by what it takes off the order, and a
\* reduce-only fill never takes the position through zero.
LEMMA FillTyped ==
    ASSUME VenueTypeOK, NEW v \in Venue, NEW k \in Kind,
           Fill(v, k) \/ Drop(v, k) \/ FillResting(k)
    PROVE  VenueTypeOK'
<1> USE DEF VenueTypeOK, Moved
<1>0. flight[v] \in [Kind -> Nat] /\ flight[v][k] \in Nat /\ pos[v] \in Nat
  BY SMT
<1>1. CASE Fill(v, k)
  <2>1. PICK n \in 1 .. Fillable(v, k, flight[v][k]) :
          /\ Moved(v, k, n)
          /\ flight' = [flight EXCEPT ![v][k] = IF "partial" \in Faults THEN @ - n ELSE 0]
    BY <1>1, Zenon DEF Fill
  <2>2. n \in Nat /\ n <= flight[v][k] /\ (k = "reduce" => n <= pos[v])
    BY <1>0, SMT DEF Fillable
  <2>3. pos' \in [Venue -> Nat]
    BY <2>1, <2>2, <1>0, SMT DEF Kind
  <2>4. flight' \in [Venue -> [Kind -> Nat]]
    BY <2>1, <2>2, <1>0, SMT
  <2> QED
    BY <1>1, <2>3, <2>4, Zenon DEF Fill
<1>2. CASE Drop(v, k)
  BY <1>2, <1>0, SMT DEF Drop
<1>3. CASE FillResting(k)
  <2>0. "lit" \in Venue /\ pos["lit"] \in Nat /\ rest[k] \in Nat
    BY SMT DEF Venue
  <2>1. PICK n \in 1 .. Fillable("lit", k, rest[k]) :
          /\ Moved("lit", k, n)
          /\ rest' = [rest EXCEPT ![k] = @ - n]
    BY <1>3, Zenon DEF FillResting
  <2>2. n \in Nat /\ n <= rest[k] /\ (k = "reduce" => n <= pos["lit"])
    BY <2>0, SMT DEF Fillable
  <2>3. pos' \in [Venue -> Nat]
    BY <2>1, <2>2, <2>0, SMT DEF Kind
  <2>4. rest' \in [Kind -> Nat]
    BY <2>1, <2>2, <2>0, SMT
  <2> QED
    BY <1>3, <2>3, <2>4, Zenon DEF FillResting
<1> QED
  BY <1>1, <1>2, <1>3

\* Whatever the venues do on their own keeps them typed.
LEMMA VenueStepKeeps ==
    ASSUME VenueTypeOK, VenueStep
    PROVE  VenueTypeOK'
<1>1. "lit" \in Venue
  BY Zenon DEF Venue
<1> QED
  BY <1>1, FillTyped, Zenon DEF VenueStep

-----------------------------------------------------------------------------
\* What the venues do of themselves, in one form: an order of one kind goes
\* down, and the position it is on moves only if there was one, by no more
\* than comes off the order.  Unless they fill in pieces, an RFQ goes at once.
LEMMA VenueStepIs ==
    ASSUME VenueTypeOK, VenueStep
    PROVE  \E v \in Venue, k \in Kind, n \in Nat, f \in Nat, r \in Nat :
             /\ f <= flight[v][k] /\ flight' = [flight EXCEPT ![v][k] = f]
             /\ r <= rest[k] /\ rest' = [rest EXCEPT ![k] = r]
             /\ pos' = [pos EXCEPT ![v] = IF k = "open" THEN @ + n ELSE @ - n]
             /\ k = "reduce" => n <= pos[v]
             /\ n = 0 \/ flight[v][k] > f \/ (v = "lit" /\ rest[k] > 0)
             /\ v = "lit" \/ n + f <= flight[v][k]
             /\ v = "lit" \/ "partial" \in Faults
                  \/ (f = 0 /\ n \in {0, Fillable(v, k, flight[v][k])})
<1> DEFINE Form(v, k, n, f, r) ==
             /\ f <= flight[v][k] /\ flight' = [flight EXCEPT ![v][k] = f]
             /\ r <= rest[k] /\ rest' = [rest EXCEPT ![k] = r]
             /\ pos' = [pos EXCEPT ![v] = IF k = "open" THEN @ + n ELSE @ - n]
             /\ k = "reduce" => n <= pos[v]
             /\ n = 0 \/ flight[v][k] > f \/ (v = "lit" /\ rest[k] > 0)
             /\ v = "lit" \/ n + f <= flight[v][k]
             /\ v = "lit" \/ "partial" \in Faults
                  \/ (f = 0 /\ n \in {0, Fillable(v, k, flight[v][k])})
<1> SUFFICES \E v \in Venue, k \in Kind, n \in Nat, f \in Nat, r \in Nat : Form(v, k, n, f, r)
  OBVIOUS
<1>1. /\ \A v \in Venue : pos[v] \in Nat
      /\ \A v \in Venue, k \in Kind : flight[v] \in [Kind -> Nat] /\ flight[v][k] \in Nat
      /\ \A k \in Kind : rest[k] \in Nat
      /\ pos \in [Venue -> Nat] /\ flight \in [Venue -> [Kind -> Nat]] /\ rest \in [Kind -> Nat]
      /\ "lit" \in Venue /\ "reduce" \in Kind /\ "open" \in Kind
  BY SMT DEF VenueTypeOK, Venue, Kind
<1>2. ASSUME NEW v \in Venue, NEW k \in Kind, Fill(v, k)
      PROVE  \E n \in Nat, f \in Nat, r \in Nat : Form(v, k, n, f, r)
  <2>1. PICK n \in 1 .. Fillable(v, k, flight[v][k]) :
          /\ "partial" \in Faults \/ n = Fillable(v, k, flight[v][k])
          /\ Moved(v, k, n)
          /\ flight' = [flight EXCEPT ![v][k] = IF "partial" \in Faults THEN @ - n ELSE 0]
    BY <1>2, Zenon DEF Fill
  <2>2. rest' = rest
    BY <1>2, Zenon DEF Fill
  <2>3. PICK x \in Nat, p \in Nat, r \in Nat : x = flight[v][k] /\ p = pos[v] /\ r = rest[k]
    BY <1>1, Zenon
  <2>4. n \in Nat /\ n > 0 /\ n <= x /\ (k = "reduce" => n <= p)
    BY <2>3, SMT DEF Fillable
  <2>5. PICK f \in Nat : f = (IF "partial" \in Faults THEN x - n ELSE 0) /\ f < x
    <3>1. x - n \in Nat /\ x - n < x /\ 0 \in Nat /\ 0 < x
      BY <2>4, SMT
    <3> QED
      BY <3>1, Zenon
  <2>6. flight' = [flight EXCEPT ![v][k] = f]
    BY <1>1, <2>1, <2>3, <2>5, SMT
  <2>7. rest' = [rest EXCEPT ![k] = r]
    BY <1>1, <2>2, <2>3, SMT
  <2>8. r <= rest[k] /\ f <= flight[v][k] /\ flight[v][k] > f /\ n + f <= flight[v][k]
    BY <2>3, <2>4, <2>5, SMT
  <2>9. k = "reduce" => n <= pos[v]
    BY <2>3, <2>4, Zenon
  <2>10. pos' = [pos EXCEPT ![v] = IF k = "open" THEN @ + n ELSE @ - n]
    BY <2>1, Zenon DEF Moved
  <2>11. "partial" \in Faults \/ (f = 0 /\ n = Fillable(v, k, flight[v][k]))
    BY <2>1, <2>5, Zenon
  <2> QED
    BY <2>4, <2>6, <2>7, <2>8, <2>9, <2>10, <2>11, Zenon
<1>3. ASSUME NEW v \in Venue, NEW k \in Kind, Drop(v, k)
      PROVE  \E n \in Nat, f \in Nat, r \in Nat : Form(v, k, n, f, r)
  <2>1. flight' = [flight EXCEPT ![v][k] = 0] /\ pos' = pos /\ rest' = rest
    BY <1>3, Zenon DEF Drop
  <2>2. pos' = [pos EXCEPT ![v] = IF k = "open" THEN @ + 0 ELSE @ - 0]
    BY <1>1, <2>1, SMT
  <2>3. PICK r \in Nat : r = rest[k] /\ rest' = [rest EXCEPT ![k] = r] /\ r <= rest[k]
    BY <1>1, <2>1, SMT
  <2>4. 0 \in Nat /\ 0 <= flight[v][k] /\ 0 <= pos[v] /\ 0 + 0 <= flight[v][k]
    BY <1>1, SMT
  <2> QED
    BY <2>1, <2>2, <2>3, <2>4, Zenon
<1>4. ASSUME NEW k \in Kind, FillResting(k)
      PROVE  \E n \in Nat, f \in Nat, r \in Nat : Form("lit", k, n, f, r)
  <2>1. PICK n \in 1 .. Fillable("lit", k, rest[k]) :
          Moved("lit", k, n) /\ rest' = [rest EXCEPT ![k] = @ - n]
    BY <1>4, Zenon DEF FillResting
  <2>2. PICK x \in Nat, p \in Nat, f \in Nat : x = rest[k] /\ p = pos["lit"] /\ f = flight["lit"][k]
    BY <1>1, Zenon
  <2>3. n \in Nat /\ n > 0 /\ n <= x /\ (k = "reduce" => n <= p)
    BY <2>2, SMT DEF Fillable
  <2>4. PICK r \in Nat : r = x - n /\ r <= x
    BY <2>3, SMT
  <2>5. rest' = [rest EXCEPT ![k] = r] /\ r <= rest[k] /\ rest[k] > 0
    BY <1>1, <2>1, <2>2, <2>3, <2>4, SMT
  <2>6. flight' = [flight EXCEPT !["lit"][k] = f] /\ f <= flight["lit"][k]
    <3>1. flight' = flight
      BY <1>4, Zenon DEF FillResting
    <3> QED
      BY <1>1, <2>2, <3>1, SMT
  <2>7. pos' = [pos EXCEPT !["lit"] = IF k = "open" THEN @ + n ELSE @ - n]
    BY <2>1, Zenon DEF Moved
  <2>8. k = "reduce" => n <= pos["lit"]
    BY <2>2, <2>3, Zenon
  <2> QED
    BY <2>3, <2>5, <2>6, <2>7, <2>8, Zenon
<1> HIDE DEF Form
<1> QED
  BY <1>1, <1>2, <1>3, <1>4, Zenon DEF VenueStep

\* Orders only go down, a position without opening orders does not grow, and
\* one without reducing orders does not shrink.
LEMMA VenuesMove ==
    ASSUME VenueTypeOK, VenueStep, NEW u \in Venue
    PROVE  /\ \A j \in Kind : /\ flight'[u][j] \in 0 .. flight[u][j]
                              /\ rest'[j] \in 0 .. rest[j]
           /\ flight[u]["open"] = 0 /\ (u = "lit" => rest["open"] = 0) => pos'[u] <= pos[u]
           /\ flight[u]["reduce"] = 0 /\ (u = "lit" => rest["reduce"] = 0) => pos'[u] >= pos[u]
<1>1. PICK v \in Venue, k \in Kind, n \in Nat, f \in Nat, r \in Nat :
             /\ f <= flight[v][k] /\ flight' = [flight EXCEPT ![v][k] = f]
             /\ r <= rest[k] /\ rest' = [rest EXCEPT ![k] = r]
             /\ pos' = [pos EXCEPT ![v] = IF k = "open" THEN @ + n ELSE @ - n]
             /\ k = "reduce" => n <= pos[v]
             /\ n = 0 \/ flight[v][k] > f \/ (v = "lit" /\ rest[k] > 0)
             /\ v = "lit" \/ n + f <= flight[v][k]
             /\ v = "lit" \/ "partial" \in Faults
                  \/ (f = 0 /\ n \in {0, Fillable(v, k, flight[v][k])})
  BY VenueStepIs
<1>2. /\ pos \in [Venue -> Nat] /\ flight \in [Venue -> [Kind -> Nat]] /\ rest \in [Kind -> Nat]
  BY Zenon DEF VenueTypeOK
<1>3. ASSUME NEW j \in Kind
      PROVE  flight'[u][j] \in 0 .. flight[u][j] /\ rest'[j] \in 0 .. rest[j]
  <2>1. flight'[u][j] = IF u = v /\ j = k THEN f ELSE flight[u][j]
    BY <1>1, <1>2, SMT
  <2>2. rest'[j] = IF j = k THEN r ELSE rest[j]
    BY <1>1, <1>2, SMT
  <2>3. flight[u][j] \in Nat /\ rest[j] \in Nat
    BY <1>2, SMT
  <2> QED
    BY <1>1, <2>1, <2>2, <2>3, SMT
<1>4. /\ pos[u] \in Nat /\ u # v => pos'[u] = pos[u]
      /\ u = v /\ k = "open" => pos'[u] = pos[u] + n
      /\ u = v /\ k = "reduce" => pos'[u] = pos[u] - n
  BY <1>1, <1>2, SMT DEF Kind
<1>5. pos[u] \in Nat
  BY <1>2, SMT
<1>6. flight[u]["open"] = 0 /\ (u = "lit" => rest["open"] = 0) => pos'[u] <= pos[u]
  <2>1. flight[u]["open"] = 0 /\ (u = "lit" => rest["open"] = 0) /\ u = v /\ k = "open" => n = 0
    BY <1>1, SMT
  <2> QED
    BY <1>4, <1>5, <2>1, SMT DEF Kind
<1>7. flight[u]["reduce"] = 0 /\ (u = "lit" => rest["reduce"] = 0) => pos'[u] >= pos[u]
  <2>1. flight[u]["reduce"] = 0 /\ (u = "lit" => rest["reduce"] = 0) /\ u = v /\ k = "reduce" => n = 0
    BY <1>1, SMT
  <2> QED
    BY <1>4, <1>5, <2>1, SMT DEF Kind
<1> QED
  BY <1>3, <1>6, <1>7

\* What is held at Variational and what is on order to open more of it do not
\* grow together: a fill moves no more than it takes off.
LEMMA ExposureFalls ==
    ASSUME VenueTypeOK, VenueStep
    PROVE  /\ pos'["var"] \in Nat /\ flight'["var"]["open"] \in Nat
           /\ pos'["var"] + flight'["var"]["open"] <= pos["var"] + flight["var"]["open"]
<1>1. PICK v \in Venue, k \in Kind, n \in Nat, f \in Nat, r \in Nat :
             /\ f <= flight[v][k] /\ flight' = [flight EXCEPT ![v][k] = f]
             /\ r <= rest[k] /\ rest' = [rest EXCEPT ![k] = r]
             /\ pos' = [pos EXCEPT ![v] = IF k = "open" THEN @ + n ELSE @ - n]
             /\ k = "reduce" => n <= pos[v]
             /\ n = 0 \/ flight[v][k] > f \/ (v = "lit" /\ rest[k] > 0)
             /\ v = "lit" \/ n + f <= flight[v][k]
             /\ v = "lit" \/ "partial" \in Faults
                  \/ (f = 0 /\ n \in {0, Fillable(v, k, flight[v][k])})
  BY VenueStepIs
<1>2. /\ pos \in [Venue -> Nat] /\ flight \in [Venue -> [Kind -> Nat]]
      /\ "var" \in Venue /\ "open" \in Kind
  BY SMT DEF VenueTypeOK, Venue, Kind
<1>3. pos["var"] \in Nat /\ flight["var"]["open"] \in Nat
  BY <1>2, SMT
<1>4. CASE v = "lit"
  <2>1. pos'["var"] = pos["var"] /\ flight'["var"]["open"] = flight["var"]["open"]
    BY <1>1, <1>2, <1>4, SMT
  <2> QED
    BY <1>3, <2>1, SMT
<1>5. CASE v = "var" /\ k = "open"
  <2>1. pos'["var"] = pos["var"] + n /\ flight'["var"]["open"] = f
    BY <1>1, <1>2, <1>5, SMT
  <2>2. n + f <= flight["var"]["open"]
    BY <1>1, <1>5, SMT
  <2> QED
    BY <1>3, <2>1, <2>2, SMT
<1>6. CASE v = "var" /\ k = "reduce"
  <2>1. pos'["var"] = pos["var"] - n /\ flight'["var"]["open"] = flight["var"]["open"]
        /\ n <= pos["var"]
    BY <1>1, <1>2, <1>6, SMT
  <2> QED
    BY <1>3, <2>1, SMT
<1> QED
  BY <1>4, <1>5, <1>6, Zenon DEF Venue, Kind

\* Where no order fills in pieces, an order at Variational fills whole, up to
\* what is held for one that reduces, or is dropped.
LEMMA FillsAtOnce ==
    ASSUME VenueTypeOK, VenueStep, "partial" \notin Faults
    PROVE  \/ /\ pos'["var"] = pos["var"]
              /\ \A k \in Kind : flight'["var"][k] \in {flight["var"][k], 0}
           \/ /\ pos'["var"] = pos["var"] + flight["var"]["open"]
              /\ flight'["var"]["open"] = 0
              /\ flight'["var"]["reduce"] = flight["var"]["reduce"]
           \/ /\ pos'["var"] <= pos["var"]
              /\ flight["var"]["reduce"] > 0
              /\ flight'["var"]["reduce"] = 0
              /\ flight'["var"]["open"] = flight["var"]["open"]
<1>1. PICK v \in Venue, k \in Kind, n \in Nat, f \in Nat, r \in Nat :
             /\ f <= flight[v][k] /\ flight' = [flight EXCEPT ![v][k] = f]
             /\ r <= rest[k] /\ rest' = [rest EXCEPT ![k] = r]
             /\ pos' = [pos EXCEPT ![v] = IF k = "open" THEN @ + n ELSE @ - n]
             /\ k = "reduce" => n <= pos[v]
             /\ n = 0 \/ flight[v][k] > f \/ (v = "lit" /\ rest[k] > 0)
             /\ v = "lit" \/ n + f <= flight[v][k]
             /\ v = "lit" \/ "partial" \in Faults
                  \/ (f = 0 /\ n \in {0, Fillable(v, k, flight[v][k])})
  BY VenueStepIs
<1>2. /\ pos \in [Venue -> Nat] /\ flight \in [Venue -> [Kind -> Nat]]
      /\ "var" \in Venue /\ "open" \in Kind /\ "reduce" \in Kind
  BY SMT DEF VenueTypeOK, Venue, Kind
<1>3. pos["var"] \in Nat /\ \A j \in Kind : flight["var"][j] \in Nat
  BY <1>2, SMT
<1>4. CASE v = "lit"
  <2>1. pos'["var"] = pos["var"] /\ \A j \in Kind : flight'["var"][j] = flight["var"][j]
    BY <1>1, <1>2, <1>4, SMT
  <2> QED
    BY <2>1
<1>5. CASE v = "var"
  <2>1. f = 0 /\ n \in {0, Fillable("var", k, flight["var"][k])}
    BY <1>1, <1>5, SMT
  <2>2. \A j \in Kind : flight'["var"][j] = IF j = k THEN 0 ELSE flight["var"][j]
    BY <1>1, <1>2, <1>5, <2>1, SMT
  <2>3. pos'["var"] = IF k = "open" THEN pos["var"] + n ELSE pos["var"] - n
    BY <1>1, <1>2, <1>5, SMT
  <2>4. CASE n = 0
    <3>1. pos'["var"] = pos["var"]
      BY <1>3, <2>3, <2>4, SMT
    <3> QED
      BY <2>2, <3>1, Zenon
  <2>5. CASE n # 0 /\ k = "open"
    <3>1. n = flight["var"]["open"]
      BY <2>1, <2>5, SMT DEF Fillable
    <3> QED
      BY <1>2, <2>2, <2>3, <2>5, <3>1, SMT
  <2>6. CASE n # 0 /\ k = "reduce"
    <3>1. n <= pos["var"] /\ flight["var"]["reduce"] > 0
      BY <1>1, <1>5, <2>1, <2>6, SMT
    <3> QED
      BY <1>2, <1>3, <2>2, <2>3, <2>6, <3>1, SMT
  <2> QED
    BY <2>4, <2>5, <2>6, SMT DEF Kind
<1> QED
  BY <1>4, <1>5, Zenon DEF Venue
=============================================================================
