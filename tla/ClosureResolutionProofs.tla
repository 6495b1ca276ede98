------------------------ MODULE ClosureResolutionProofs ------------------------
(* Proofs about ClosureResolution and ClosureWeights, for any packages,       *)
(* versions, installations and declared weights.  The invariant of the loop   *)
(* adds to the stated properties that every name that is not pending is       *)
(* settled: selected if and only if it is required, and at the commit its     *)
(* exact forms name.  That of the weighing adds that it comes after the loop. *)
EXTENDS ClosureWeights, TLAPS

\* What n's selection s contributes to the constraints.
Contribution(n, s) == Attribute(input.requires[n][s.commit], n, s.version)

\* The commit agrees with every exact form on the name, or an overlay replaces it.
Answers(n, commit) ==
    Overlaid(n) \/ \A c \in constraints :
        c.on = n /\ c.want.form = "exact" => commit = c.want.commit

Required(n) == \E c \in constraints : c.on = n

Settled(n) ==
    /\ selected[n] # None <=> Required(n)
    /\ selected[n] # None => Answers(n, selected[n].commit)

AllSettled == \A n \in Names : n \notin pending => Settled(n)

\* Where only ranges are used, a selection is at its ceiling.
AtCeiling ==
    RangesOnly => \A n \in Names : selected[n] # None => selected[n].version = ceiling[n]

\* A lock was checked, with nothing pending, and nothing happens after it.
Checked == outcome = "locked" => pending = {} /\ \A c \in constraints : Satisfied(c)

IInv ==
    /\ input \in Inputs
    /\ TypeOK
    /\ ConstraintsAreCurrent
    /\ AllSettled
    /\ AtCeiling
    /\ Checked

--------------------------------------------------------------------------------
\* The fields of an installation have their types.
LEMMA InputFields ==
    ASSUME input \in Inputs
    PROVE  /\ input.machine \subseteq Requirements
           /\ \A n \in Names : \A v \in Versions : input.tags[n][v] \in Commits \union {None}
           /\ \A n \in Names : \A c \in Commits : /\ input.stated[n][c] \in Versions \union {None}
                                          /\ input.requires[n][c] \subseteq Requirements
<1>1. input \in Installations  BY InputsAreInstallations
<1>2. /\ input.machine \subseteq Requirements
      /\ input.tags \in [Names -> [Versions -> Commits \union {None}]]
      /\ input.stated \in [Names -> [Commits -> Versions \union {None}]]
      /\ input.requires \in [Names -> [Commits -> SUBSET Requirements]]
  BY <1>1 DEF Installations
<1> QED  BY <1>2

\* Requirements attributed to a requirer are constraints on what they name.
LEMMA Attributes ==
    ASSUME NEW R \in SUBSET Requirements, NEW by \in Names \union {Machine},
           NEW at \in Versions \union {None}
    PROVE  /\ Attribute(R, by, at) \subseteq Constraints
           /\ \A c \in Attribute(R, by, at) : c.by = by /\ c.at = at
           /\ Targets(Attribute(R, by, at)) \subseteq Names
           /\ \A c \in Attribute(R, by, at) : \E r \in R : c.want = r.want
BY DEF Attribute, Requirements, Constraints, Targets

\* ConstraintsAreCurrent constraint by constraint: each is declared by the machine
\* or contributed by the selection of a name.
CurrentOneByOne ==
    \A c : c \in constraints <=>
        \/ c \in Attribute(input.machine, Machine, None)
        \/ \E n \in Names : selected[n] # None /\ c \in Contribution(n, selected[n])

LEMMA CurrentElements == ConstraintsAreCurrent <=> CurrentOneByOne
<1> DEFINE All == Attribute(input.machine, Machine, None)
                  \union UNION {Contribution(n, selected[n]) :
                                  n \in {m \in Names : selected[m] # None}}
<1>1. ConstraintsAreCurrent <=> constraints = All
  BY DEF ConstraintsAreCurrent, Contribution
<1>2. \A c : c \in All <=>
            \/ c \in Attribute(input.machine, Machine, None)
            \/ \E n \in Names : selected[n] # None /\ c \in Contribution(n, selected[n])
  OBVIOUS
<1> HIDE DEF All
<1>3. constraints = All <=> \A c : c \in constraints <=> c \in All
  OBVIOUS
<1> QED  BY <1>1, <1>2, <1>3 DEF CurrentOneByOne

\* What a contribution looks like.
LEMMA Contributed ==
    ASSUME input \in Inputs, NEW n \in Names, NEW s \in Selections
    PROVE  /\ Contribution(n, s) \subseteq Constraints
           /\ \A c \in Contribution(n, s) : c.by = n /\ c.at = s.version
           /\ Targets(Contribution(n, s)) \subseteq Names
           /\ \A c \in Contribution(n, s) :
                \E r \in input.requires[n][s.commit] : c.want = r.want
<1>1. s.commit \in Commits /\ s.version \in Versions \union {None}  BY DEF Selections
<1> DEFINE R == input.requires[n][s.commit]
<1>2. R \in SUBSET Requirements  BY <1>1, InputFields
<1>3. n \in Names \union {Machine}  OBVIOUS
<1>4. Contribution(n, s) = Attribute(R, n, s.version)  BY DEF Contribution
<1> HIDE DEF R
<1>5. /\ Attribute(R, n, s.version) \subseteq Constraints
      /\ \A c \in Attribute(R, n, s.version) : c.by = n /\ c.at = s.version
      /\ Targets(Attribute(R, n, s.version)) \subseteq Names
      /\ \A c \in Attribute(R, n, s.version) : \E r \in R : c.want = r.want
  BY ONLY <1>1, <1>2, <1>3, Attributes
<1>6. /\ Contribution(n, s) \subseteq Constraints
      /\ \A c \in Contribution(n, s) : c.by = n /\ c.at = s.version
      /\ Targets(Contribution(n, s)) \subseteq Names
      /\ \A c \in Contribution(n, s) : \E r \in R : c.want = r.want
  BY ONLY <1>4, <1>5
<1> QED  BY <1>6 DEF R

\* What a re-selection drops is what the former selection contributed.
LEMMA DropsContribution ==
    ASSUME IInv, NEW n \in Names
    PROVE  Attributed(n) = IF selected[n] # None THEN Contribution(n, selected[n]) ELSE {}
<1>1. CASE selected[n] = None
  BY <1>1 DEF Attributed
<1>2. CASE selected[n] # None
  <2>1. selected[n] \in Selections  BY <1>2 DEF IInv, TypeOK
  <2>2. ASSUME NEW c \in Attributed(n) PROVE c \in Contribution(n, selected[n])
    <3>1. c \in constraints /\ c.by = n  BY <2>2 DEF Attributed
    <3>2. \/ c \in Attribute(input.machine, Machine, None)
          \/ \E m \in Names : selected[m] # None /\ c \in Contribution(m, selected[m])
      BY <3>1, CurrentElements DEF IInv, CurrentOneByOne
    <3>3. c \notin Attribute(input.machine, Machine, None)
      BY <3>1, Apart DEF Attribute
    <3>4. PICK m \in Names : selected[m] # None /\ c \in Contribution(m, selected[m])
      BY <3>2, <3>3
    <3>5. selected[m] \in Selections  BY <3>4 DEF IInv, TypeOK
    <3>6. c.by = m  BY <3>4, <3>5, Contributed DEF IInv
    <3> QED  BY <3>1, <3>4, <3>6
  <2>3. ASSUME NEW c \in Contribution(n, selected[n]) PROVE c \in Attributed(n)
    <3>1. c \in constraints  BY <1>2, <2>3, CurrentElements DEF IInv, CurrentOneByOne
    <3>2. c.by = n /\ c.at = selected[n].version  BY <2>1, <2>3, Contributed DEF IInv
    <3> QED  BY <1>2, <3>1, <3>2 DEF Attributed
  <2> QED  BY <1>2, <2>2, <2>3
<1> QED  BY <1>1, <1>2

--------------------------------------------------------------------------------
\* The invariant holds at the start.
LEMMA InitInv == Init => IInv
<1> SUFFICES ASSUME Init PROVE IInv  OBVIOUS
<1>1. input \in Inputs  BY DEF Init
<1>2. input.machine \in SUBSET Requirements  BY <1>1, InputFields
<1>3. /\ constraints \subseteq Constraints
      /\ Targets(constraints) \subseteq Names
  BY <1>2, Attributes DEF Init
<1>4. TypeOK  BY <1>3 DEF Init, TypeOK
<1>5. ConstraintsAreCurrent  BY CurrentElements DEF Init, CurrentOneByOne
<1>6. AllSettled  BY DEF Init, AllSettled, Settled, Required, Targets
<1>7. AtCeiling /\ Checked  BY DEF Init, AtCeiling, Checked
<1> QED  BY <1>1, <1>4, <1>5, <1>6, <1>7 DEF IInv

\* A name that is not looked at again has the constraints it had.
LEMMA Untouched ==
    ASSUME IInv, NEW n \in Names, NEW added, NEW m \in Names,
           constraints' = (constraints \ Attributed(n)) \union added,
           pending' = Later(n, Attributed(n), added), m \notin pending'
    PROVE  /\ \A c : c.on = m => (c \in constraints' <=> c \in constraints)
           /\ m # n => m \notin pending
<1>1. m \notin Targets(Attributed(n)) /\ m \notin Targets(added)  BY DEF Later
<1>2. \A c : c.on = m => c \notin Attributed(n) /\ c \notin added
  BY <1>1 DEF Targets
<1>3. m # n => m \notin pending  BY DEF Later
<1> QED  BY <1>2, <1>3

\* So it stays settled, when its selection is the same.
LEMMA StaysSettled ==
    ASSUME IInv, NEW m \in Names, m \notin pending, selected'[m] = selected[m],
           \A c : c.on = m => (c \in constraints' <=> c \in constraints)
    PROVE  Settled(m)'
<1>1. Settled(m)  BY DEF IInv, AllSettled
<1>2. Required(m)' <=> Required(m)  BY DEF Required
<1>3. Overlaid(m)' <=> Overlaid(m)  BY DEF Overlaid, Formed, On
<1> QED  BY <1>1, <1>2, <1>3 DEF Settled, Answers

\* A name takes a selection and contributes its requirements, or none and nothing:
\* the constraints stay those of the present selections.
LEMMA Replaced ==
    ASSUME IInv, NEW n \in Names, NEW t \in Selections \union {None}, NEW added,
           added = IF t # None THEN Contribution(n, t) ELSE {},
           constraints' = (constraints \ Attributed(n)) \union added,
           selected' = [selected EXCEPT ![n] = t], input' = input
    PROVE  ConstraintsAreCurrent'
<1> DEFINE Seeds == Attribute(input.machine, Machine, None)
<1> DEFINE Held(m, c) == selected[m] # None /\ c \in Contribution(m, selected[m])
<1> DEFINE Holds(m, c) == selected'[m] # None /\ c \in Contribution(m, selected'[m])
<1>1. \A c : c \in constraints <=> c \in Seeds \/ \E m \in Names : Held(m, c)
  BY CurrentElements DEF IInv, CurrentOneByOne
<1>2. \A c : c \in Attributed(n) <=> Held(n, c)
  BY DropsContribution
<1>3. \A c : c \in added <=> Holds(n, c)
  <2>1. selected'[n] = t  BY DEF IInv, TypeOK
  <2> QED  BY <2>1
<1>4. \A m \in Names : m # n => \A c : Holds(m, c) <=> Held(m, c)
  BY DEF IInv, TypeOK
<1>5. \A c : c \in Seeds => ~Held(n, c)
  <2>1. selected[n] # None => selected[n] \in Selections  BY DEF IInv, TypeOK
  <2>2. \A c : Held(n, c) => c.by = n  BY <2>1, Contributed DEF IInv
  <2>3. \A c \in Seeds : c.by = Machine  BY DEF Attribute
  <2> QED  BY <2>2, <2>3, Apart
<1>6. \A m \in Names : m # n => \A c : Held(m, c) => ~Held(n, c)
  <2> SUFFICES ASSUME NEW m \in Names, m # n, NEW c, Held(m, c), Held(n, c) PROVE FALSE
    OBVIOUS
  <2>1. selected[m] \in Selections /\ selected[n] \in Selections  BY DEF IInv, TypeOK
  <2>2. c.by = m /\ c.by = n  BY <2>1, Contributed DEF IInv
  <2> QED  BY <2>2
<1>7. \A c : Contribution(n, c)' = Contribution(n, c) /\ Seeds' = Seeds
  BY DEF Contribution, Attribute
<1>8. \A c : c \in constraints' <=> c \in Seeds \/ \E m \in Names : Holds(m, c)
  <2> HIDE DEF Seeds, Held, Holds
  <2> QED  BY <1>1, <1>2, <1>3, <1>4, <1>5, <1>6
<1>9. CurrentOneByOne'
  BY <1>8 DEF CurrentOneByOne, Contribution, Attribute
<1> QED  BY <1>9, CurrentElements, PTL

--------------------------------------------------------------------------------
Diagnostics == {"profile_source_invalid", "context_range_conflict",
                "context_manifest_invalid", "context_version_mismatch"}

\* A diagnostic ends the loop and changes nothing else.
LEMMA RaiseInv ==
    ASSUME IInv, NEW d \in Diagnostics, Raise(d)
    PROVE  IInv'
<1>1. UNCHANGED <<input, constraints, selected, ceiling, pending>> /\ outcome' = d
  BY DEF Raise
<1>2. input' \in Inputs /\ TypeOK'  BY <1>1 DEF IInv, TypeOK, Diagnostics
<1>3. CurrentOneByOne' <=> CurrentOneByOne
  BY <1>1 DEF CurrentOneByOne, Contribution, Attribute
<1>4. ConstraintsAreCurrent'  BY <1>3, CurrentElements, PTL DEF IInv
<1>5. AllSettled'
  <2> SUFFICES ASSUME NEW m \in Names, m \notin pending' PROVE Settled(m)'
    BY DEF AllSettled
  <2> QED  BY <1>1, StaysSettled
<1>6. AtCeiling'  BY <1>1 DEF IInv, AtCeiling, RangesOnly, RangeForms
<1>7. Checked'  BY <1>1 DEF Checked, Diagnostics
<1> QED  BY <1>2, <1>4, <1>5, <1>6, <1>7 DEF IInv

\* The same commit again: the name is settled as it was, its exact forms answered.
LEMMA KeepInv ==
    ASSUME IInv, outcome = "resolving", NEW n \in Names, NEW s \in Selections,
           Required(n), Answers(n, s.commit), Keep(n, s)
    PROVE  IInv'
<1>1. /\ UNCHANGED <<input, constraints, selected, ceiling, outcome>>
      /\ pending' = pending \ {n} /\ selected[n] # None /\ selected[n].commit = s.commit
  BY DEF Keep
<1>2. input' \in Inputs /\ TypeOK'  BY <1>1 DEF IInv, TypeOK
<1>3. CurrentOneByOne' <=> CurrentOneByOne
  BY <1>1 DEF CurrentOneByOne, Contribution, Attribute
<1>4. ConstraintsAreCurrent'  BY <1>3, CurrentElements, PTL DEF IInv
<1>5. AllSettled'
  <2> SUFFICES ASSUME NEW m \in Names, m \notin pending' PROVE Settled(m)'
    BY DEF AllSettled
  <2>1. CASE m = n
    <3>1. Settled(n)  BY <1>1 DEF Settled
    <3>2. Settled(n)' <=> Settled(n)
      BY <1>1 DEF Settled, Required, Answers, Overlaid, Formed, On
    <3> QED  BY <2>1, <3>1, <3>2
  <2>2. CASE m # n
    <3>1. m \notin pending  BY <1>1, <2>2
    <3> QED  BY <1>1, <3>1, StaysSettled
  <2> QED  BY <2>1, <2>2
<1>6. AtCeiling'  BY <1>1 DEF IInv, AtCeiling, RangesOnly, RangeForms
<1>7. Checked'  BY <1>1 DEF Checked
<1> QED  BY <1>2, <1>4, <1>5, <1>6, <1>7 DEF IInv

\* Another commit: the name's own constraints are untouched unless it is pending
\* again, and everything the change reaches is.
LEMMA ReselectInv ==
    ASSUME IInv, outcome = "resolving", NEW n \in Names, NEW s \in Selections,
           Required(n), Answers(n, s.commit), RangesOnly => s.version # None,
           Reselect(n, s)
    PROVE  IInv'
<1> DEFINE added == Contribution(n, s)
<1>1. /\ constraints' = (constraints \ Attributed(n)) \union added
      /\ pending' = Later(n, Attributed(n), added)
      /\ selected' = [selected EXCEPT ![n] = s]
      /\ ceiling' = IF s.version = None THEN ceiling ELSE [ceiling EXCEPT ![n] = s.version]
      /\ input' = input /\ outcome' = outcome
  BY DEF Reselect, Contribution
<1>2. s \notin {None} /\ s.version \in Versions \union {None}  BY Apart DEF Selections
<1>3. added \subseteq Constraints /\ Targets(added) \subseteq Names
  BY Contributed DEF IInv
<1>4. Targets(Attributed(n)) \subseteq Names
  BY DEF IInv, TypeOK, Attributed, Targets, Constraints
<1> HIDE DEF added
<1>5. input' \in Inputs /\ TypeOK'
  <2>1. constraints' \subseteq Constraints  BY <1>1, <1>3 DEF IInv, TypeOK
  <2>2. pending' \subseteq Names  BY <1>1, <1>3, <1>4 DEF IInv, TypeOK, Later
  <2>3. selected' \in [Names -> Selections \union {None}]  BY <1>1 DEF IInv, TypeOK
  <2>4. ceiling' \in [Names -> Versions \union {None}]  BY <1>1, <1>2 DEF IInv, TypeOK
  <2> QED  BY <1>1, <2>1, <2>2, <2>3, <2>4 DEF IInv, TypeOK
<1>6. ConstraintsAreCurrent'
  <2>1. added = IF s # None THEN Contribution(n, s) ELSE {}  BY <1>2 DEF added
  <2> QED  BY <1>1, <2>1, Replaced
<1>7. AllSettled'
  <2> SUFFICES ASSUME NEW m \in Names, m \notin pending' PROVE Settled(m)'
    BY DEF AllSettled
  <2>1. /\ \A c : c.on = m => (c \in constraints' <=> c \in constraints)
        /\ m # n => m \notin pending
    BY <1>1, Untouched
  <2>2. CASE m = n
    <3>1. selected'[n] = s  BY <1>1 DEF IInv, TypeOK
    <3>2. Required(n)' <=> Required(n)  BY <2>1, <2>2 DEF Required
    <3>3. Overlaid(n)' <=> Overlaid(n)  BY <2>1, <2>2 DEF Overlaid, Formed, On
    <3> QED  BY <1>2, <2>1, <2>2, <3>1, <3>2, <3>3 DEF Settled, Answers
  <2>3. CASE m # n
    <3>1. selected'[m] = selected[m]  BY <1>1, <2>3 DEF IInv, TypeOK
    <3> QED  BY <2>1, <2>3, <3>1, StaysSettled
  <2> QED  BY <2>2, <2>3
<1>8. AtCeiling'
  <2> SUFFICES ASSUME RangesOnly, NEW m \in Names, selected'[m] # None
               PROVE  selected'[m].version = ceiling'[m]
    BY <1>1 DEF AtCeiling, RangesOnly, RangeForms
  <2>1. ceiling' = [ceiling EXCEPT ![n] = s.version]  BY <1>1
  <2>2. CASE m = n
    BY <1>1, <2>1, <2>2 DEF IInv, TypeOK
  <2>3. CASE m # n
    <3>1. selected'[m] = selected[m] /\ ceiling'[m] = ceiling[m]
      BY <1>1, <2>1, <2>3 DEF IInv, TypeOK
    <3> QED  BY <3>1 DEF IInv, AtCeiling
  <2> QED  BY <2>2, <2>3
<1>9. Checked'  BY <1>1 DEF Checked
<1> QED  BY <1>5, <1>6, <1>7, <1>8, <1>9 DEF IInv

\* Nobody requires the name: it is settled without a selection.
LEMMA LeaveInv ==
    ASSUME IInv, outcome = "resolving", NEW n \in Names, Leave(n)
    PROVE  IInv'
<1>1. /\ constraints' = (constraints \ Attributed(n)) \union {}
      /\ pending' = Later(n, Attributed(n), {})
      /\ selected' = [selected EXCEPT ![n] = None]
      /\ ceiling' = ceiling /\ input' = input /\ outcome' = outcome /\ ~Required(n)
  BY DEF Leave, Required, On
<1>2. Targets(Attributed(n)) \subseteq Names
  BY DEF IInv, TypeOK, Attributed, Targets, Constraints
<1>3. input' \in Inputs /\ TypeOK'
  <2>1. pending' \subseteq Names  BY <1>1, <1>2 DEF IInv, TypeOK, Later, Targets
  <2> QED  BY <1>1, <2>1 DEF IInv, TypeOK
<1>4. ConstraintsAreCurrent'
  <2> DEFINE t == None
  <2>1. {} = IF t # None THEN Contribution(n, t) ELSE {}  OBVIOUS
  <2> QED  BY <1>1, <2>1, Replaced
<1>5. AllSettled'
  <2> SUFFICES ASSUME NEW m \in Names, m \notin pending' PROVE Settled(m)'
    BY DEF AllSettled
  <2>1. /\ \A c : c.on = m => (c \in constraints' <=> c \in constraints)
        /\ m # n => m \notin pending
    BY <1>1, Untouched
  <2>2. CASE m = n
    <3>1. selected'[n] = None  BY <1>1 DEF IInv, TypeOK
    <3>2. ~Required(n)'  BY <1>1, <2>1, <2>2 DEF Required
    <3> QED  BY <2>2, <3>1, <3>2 DEF Settled
  <2>3. CASE m # n
    <3>1. selected'[m] = selected[m]  BY <1>1, <2>3 DEF IInv, TypeOK
    <3> QED  BY <2>1, <2>3, <3>1, StaysSettled
  <2> QED  BY <2>2, <2>3
<1>6. AtCeiling'
  <2> SUFFICES ASSUME RangesOnly, NEW m \in Names, selected'[m] # None
               PROVE  selected'[m].version = ceiling'[m]
    BY <1>1 DEF AtCeiling, RangesOnly, RangeForms
  <2>1. selected'[m] = selected[m]  BY <1>1 DEF IInv, TypeOK
  <2> QED  BY <1>1, <2>1 DEF IInv, AtCeiling
<1>7. Checked'  BY <1>1 DEF Checked
<1> QED  BY <1>3, <1>4, <1>5, <1>6, <1>7 DEF IInv

\* The final check.
LEMMA CheckInv ==
    ASSUME IInv, Check
    PROVE  IInv'
<1>1. /\ UNCHANGED <<input, constraints, selected, ceiling, pending>> /\ pending = {}
      /\ outcome' = IF \A c \in constraints : Satisfied(c) THEN "locked"
                    ELSE "context_range_conflict"
  BY DEF Check
<1>2. input' \in Inputs /\ TypeOK'  BY <1>1 DEF IInv, TypeOK
<1>3. CurrentOneByOne' <=> CurrentOneByOne
  BY <1>1 DEF CurrentOneByOne, Contribution, Attribute
<1>4. ConstraintsAreCurrent'  BY <1>3, CurrentElements, PTL DEF IInv
<1>5. AllSettled'
  <2> SUFFICES ASSUME NEW m \in Names, m \notin pending' PROVE Settled(m)'
    BY DEF AllSettled
  <2> QED  BY <1>1, StaysSettled
<1>6. AtCeiling'  BY <1>1 DEF IInv, AtCeiling, RangesOnly, RangeForms
<1>7. Checked'  BY <1>1 DEF Checked, Satisfied
<1> QED  BY <1>2, <1>4, <1>5, <1>6, <1>7 DEF IInv

--------------------------------------------------------------------------------
LEMMA SettleInv ==
    ASSUME IInv, outcome = "resolving", NEW n \in Names, NEW s \in Selections,
           Required(n), Answers(n, s.commit), RangesOnly => s.version # None, Settle(n, s)
    PROVE  IInv'
BY KeepInv, ReselectInv DEF Settle

\* Where only ranges are used, every constraint is one.
LEMMA Ranged ==
    ASSUME IInv, RangesOnly
    PROVE  \A c \in constraints : c.want.form \in {"range", "unreadable"}
<1> SUFFICES ASSUME NEW c \in constraints PROVE c.want.form \in {"range", "unreadable"}
  OBVIOUS
<1>1. \/ c \in Attribute(input.machine, Machine, None)
      \/ \E n \in Names : selected[n] # None /\ c \in Contribution(n, selected[n])
  BY CurrentElements DEF IInv, CurrentOneByOne
<1>2. CASE c \in Attribute(input.machine, Machine, None)
  BY <1>2 DEF RangesOnly, RangeForms, Attribute
<1>3. CASE \E n \in Names : selected[n] # None /\ c \in Contribution(n, selected[n])
  <2>1. PICK n \in Names : selected[n] # None /\ c \in Contribution(n, selected[n])
    BY <1>3
  <2>2. selected[n] \in Selections  BY <2>1 DEF IInv, TypeOK
  <2>3. PICK r \in input.requires[n][selected[n].commit] : c.want = r.want
    BY <2>1, <2>2, Contributed DEF IInv
  <2>4. selected[n].commit \in Commits  BY <2>2 DEF Selections
  <2> QED  BY <2>3, <2>4 DEF RangesOnly, RangeForms
<1> QED  BY <1>1, <1>2, <1>3

LEMMA RefuseSourceInv ==
    ASSUME IInv, NEW n \in Names, RefuseSource(n) PROVE IInv'
BY RaiseInv DEF RefuseSource, Diagnostics

\* An overlay answers every form on its name.
LEMMA TakeTreeInv ==
    ASSUME IInv, outcome = "resolving", NEW n \in Names, TakeTree(n)
    PROVE  IInv'
<1> DEFINE s == [commit |-> Tree, version |-> input.stated[n][Tree]]
<1>1. Overlaid(n) /\ Settle(n, s)  BY DEF TakeTree
<1>2. input.stated[n][Tree] \in Versions \union {None}
  BY InputFields, InputsAreInstallations DEF IInv
<1>3. s \in Selections  BY <1>2, InputsAreInstallations DEF Selections
<1>4. Required(n) /\ Answers(n, s.commit)
  BY <1>1 DEF Required, Answers, Overlaid, Formed, On
<1>5. ~RangesOnly  BY <1>1, Ranged DEF Overlaid, Formed, On
<1> HIDE DEF s
<1> QED  BY <1>1, <1>3, <1>4, <1>5, SettleInv

\* The one commit that is fixed answers the exact forms.
LEMMA TakeExactInv ==
    ASSUME IInv, outcome = "resolving", NEW n \in Names, TakeExact(n)
    PROVE  IInv'
<1>1. Fixed(n) # {}  BY DEF TakeExact
<1>2. CASE Raise("context_range_conflict") \/ Raise("context_manifest_invalid")
  BY <1>2, RaiseInv DEF Diagnostics
<1>3. CASE \E c \in Fixed(n), v \in Versions \union {None} :
             Fixed(n) = {c} /\ Settle(n, [commit |-> c, version |-> v])
  <2>1. PICK c \in Fixed(n), v \in Versions \union {None} :
          Fixed(n) = {c} /\ Settle(n, [commit |-> c, version |-> v])
    BY <1>3
  <2> DEFINE s == [commit |-> c, version |-> v]
  <2>2. PICK d \in constraints : d.on = n /\ d.want.form = "exact" /\ d.want.commit = c
    BY <2>1 DEF Fixed, Formed, On
  <2>3. d.want \in Wants  BY DEF IInv, TypeOK, Constraints
  <2>4. c \in Commits  BY <2>2, <2>3 DEF Wants
  <2>5. s \in Selections  BY <2>4 DEF Selections
  <2>6. ASSUME NEW e \in constraints, e.on = n, e.want.form = "exact" PROVE e.want.commit = c
    <3>1. e.want.commit \in Fixed(n)  BY ONLY <2>6 DEF Fixed, Formed, On
    <3> QED  BY ONLY <2>1, <3>1
  <2>7. Required(n) /\ Answers(n, s.commit)  BY <2>2, <2>6 DEF Required, Answers
  <2>8. ~RangesOnly  BY <2>2, Ranged
  <2>9. Settle(n, s)  BY <2>1
  <2> HIDE DEF s
  <2> QED  BY <2>5, <2>7, <2>8, <2>9, SettleInv
<1>4. \/ Raise("context_range_conflict") \/ Raise("context_manifest_invalid")
      \/ \E c \in Fixed(n), v \in Versions \union {None} :
             Fixed(n) = {c} /\ Settle(n, [commit |-> c, version |-> v])
  BY ONLY TakeExact(n), Zenon DEF TakeExact
<1> QED  BY <1>2, <1>3, <1>4, Zenon

\* The highest version a range step can take is not above the ceiling.
LEMMA HighestStep ==
    ASSUME IInv, NEW n \in Names, TakeHighest(n)
    PROVE  \/ \E d \in Diagnostics : Raise(d)
           \/ \E v \in Versions, c \in Commits :
                /\ ceiling[n] # None => v =< ceiling[n]
                /\ Settle(n, [commit |-> c, version |-> v])
<1>1. CASE Raise("context_range_conflict") \/ Raise("context_version_mismatch")
  BY <1>1 DEF Diagnostics
<1>2. CASE \E v \in Allowed(n) : Settle(n, [commit |-> input.tags[n][v], version |-> v])
  <2>1. PICK v \in Allowed(n) : Settle(n, [commit |-> input.tags[n][v], version |-> v])
    BY <1>2
  <2>2. /\ v \in Versions /\ input.tags[n][v] # None
        /\ ceiling[n] # None => v =< ceiling[n]
    BY DEF Allowed
  <2>3. input.tags[n][v] \in Commits  BY <2>2, InputFields DEF IInv
  <2> QED  BY <2>1, <2>2, <2>3
<1>3. \/ Raise("context_range_conflict") \/ Raise("context_version_mismatch")
      \/ \E v \in Allowed(n) : Settle(n, [commit |-> input.tags[n][v], version |-> v])
  BY DEF TakeHighest
<1> QED  BY <1>1, <1>2, <1>3

LEMMA TakeHighestInv ==
    ASSUME IInv, outcome = "resolving", NEW n \in Names, TakeHighest(n)
    PROVE  IInv'
<1>1. CASE \E d \in Diagnostics : Raise(d)
  BY <1>1, RaiseInv
<1>2. CASE \E v \in Versions, c \in Commits : Settle(n, [commit |-> c, version |-> v])
  <2>1. PICK v \in Versions, c \in Commits : Settle(n, [commit |-> c, version |-> v])
    BY <1>2
  <2> DEFINE s == [commit |-> c, version |-> v]
  <2>2. s \in Selections  BY DEF Selections
  <2>3. s.version # None  BY Apart
  <2>4. Settle(n, s)  BY <2>1
  <2>5. Fixed(n) = {} /\ On(n) # {}  BY DEF TakeHighest
  <2>6. Required(n)  BY <2>5 DEF Required, On
  <2>7. \A e \in constraints : ~(e.on = n /\ e.want.form = "exact")
    BY ONLY <2>5 DEF Fixed, Formed, On
  <2>8. Answers(n, s.commit)  BY <2>7 DEF Answers
  <2> HIDE DEF s
  <2> QED  BY <2>2, <2>3, <2>4, <2>6, <2>8, SettleInv
<1> QED  BY <1>1, <1>2, HighestStep

LEMMA NextInv == IInv /\ [Next]_vars => IInv'
<1> SUFFICES ASSUME IInv, [Next]_vars PROVE IInv'  OBVIOUS
<1>1. ASSUME Next, NEW n \in Names,
             Leave(n) \/ RefuseSource(n) \/ TakeTree(n) \/ TakeExact(n) \/ TakeHighest(n)
      PROVE  IInv'
  <2>1. outcome = "resolving"  BY <1>1 DEF Next
  <2>2. CASE Leave(n)  BY <2>1, <2>2, LeaveInv
  <2>3. CASE RefuseSource(n)  BY <2>3, RefuseSourceInv
  <2>4. CASE TakeTree(n)  BY <2>1, <2>4, TakeTreeInv
  <2>5. CASE TakeExact(n)  BY <2>1, <2>5, TakeExactInv
  <2>6. CASE TakeHighest(n)  BY <2>1, <2>6, TakeHighestInv
  <2> QED  BY <1>1, <2>2, <2>3, <2>4, <2>5, <2>6
<1>2. CASE Next /\ Check  BY <1>2, CheckInv
<1>3. CASE UNCHANGED vars
  <2>1. UNCHANGED <<input, constraints, selected, ceiling, pending, outcome>>
    BY <1>3 DEF vars
  <2>2. input' \in Inputs /\ TypeOK'  BY <2>1 DEF IInv, TypeOK
  <2>3. CurrentOneByOne' <=> CurrentOneByOne
    BY <2>1 DEF CurrentOneByOne, Contribution, Attribute
  <2>4. ConstraintsAreCurrent'  BY <2>3, CurrentElements, PTL DEF IInv
  <2>5. AllSettled'
    <3> SUFFICES ASSUME NEW m \in Names, m \notin pending' PROVE Settled(m)'
      BY DEF AllSettled
    <3> QED  BY <2>1, StaysSettled
  <2>6. AtCeiling'  BY <2>1 DEF IInv, AtCeiling, RangesOnly, RangeForms
  <2>7. Checked'  BY <2>1 DEF IInv, Checked, Satisfied
  <2> QED  BY <2>2, <2>4, <2>5, <2>6, <2>7 DEF IInv
<1> QED  BY <1>1, <1>2, <1>3 DEF Next

LEMMA Invariant == Spec => []IInv
BY InitInv, NextInv, PTL DEF Spec

--------------------------------------------------------------------------------
\* The variables have their types in every reachable state of resolve_closure.
THEOREM TypeCorrect == Spec => []TypeOK
BY Invariant, PTL DEF IInv

\* Re-selection drops and adds exactly what it must.
THEOREM CurrentSafety == Spec => []ConstraintsAreCurrent
BY Invariant, PTL DEF IInv

\* A lock serves every range and, without being checked for it, every exact form.
THEOREM ServiceSafety == Spec => []LockServesRequirers
<1>1. IInv => LockServesRequirers
  <2> SUFFICES ASSUME IInv, outcome = "locked", NEW c \in constraints
               PROVE  /\ selected[c.on] # None
                      /\ c.want.form = "range" => selected[c.on].version \in c.want.admits
                      /\ c.want.form = "exact" /\ ~Overlaid(c.on) =>
                            selected[c.on].commit = c.want.commit
    BY DEF LockServesRequirers
  <2>1. Satisfied(c) /\ pending = {}  BY DEF IInv, Checked
  <2>2. c.on \in Names  BY DEF IInv, TypeOK, Constraints
  <2>3. Settled(c.on)  BY <2>1, <2>2 DEF IInv, AllSettled
  <2>4. selected[c.on] # None /\ Answers(c.on, selected[c.on].commit)
    BY <2>1, <2>3 DEF Satisfied, Settled
  <2> QED  BY <2>1, <2>4 DEF Satisfied, Answers
<1> QED  BY <1>1, Invariant, PTL

\* The members of a lock are the names that are required.
THEOREM ClosureSafety == Spec => []LockIsRequired
<1>1. IInv => LockIsRequired
  <2> SUFFICES ASSUME IInv, outcome = "locked"
               PROVE  {n \in Names : selected[n] # None} = Targets(constraints)
    BY DEF LockIsRequired
  <2>1. \A n \in Names : selected[n] # None <=> Required(n)
    BY DEF IInv, Checked, AllSettled, Settled
  <2>2. \A c \in constraints : c.on \in Names  BY DEF IInv, TypeOK, Constraints
  <2> QED  BY <2>1, <2>2 DEF Required, Targets
<1> QED  BY <1>1, Invariant, PTL

\* No step changes the installation.
LEMMA SettleKeepsInput ==
    ASSUME NEW n, NEW s, Settle(n, s) PROVE input' = input
<1>1. CASE Keep(n, s)  BY <1>1 DEF Keep
<1>2. CASE Reselect(n, s)  BY <1>2 DEF Reselect
<1> QED  BY <1>1, <1>2 DEF Settle

LEMMA InputStays ==
    ASSUME [Next]_vars PROVE input' = input
<1>1. CASE UNCHANGED vars  BY <1>1 DEF vars
<1>2. CASE Check  BY <1>2 DEF Check
<1>3. ASSUME NEW d, Raise(d) PROVE input' = input  BY <1>3 DEF Raise
<1>4. ASSUME NEW n \in Names, Leave(n) PROVE input' = input  BY <1>4 DEF Leave
<1>5. ASSUME NEW n \in Names, RefuseSource(n) PROVE input' = input
  BY <1>3, <1>5 DEF RefuseSource
<1>6. ASSUME NEW n \in Names, TakeTree(n) PROVE input' = input
  <2>1. \E s : Settle(n, s)  BY <1>6 DEF TakeTree
  <2> QED  BY <2>1, SettleKeepsInput
<1>7. ASSUME NEW n \in Names, TakeExact(n) PROVE input' = input
  <2>1. (\E d : Raise(d)) \/ \E s : Settle(n, s)  BY <1>7 DEF TakeExact
  <2> QED  BY <1>3, <2>1, SettleKeepsInput
<1>8. ASSUME NEW n \in Names, TakeHighest(n) PROVE input' = input
  <2>1. (\E d : Raise(d)) \/ \E s : Settle(n, s)  BY <1>8 DEF TakeHighest
  <2> QED  BY <1>3, <2>1, SettleKeepsInput
<1>9. \/ UNCHANGED vars \/ Check
      \/ \E n \in Names : \/ Leave(n) \/ RefuseSource(n) \/ TakeTree(n)
                         \/ TakeExact(n) \/ TakeHighest(n)
  BY DEF Next
<1> QED  BY <1>1, <1>2, <1>4, <1>5, <1>6, <1>7, <1>8, <1>9

\* Where every requirement is a range no step selects above an earlier selection.
LEMMA FallingStep ==
    ASSUME IInv, IInv', [Next]_vars, RangesOnly, NEW m \in Names
    PROVE  /\ ceiling[m] # None => ceiling'[m] # None /\ ceiling'[m] =< ceiling[m]
           /\ selected'[m] # None => selected'[m].version = ceiling'[m]
<1>1. input' = input
  BY InputStays
<1>2. selected'[m] # None => selected'[m].version = ceiling'[m]
  BY <1>1 DEF IInv, AtCeiling, RangesOnly, RangeForms
<1>3. ceiling[m] # None => ceiling[m] =< ceiling[m]
  <2>1. ceiling[m] \in Versions \union {None}  BY DEF IInv, TypeOK
  <2>2. ceiling[m] # None => ceiling[m] \in Nat  BY <2>1, Ranked
  <2>3. \A x \in Nat : x =< x  OBVIOUS
  <2> QED  BY <2>2, <2>3
<1>4. CASE ceiling' = ceiling
  BY <1>2, <1>3, <1>4
<1>5. CASE ceiling' # ceiling
  <2>1. PICK n \in Names : TakeTree(n) \/ TakeExact(n) \/ TakeHighest(n)
    <3>1. ~UNCHANGED vars  BY <1>5 DEF vars
    <3>2. ~Check  BY <1>5 DEF Check
    <3>3. \A n \in Names : ~Leave(n)  BY <1>5 DEF Leave
    <3>4. \A n \in Names : ~RefuseSource(n)  BY <1>5 DEF RefuseSource, Raise
    <3> QED  BY <3>1, <3>2, <3>3, <3>4 DEF Next
  <2>2. ~TakeTree(n)  BY Ranged DEF TakeTree, Overlaid, Formed, On
  <2>3. ~TakeExact(n)  BY Ranged DEF TakeExact, Fixed, Formed, On
  <2>4. PICK v \in Versions, c \in Commits :
          /\ ceiling[n] # None => v =< ceiling[n]
          /\ Settle(n, [commit |-> c, version |-> v])
    BY <1>5, <2>1, <2>2, <2>3, HighestStep DEF Raise
  <2>5. ceiling' = [ceiling EXCEPT ![n] = v]
    BY <1>5, <2>4, Apart DEF Settle, Keep, Reselect
  <2>6. CASE m = n
    <3>1. ceiling'[m] = v  BY <2>5, <2>6 DEF IInv, TypeOK
    <3> QED  BY <1>2, <2>4, <2>6, <3>1, Apart
  <2>7. CASE m # n
    <3>1. ceiling'[m] = ceiling[m]  BY <2>5, <2>7 DEF IInv, TypeOK
    <3> QED  BY <1>2, <1>3, <3>1
  <2> QED  BY <2>6, <2>7
<1> QED  BY <1>4, <1>5

\* Where every requirement is a range, selections only fall.
THEOREM FallingSafety == Spec => SelectionsOnlyFall
<1>1. IInv /\ IInv' /\ [Next]_vars =>
        [RangesOnly =>
          \A n \in Names :
            /\ ceiling[n] # None => ceiling'[n] # None /\ ceiling'[n] =< ceiling[n]
            /\ selected'[n] # None => selected'[n].version = ceiling'[n]]_vars
  BY FallingStep
<1> QED  BY <1>1, Invariant, PTL DEF SelectionsOnlyFall, Spec

--------------------------------------------------------------------------------
\* The weighing is beside the loop: whatever holds of the loop holds with it.
LEMMA WeighedStep == [WeighedNext]_<<vars, weighing>> => [Next]_vars
BY DEF WeighedNext, Resolve, Weigh

\* What the code weighs is what its loop computed.
THEOREM WeighingRefinesLoop == WeighedSpec => Spec
<1>1. WeighedInit => Init  BY DEF WeighedInit
<1> QED  BY <1>1, WeighedStep, PTL DEF WeighedSpec, Spec

\* NoneOverruledUnseen for given weights and warnings.
NoneOverruled(d, w, x) ==
    \A n \in Members : IsContext(n) =>
        /\ \A c \in Edges(d, n) :
            EdgeWeight(d, c) # w[n] => IsOverlay(n) \/ RootSays(d, n) # {}
        /\ \A c, e \in Edges(d, n) :
            EdgeWeight(d, c) # EdgeWeight(d, e) => n \in x /\ RootSays(d, n) # {}

\* A declaration that passes contradicts itself only where the root settles it.
LEMMA PassesSettled ==
    ASSUME NEW d, Verdict(d) = "weighed", NEW n \in Members, IsContext(n), Disagree(d, n)
    PROVE  RootSays(d, n) # {}
<1>1. (\E m \in Members : IsContext(m) /\ Disagree(d, m) /\ RootSays(d, m) = {}) =>
        Verdict(d) \in {"context_weights_not_root", "context_weights_duplicate",
                       "context_weight_unknown", "context_weight_conflict"}
  <2> DEFINE A == \E m \in Members \ {Root} : IsContext(m) /\ Mapped(d, m) # {}
             B == \E m \in Mapped(d, Root) : RootEdges(d, m) # {}
             C == \E m \in Mapped(d, Root) : m \notin Members \/ ~IsContext(m)
             D == \E m \in Members : IsContext(m) /\ Disagree(d, m) /\ RootSays(d, m) = {}
  <2>1. Verdict(d) = CASE A -> "context_weights_not_root" [] B -> "context_weights_duplicate"
                       [] C -> "context_weight_unknown" [] D -> "context_weight_conflict"
                       [] OTHER -> "weighed"
    BY DEF Verdict
  <2> HIDE DEF A, B, C, D
  <2>2. D => Verdict(d) \in {"context_weights_not_root", "context_weights_duplicate",
                            "context_weight_unknown", "context_weight_conflict"}
    BY ONLY <2>1
  <2> QED  BY <2>2 DEF D
<1> QED  BY <1>1

\* Where the machine and the root are silent, the weight is one every requirer gives.
LEMMA RequirersWeigh ==
    ASSUME NEW d, NEW n \in Members, IsContext(n), ~IsOverlay(n), RootSays(d, n) = {},
           ~Disagree(d, n), NEW c \in Edges(d, n)
    PROVE  Effective(d, n) = EdgeWeight(d, c)
<1> DEFINE given == {EdgeWeight(d, e) : e \in Edges(d, n)}
<1>1. Edges(d, n) # {}  OBVIOUS
<1>2. Effective(d, n) = CHOOSE w \in given : TRUE
  BY <1>1, Zenon DEF Effective
<1>3. \E w \in given : TRUE  OBVIOUS
<1>4. \A w \in given : w = EdgeWeight(d, c)  BY DEF Disagree
<1> HIDE DEF given
<1>5. (CHOOSE w \in given : TRUE) \in given  BY <1>3
<1> QED  BY <1>2, <1>4, <1>5

LEMMA WeighsSeen ==
    ASSUME NEW d, Verdict(d) = "weighed", NEW w, NEW x,
           \A n \in Members : w[n] = Effective(d, n),
           x = {n \in Members : IsContext(n) /\ Disagree(d, n)}
    PROVE  NoneOverruled(d, w, x)
<1> SUFFICES ASSUME NEW n \in Members, IsContext(n)
             PROVE  /\ \A c \in Edges(d, n) :
                        EdgeWeight(d, c) # w[n] => IsOverlay(n) \/ RootSays(d, n) # {}
                    /\ \A c, e \in Edges(d, n) :
                        EdgeWeight(d, c) # EdgeWeight(d, e) => n \in x /\ RootSays(d, n) # {}
  BY DEF NoneOverruled
<1>1. Disagree(d, n) => RootSays(d, n) # {} /\ n \in x  BY PassesSettled
<1>2. ASSUME NEW c \in Edges(d, n), EdgeWeight(d, c) # w[n]
      PROVE  IsOverlay(n) \/ RootSays(d, n) # {}
  BY <1>1, <1>2, RequirersWeigh
<1>3. ASSUME NEW c \in Edges(d, n), NEW e \in Edges(d, n), EdgeWeight(d, c) # EdgeWeight(d, e)
      PROVE  Disagree(d, n)
  BY <1>3 DEF Disagree
<1> QED  BY <1>1, <1>2, <1>3

\* The closure does not change under a weighing, so neither does what it says.
LEMMA SameClosure ==
    ASSUME UNCHANGED vars, NEW d, NEW w, NEW x, declared' = d, weights' = w, warned' = x
    PROVE  NoneOverruled(declared, weights, warned)' <=> NoneOverruled(d, w, x)
<1>1. input' = input /\ constraints' = constraints /\ selected' = selected  BY DEF vars
<1>2. Members' = Members  BY <1>1 DEF Members
<1>3. \A n : IsContext(n)' <=> IsContext(n)  BY <1>1 DEF IsContext
<1>4. \A n : On(n)' = On(n)  BY <1>1 DEF On
<1>5. \A c : EdgeWeight(declared, c)' = EdgeWeight(d, c)  BY <1>1 DEF EdgeWeight
<1>6. \A n, r : Weighed(declared, n, r)' = Weighed(d, n, r)  BY <1>4, <1>5 DEF Weighed
<1>7. \A n : Edges(declared, n)' = Edges(d, n)  BY <1>6 DEF Edges
<1>8. \A n : RootEdges(declared, n)' = RootEdges(d, n)  BY <1>6 DEF RootEdges
<1>9. \A n : RootSays(declared, n)' = RootSays(d, n)
  BY <1>1, <1>5, <1>8 DEF RootSays, MapOf
<1>10. \A n : IsOverlay(n)' <=> IsOverlay(n)  BY <1>4 DEF IsOverlay
<1> QED  BY <1>2, <1>3, <1>5, <1>7, <1>9, <1>10 DEF NoneOverruled

\* A verdict is given once the loop has ended.
AfterLoop == verdict = "weighed" => outcome = "locked"

LEMMA WeighedInvariant ==
    ASSUME AfterLoop, NoneOverruledUnseen, [WeighedNext]_<<vars, weighing>>
    PROVE  AfterLoop' /\ NoneOverruledUnseen'
<1>1. NoneOverruledUnseen <=> (verdict = "weighed" => NoneOverruled(declared, weights, warned))
  BY DEF NoneOverruledUnseen, NoneOverruled
<1>2. NoneOverruledUnseen' <=>
        (verdict' = "weighed" => NoneOverruled(declared, weights, warned)')
  BY DEF NoneOverruledUnseen, NoneOverruled
<1>3. CASE UNCHANGED <<vars, weighing>>
  <2>1. /\ UNCHANGED vars /\ outcome' = outcome
        /\ declared' = declared /\ weights' = weights /\ warned' = warned /\ verdict' = verdict
    BY <1>3 DEF weighing, vars
  <2>2. NoneOverruled(declared, weights, warned)' <=> NoneOverruled(declared, weights, warned)
    BY <2>1, SameClosure
  <2> QED  BY <1>1, <1>2, <2>1, <2>2 DEF AfterLoop
<1>4. CASE Resolve
  <2>1. outcome = "resolving" /\ verdict' = verdict  BY <1>4 DEF Resolve, Next, weighing
  <2>2. verdict' # "weighed"  BY <2>1 DEF AfterLoop
  <2> QED  BY <1>2, <2>2 DEF AfterLoop
<1>5. CASE Weigh
  <2>1. PICK d \in DeclarationsOf(input) :
          /\ declared' = d /\ verdict' = Verdict(d)
          /\ Verdict(d) = "weighed" =>
                /\ weights' = [n \in Names |-> IF n \in Members THEN Effective(d, n) ELSE None]
                /\ warned' = {n \in Members : IsContext(n) /\ Disagree(d, n)}
    BY <1>5 DEF Weigh
  <2>2. UNCHANGED vars /\ outcome = "locked" /\ outcome' = outcome  BY <1>5 DEF Weigh, vars
  <2>3. ASSUME verdict' = "weighed" PROVE NoneOverruled(declared, weights, warned)'
    <3>1. Verdict(d) = "weighed"  BY <2>1, <2>3
    <3>2. \A n \in Members : weights'[n] = Effective(d, n)  BY <2>1, <3>1 DEF Members
    <3>3. NoneOverruled(d, weights', warned')  BY <2>1, <3>1, <3>2, WeighsSeen
    <3> QED  BY <2>1, <2>2, <3>3, SameClosure
  <2> QED  BY <1>2, <2>2, <2>3 DEF AfterLoop
<1> QED  BY <1>3, <1>4, <1>5 DEF WeighedNext

\* Whoever weighs a requirement is overruled only by the machine or the root, and
\* a contradiction between requirers is never passed over in silence.
THEOREM WeightSafety == WeighedSpec => []NoneOverruledUnseen
<1>1. WeighedInit => AfterLoop /\ NoneOverruledUnseen
  BY RootAlone DEF WeighedInit, AfterLoop, NoneOverruledUnseen
<1>2. AfterLoop /\ NoneOverruledUnseen /\ [WeighedNext]_<<vars, weighing>> =>
        (AfterLoop /\ NoneOverruledUnseen)'
  BY WeighedInvariant
<1> QED  BY <1>1, <1>2, PTL DEF WeighedSpec
================================================================================
