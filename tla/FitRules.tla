------------------------------ MODULE FitRules ------------------------------
(***************************************************************************)
(* What validation and statistics of a fit promise: the answers are always *)
(* those of the contents of the fit, whatever led there.                   *)
(***************************************************************************)
EXTENDS FitValidation

VARIABLE answers        \* what validate and stats would answer now

\* The items that each register is about, from what is on the fit.
Subjects == [r \in Registers |-> {i \in Fitted : Heard(r, i) /\ Takes(r, i)}]

\* The time of the cycles that an effect runs through until it starts over: each lasts its
\* duration and is followed by the delay to the next, the last by the reload when that is
\* longer, when it is counted, and when nothing can be reloaded by no delay at all.
PauseAfter(i, cycle, n, reload) ==
    LET delay == Attr(i, "module_reactivation_delay")
    IN  IF cycle # n \/ (Reloads(i) /\ ~reload) THEN delay
        ELSE IF ~Reloads(i) THEN 0 ELSE Max({delay, Attr(i, "reload_time")})
RunTime(i, n, reload) ==
    SumFunction([cycle \in 1..n |-> Attr(i, "duration") + PauseAfter(i, cycle, n, reload)])

\* Damage of as many cycles by the time that they take.
EffectDps(i, e, reload) ==
    LET n == get_cycles_until_reload(i, e)
        rate == IF n = Endless THEN [cycles |-> 1, time |-> CycleTime(CycleInfo(
                        Attr(i, "duration"), Attr(i, "module_reactivation_delay"), 1))]
                ELSE [cycles |-> n, time |-> RunTime(i, n, reload)]
    IN  [d \in DmgTypes |-> IF n = 0 THEN 0 ELSE PerTime(get_volley(i, e)[d], rate)]
DpsOf(S, reload) ==
    [d \in DmgTypes |-> (10 - TgtResists[d]) * SumFunction([i \in S |->
        SumFunction([e \in Running(i) \cap Dealers |-> EffectDps(i, e, reload)[d]])])]

Promised == <<Answers(Subjects), DpsOf(Subjects["dmg_dealer"], FALSE),
              DpsOf(Subjects["dmg_dealer"], TRUE)>>

Change ==
    \/ \E i \in Items : Add(i) \/ RemoveItem(i) \/ Free(i) \/ Toggle(i)
    \/ \E i \in Items, p \in 1..MaxRack : Place(i, p) \/ Insert(i, p)
    \/ \E m \in Carriers, c \in Charges \cup {NoItem} : SetCharge(m, c)
    \/ \E i \in Items, st \in States : SetState(i, st)
    \/ \E s \in Sources \cup {NoSource} : SetSource(s)
    \/ Modify

Init == InitContents /\ answers = Promised
Next == Change /\ answers' = Promised'
Spec == Init /\ [][Next]_<<contents, answers>>
=============================================================================
