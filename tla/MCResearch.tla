----------------------------- MODULE MCResearch -----------------------------
(***************************************************************************)
(* The parts of the research side that share no state within the bounds    *)
(* here, checked side by side: a behaviour is of one scene, and the other  *)
(* parts stay as they begin.                                               *)
(***************************************************************************)
EXTENDS SecurityIdentity, NativeOutcomes, EvidenceCapture, Evaluations, DecisionRules, Schema

VARIABLE scene

----------------------------------------------------------------------------
\* The security master: two securities and an identifier that changes hands.

NoRecord == [id |-> None, type |-> "common", first |-> 1, delisted |-> None, idents |-> {},
             events |-> {}, delisting |-> None, classes |-> {}]

Cusip(value, from, to) == [kind |-> "cusip", from |-> from, to |-> to, value |-> value, exchange |-> None]
Ticker(value, from, exchange) == [kind |-> "ticker", from |-> from, to |-> None, value |-> value, exchange |-> exchange]

Alpha(idents) == [NoRecord EXCEPT !.id = "a", !.idents = idents]
Beta(idents) == [NoRecord EXCEPT !.id = "b", !.idents = idents,
                                 !.classes = {[from |-> 1, to |-> None, sector |-> "tech"]}]
Merged == [Alpha({Cusip("c1", 1, 2)}) EXCEPT
             !.delisted = 3, !.delisting = [date |-> 3, successor |-> "b"],
             !.events = {[date |-> 3, successor |-> "b"]}]

MCSnapshots ==
    { << Alpha({Cusip("c1", 1, None), Ticker("T", 1, "xnys")}), Beta({Cusip("c2", 1, None), Ticker("T", 2, "xnas")}) >>,
      << Beta({Cusip("c1", 2, None), Ticker("T", 2, "xnas")}), Alpha({Cusip("c1", 1, 1)}) >>,
      << Merged, Beta({Cusip("c1", 2, None), Ticker("U", 1, "xnas")}) >>,
      << Alpha({Cusip("c2", 1, 2), Ticker("T", 2, None)}), NoRecord >>,
      << Beta({Cusip("c1", 3, None), Cusip("c2", 1, 2), Ticker("T", 1, "otc")}) >> }

MCPolicies ==
    { [name |-> "broad", version |-> 1, types |-> {"common"}, exchanges |-> {"xnys", "xnas"}, age |-> 1],
      [name |-> "broad", version |-> 1, types |-> {"common"}, exchanges |-> {"xnas"}, age |-> 0],
      [name |-> "broad", version |-> 2, types |-> {"common", "adr"}, exchanges |-> {"xnas", "otc"}, age |-> 0] }

MCReconstitutions == { {2, 3} }

Mapping(sid, from, to, manual) == [instrument |-> "i", sid |-> sid, from |-> from, to |-> to, manual |-> manual]

MCBatches ==
    { << Mapping("a", 1, 2, FALSE), Mapping("b", 2, None, FALSE) >>, << Mapping("b", 2, None, FALSE) >>,
      << Mapping("a", 2, 3, TRUE) >>, << Mapping("a", 1, 3, FALSE), Mapping("b", 1, 1, TRUE) >> }

----------------------------------------------------------------------------
\* Vendor feeds: a security that trades with a gap and a bar without a price,
\* one that is delisted, corrected terminals, and a second data version.

Level(level) == [level |-> level, split |-> FALSE]
Quiet == [ none \in {} |-> Null ]
End(date, rule, value, resolved) == [date |-> date, rule |-> rule, value |-> value, resolved |-> resolved]

MCFeeds ==
    { [version |-> "v1", market |-> (1 :> 0 @@ 2 :> 1 @@ 3 :> 2),
       terminals |-> ("d" :> End(3, "delisting", Null, FALSE)),
       bars |-> (<<"s", 1>> :> Level(10) @@ <<"s", 2>> :> Level(12) @@ <<"s", 4>> :> [level |-> 15, split |-> TRUE]
                 @@ <<"d", 1>> :> Level(5) @@ <<"d", 2>> :> Level(4) @@ <<"x", 1>> :> Level(1))],
      [version |-> "v1", market |-> (4 :> 1), terminals |-> ("d" :> End(2, "merger", 3, TRUE)),
       bars |-> (<<"s", 5>> :> Level(Null) @@ <<"s", 6>> :> Level(16))],
      [version |-> "v1", market |-> Quiet, terminals |-> ("d" :> End(3, "delisting", -4, TRUE)), bars |-> Quiet],
      [version |-> "v2", market |-> (2 :> 2), terminals |-> ("x" :> End(3, "unknown", Null, TRUE)),
       bars |-> (<<"s", 1>> :> Level(Null) @@ <<"s", 2>> :> Level(12) @@ <<"s", 3>> :> Level(11))] }

----------------------------------------------------------------------------
\* Histories of thirteen days: SPY, a stock A with the sector fund X, a stock B without.

On(values) == [d \in {d \in DOMAIN values : values[d] # Absent} |-> values[d]]
Off == Absent

MCTape ==
    [etf   |-> [SPY |-> Absent, A |-> "X", B |-> Absent, X |-> Absent],
     price |-> [SPY |-> On(<< 10, 11, 12, 11, 13, 14, 13, 15, 16, 15, 17, 18, 17 >>),
                A   |-> On(<< 20, 22, 21, 23, 25, 24, 26, 29, 28, 30, 33, 31, 32 >>),
                B   |-> On(<< 30, 28, 29, 27, 26, 28, 25, 27, 24, 26, 23, 22, 21 >>),
                X   |-> On(<< 40, 41, 43, 42, 44, 47, 45, 48, 49, 46, 50, 52, 53 >>)],
     feature |-> << "regime", "market" >> :> On(<< 0, 1, 1, 0, 1, 1, 0, 1, 1, 1, 1, 1, 1 >>)
              @@ << "rates", "market" >> :> On(<< 0, 2, 2, 0, 2, -2, 0, 2, 2, 2, 3, 0, 0 >>)
              @@ << "vix", "market" >> :> On(<< 5, 9, 8, 1, 9, 5, 2, 8, 9, 5, 8, 9, 9 >>)
              @@ << "ret", "A" >> :> On(<< Off, 2, -1, 2, 2, -1, 2, 3, -1, 3, 4, -2, 1 >>)
              @@ << "ret", "B" >> :> On(<< Off, -2, 1, -2, -1, 2, -3, 2, -3, 2, -3, -1, 1 >>)
              @@ << "ret", "X" >> :> On(<< Off, 1, 2, -1, 2, 3, -2, 3, 1, -3, 4, 2, 2 >>)
              @@ << "trend", "A" >> :> On(<< Off, Off, 1, -1, 1, 2, -1, 2, 3, -1, 3, -1, 2 >>)
              @@ << "trend", "B" >> :> On(<< Off, Off, -1, 1, -1, 1, -1, 1, -2, 1, -2, -1, 1 >>)
              @@ << "trend", "X" >> :> On(<< Off, Off, 1, 1, -1, 1, 1, -1, 2, 2, 1, 1, -1 >>)
              @@ << "days", "A" >> :> On(<< 20, 15, 9, 4, 20, 15, 9, 4, 20, 15, 9, 4, 20 >>)
              @@ << "pe", "B" >> :> On(<< 5, 6, 7, 8, 5, 6, 7, 8, 5, 6, 7, 6, 5 >>)]

\* B stops trading after the eighth day; X is launched on the sixth.
HaltedTape == [MCTape EXCEPT !.price.B = Through(@, 8), !.feature[<< "ret", "B" >>] = Through(@, 8),
                             !.feature[<< "trend", "B" >>] = Through(@, 8)]

From(series, first) == Restrict(series, {d \in DOMAIN series : d >= first})
LaunchedTape == [MCTape EXCEPT !.price.X = From(@, 6), !.feature[<< "ret", "X" >>] = From(@, 7),
                               !.feature[<< "trend", "X" >>] = From(@, 8)]

MCTapes == {MCTape, HaltedTape, LaunchedTape}
MCTargets == << "A", "B" >>

----------------------------------------------------------------------------
\* Two models that share information and one that does not, of opposite views, and
\* the two shadow models, of which one knows the next earnings date.

Says(effect, root, size) ==
    [neutral |-> FALSE, effect |-> effect, root |-> root, size |-> size, catalyst |-> Missing,
     reasons |-> {[label |-> "own", excess |-> effect, root |-> root],
                  [label |-> "other", excess |-> -1, root |-> 1]}]
Silent == [Says(0, 1, 0) EXCEPT !.neutral = TRUE, !.reasons = {}]

MCModels == << "rates", "macro", "valuation", "analogues", "conditional" >>
MCShadow == {"analogues", "conditional"}
MCOverlapping == {{"rates", "macro"}} \cup {{s, m} : s \in MCShadow, m \in Range(MCModels)}
MCEvidences == {Silent, Says(0, 2, 5), Says(-1, 3, 60), Says(-2, 1, 15),
                [Says(3, 2, 90) EXCEPT !.catalyst = 9, !.reasons = {[label |-> "own", excess |-> e, root |-> 2] : e \in {3, -1}}]}
MCPositions == { [weight |-> 5, risk |-> Missing], [weight |-> 10, risk |-> 4], [weight |-> 21, risk |-> 25],
                 [weight |-> 30, risk |-> 40], [weight |-> 45, risk |-> 5] }

----------------------------------------------------------------------------
Init ==
    /\ IdentityInit /\ OutcomeInit /\ CaptureInit /\ EvaluationInit /\ RulesInit /\ SchemaInit
    /\ scene \in {"identity", "outcomes", "capture", "evaluation", "rules", "schema"}

Next ==
    /\ UNCHANGED scene
    /\ \/ scene = "identity" /\ IdentityNext
          /\ UNCHANGED << outcomeVars, captureVars, evaluationVars, rulesVars, schemaVars >>
       \/ scene = "outcomes" /\ OutcomeNext
          /\ UNCHANGED << identityVars, captureVars, evaluationVars, rulesVars, schemaVars >>
       \/ scene = "capture" /\ CaptureNext
          /\ UNCHANGED << identityVars, outcomeVars, evaluationVars, rulesVars, schemaVars >>
       \/ scene = "evaluation" /\ EvaluationNext
          /\ UNCHANGED << identityVars, outcomeVars, captureVars, rulesVars, schemaVars >>
       \/ scene = "rules" /\ RulesNext
          /\ UNCHANGED << identityVars, outcomeVars, captureVars, evaluationVars, schemaVars >>
       \/ scene = "schema" /\ SchemaNext
          /\ UNCHANGED << identityVars, outcomeVars, captureVars, evaluationVars, rulesVars >>

Spec == Init /\ [][Next]_<< identityVars, outcomeVars, captureVars, evaluationVars, rulesVars, schemaVars, scene >>
=============================================================================
