---------------------------- MODULE MCAlertOutbox ----------------------------
(* Instances of AlertOutbox for TLC.                                        *)
EXTENDS AlertOutbox, TLC

\* Two share classes of one company.
SharedCompany == [t \in Tickers |-> "issuer"]

\* Three disclosures of it, in order of publication.
OneIssuer == <<"issuer", "issuer", "issuer">>
FirstTwoTogether == <<0, 0, 1>>
OneEachDay == <<0, 1, 2>>
AllImportant == <<90, 80, 85>>
SecondMinor == <<90, 75, 85>>

\* Processes are interchangeable: no action and no invariant names one.
Symmetry == Permutations(Checkers)

=============================================================================
