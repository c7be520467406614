--------------------------- MODULE MCCertificates ---------------------------
(* Certificates for one user with two attempts and two requests. *)
EXTENDS Certificates, TLC

\* Bounds: the certificate is asked for while there is one initial attempt at most,
\* sent at most once and not being sent, and at most two processes are at work then,
\* one if the course has a reverification window or the attempt has expired, is
\* undecided or is being decided.  The attempts are explored up to their own bounds
\* as long as there is no certificate.
Busy == {h \in Handlers : req[h] # Idle} \cup {c \in Commands : cmd[c] # Idle}
FewAttempts ==
  /\ submissions <= 1 /\ retry = NoRetry
  /\ \A a \in Attempts : Exists(a) => a = 1 /\ ~attempt[a].reverification
  /\ \A h \in Handlers : req[h].op \in {"idle", "answer", "certificate"}
  /\ windowed => expired = 0
  /\ Cardinality(Busy) <=
       IF \/ windowed \/ expired > 0 \/ (Exists(1) /\ verdict[1] = "none")
          \/ \E h \in Handlers : req[h].op = "answer" THEN 1 ELSE 2
NoCertificate == cert = NoCert /\ \A c \in Commands : cmd[c] = Idle
Focus == NoCertificate \/ FewAttempts

Symmetry == Permutations(Handlers) \cup Permutations(Commands)
=============================================================================
