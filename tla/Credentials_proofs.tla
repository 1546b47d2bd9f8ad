------------------------- MODULE Credentials_proofs -------------------------
(***************************************************************************)
(* Proofs about Credentials, for any number of secrets, callers, revisions *)
(* and faults: the database keeps one chain of revisions per secret, and a *)
(* secret that is not disturbed has its material on file, is read as the   *)
(* row named it and leaves no file of a failed call behind.                *)
(***************************************************************************)
EXTENDS Credentials, TLAPS

\* A secret id belongs to the one add that drew it until its row is there.
IdsAreFresh ==
  /\ \A s \in Secret :
       /\ status[s] # "NONE" => s \in issued
       /\ status[s] = "NONE" <=> active[s] = 0
  /\ \A c \in Callers : Writing(c) =>
       /\ secret[c] \in issued /\ mat[c] \in Material
       /\ doing[c] \in {"ADD", "ROTATE"}
       /\ doing[c] = "ROTATE" => status[secret[c]] # "NONE"
       /\ doing[c] = "ADD" =>
            /\ rev[c] = 1
            /\ pc[c] # "delete" => status[secret[c]] = "NONE"
  /\ \A c, d \in Callers :
       Writing(c) /\ Writing(d) /\ secret[c] = secret[d]
         /\ doing[c] = "ADD" /\ doing[d] = "ADD" => c = d

\* An undisturbed secret has one writer at most, who works on the next revision.
OneWriter ==
  \A c \in Callers : Writing(c) /\ secret[c] \notin disturbed =>
    /\ rev[c] = active[secret[c]] + 1
    /\ pc[c] = "commit" => file[<<secret[c], rev[c]>>] = mat[c]
    /\ \A d \in Callers : Writing(d) /\ secret[d] = secret[c] => d = c

\* The files of an undisturbed secret are those of its revisions, and perhaps
\* that of the writer who has stored the next one.
FilesMatchRows ==
  \A s \in Secret \ disturbed :
    /\ \A r \in Rev : r <= active[s] => file[<<s, r>>] # NoFile
    /\ s \notin killed => \A r \in Rev : file[<<s, r>>] # NoFile /\ r >
        active[s] =>
         \E c \in Callers :
           pc[c] \in {"commit", "delete"} /\ secret[c] = s /\ rev[c] = r
    /\ \A c \in Callers : pc[c] = "read" /\ secret[c] = s =>
         rev[c] <= active[s] /\ file[<<s, rev[c]>>] = mat[c]

\* What a statement of the database does to the rows.
Appended(c) ==
  /\ active[secret[c]] = rev[c] - 1 /\ mat[c] \in Material
  /\ active' = [active EXCEPT ![secret[c]] = rev[c]]
  /\ print' = [print EXCEPT ![secret[c]] = mat[c]]
  /\ status' = [status EXCEPT ![secret[c]] = "ACTIVE"]
  /\ history' = history \cup {<<secret[c], rev[c], mat[c]>>}
  /\ label' \in [Secret -> Name]

LEMMA Constants ==
  /\ MaxRev \in Nat /\ 1 \in Rev /\ NoFile \notin Material
  /\ Rev \subseteq Nat /\ Rev \subseteq 0 .. MaxRev
  /\ \A r \in Int : r \in Rev <=> 1 <= r /\ r <= MaxRev
  BY CredentialAssumption DEF Rev

LEMMA Ranges ==
  /\ \A r \in Rev : r \in Int
  /\ \A n \in 0 .. MaxRev : n \in Int
  BY CredentialAssumption DEF Rev

\* What TypeOK says of the local variables and of active.
LEMMA Typed ==
  ASSUME TypeOK
  PROVE  /\ \A s \in Secret : active[s] \in Int
         /\ \A c \in Callers : /\ secret[c] \in Secret /\ rev[c] \in Rev
                              /\ rev[c] \in Int
  <1>1. /\ \A s \in Secret : active[s] \in 0 .. MaxRev
        /\ \A c \in Callers : secret[c] \in Secret /\ rev[c] \in Rev
    BY DEF TypeOK
  <1>2. QED
    BY <1>1, Ranges

LEMMA SpendType ==
  ASSUME used \in [Kind -> Nat], NEW k \in Kind, Spend(k)
  PROVE  used' \in [Kind -> Nat]
  BY DEF Spend

LEMMA Kinds == {"faults", "lost", "kills", "disables"} \subseteq Kind
  BY DEF Kind

\* Whichever call it is of, the statement of the database appends the revision.
LEMMA StatementEffect ==
  ASSUME TypeOK, IdsAreFresh, NEW c \in Callers, pc[c] = "commit", Statement(c)
  PROVE  Appended(c)
  <1> USE DEF Appended
  <1>1. CASE doing[c] = "ADD" /\ \E n \in Name : InsertRow(secret[c], n,
      mat[c])
    <2>1. rev[c] = 1 /\ active[secret[c]] = 0 /\ mat[c] \in Material
      BY <1>1 DEF TypeOK, IdsAreFresh, Writing
    <2>2. QED
      BY <1>1, <2>1 DEF InsertRow, TypeOK
  <1>2. CASE doing[c] = "ROTATE" /\ UpdateRow(secret[c], rev[c], mat[c])
    BY <1>2 DEF UpdateRow, TypeOK, IdsAreFresh, Writing
  <1>3. QED
    BY <1>1, <1>2 DEF Statement

LEMMA AppendedType ==
  ASSUME TypeOK, NEW c \in Callers, Appended(c), NEW step \in {"idle",
      "delete"},
         pc' = [pc EXCEPT ![c] = step], used' \in [Kind -> Nat],
         UNCHANGED <<doing, secret, rev, mat, file, issued, killed>>,
         disturbed' \subseteq Secret
  PROVE  TypeOK'
  <1>1. secret[c] \in Secret /\ rev[c] \in Rev /\ rev[c] \in 0 .. MaxRev
    BY Constants DEF TypeOK
  <1>2. /\ active' \in [Secret -> 0 .. MaxRev]
        /\ status' \in [Secret -> {"NONE", "ACTIVE", "DISABLED"}]
        /\ print' \in [Secret -> Material \cup {NoFile}]
        /\ label' \in [Secret -> Name]
    BY <1>1 DEF Appended, TypeOK
  <1>3. history' \subseteq Secret \X Rev \X Material
    BY <1>1 DEF Appended, TypeOK
  <1>4. pc' \in [Callers ->
                {"idle", "check", "write", "commit", "delete", "read"}]
    BY DEF TypeOK
  <1>5. QED
    BY <1>2, <1>3, <1>4 DEF TypeOK

\* Every action keeps every variable in its set.
LEMMA TypeStep ==
  ASSUME TypeOK, IdsAreFresh, [Next]_vars
  PROVE  TypeOK'
  <1> USE Constants, Kinds, SpendType DEF TypeOK, vars, rows, locals, ghosts,
      Enter, Goto, Proceed, Return
  <1>1. ASSUME NEW c \in Callers, NEW s \in Secret, NEW m \in Material,
      AddBegin(c, s, m) PROVE TypeOK'
    BY <1>1 DEF AddBegin
  <1>2. ASSUME NEW c \in Callers, NEW s \in Secret, NEW m \in Material,
      RotateBegin(c, s, m) PROVE TypeOK'
    BY <1>2 DEF RotateBegin
  <1>3. ASSUME NEW c \in Callers, CheckFile(c) PROVE TypeOK'
    BY <1>3 DEF CheckFile
  <1>4. ASSUME NEW c \in Callers, WriteFile(c) PROVE TypeOK'
    BY <1>4 DEF WriteFile
  <1>5. ASSUME NEW c \in Callers, WriteFails(c) PROVE TypeOK'
    BY <1>5 DEF WriteFails
  <1>6. ASSUME NEW c \in Callers, Commit(c) PROVE TypeOK'
    <2>1. Appended(c)
      BY <1>6, StatementEffect DEF Commit
    <2>2. QED
      BY <1>6, <2>1, AppendedType DEF Commit
  <1>7. ASSUME NEW c \in Callers, Conflict(c) PROVE TypeOK'
    BY <1>7 DEF Conflict
  <1>8. ASSUME NEW c \in Callers, CommitFails(c) PROVE TypeOK'
    BY <1>8 DEF CommitFails
  <1>9. ASSUME NEW c \in Callers, AnswerLost(c) PROVE TypeOK'
    <2>1. Appended(c)
      BY <1>9, StatementEffect DEF AnswerLost
    <2>2. QED
      BY <1>9, <2>1, AppendedType DEF AnswerLost
  <1>10. ASSUME NEW c \in Callers, DeleteFile(c) PROVE TypeOK'
    BY <1>10 DEF DeleteFile
  <1>11. ASSUME NEW c \in Callers, NEW s \in Secret, ReadBegin(c, s) PROVE
      TypeOK'
    BY <1>11 DEF ReadBegin, IdsAreFresh
  <1>12. ASSUME NEW c \in Callers, ReadFile(c) PROVE TypeOK'
    BY <1>12 DEF ReadFile
  <1>13. ASSUME NEW c \in Callers, Kill(c) PROVE TypeOK'
    BY <1>13 DEF Kill
  <1>14. ASSUME NEW s \in Secret, Disable(s) PROVE TypeOK'
    BY <1>14 DEF Disable
  <1>15. CASE UNCHANGED vars
    BY <1>15
  <1> HIDE DEF TypeOK, vars, rows, locals, ghosts, Enter, Goto, Proceed, Return
  <1>16. QED
    BY <1>1, <1>2, <1>3, <1>4, <1>5, <1>6, <1>7, <1>8, <1>9, <1>10, <1>11,
        <1>12, <1>13, <1>14, <1>15 DEF Next, WriterStep, ReaderStep

\* Only add draws an id, and no row goes away.
LEMMA FreshStep ==
  ASSUME TypeOK, IdsAreFresh, [Next]_vars
  PROVE  IdsAreFresh'
  <1> USE Constants DEF TypeOK, IdsAreFresh, Writing, vars, rows, locals,
      ghosts, Enter, Goto, Proceed, Return
  <1>1. ASSUME NEW c \in Callers, NEW s \in Secret, NEW m \in Material,
      AddBegin(c, s, m) PROVE IdsAreFresh'
    BY <1>1 DEF AddBegin
  <1>2. ASSUME NEW c \in Callers, NEW s \in Secret, NEW m \in Material,
      RotateBegin(c, s, m) PROVE IdsAreFresh'
    BY <1>2 DEF RotateBegin
  <1>3. ASSUME NEW c \in Callers, CheckFile(c) PROVE IdsAreFresh'
    BY <1>3 DEF CheckFile
  <1>4. ASSUME NEW c \in Callers, WriteFile(c) PROVE IdsAreFresh'
    BY <1>4 DEF WriteFile
  <1>5. ASSUME NEW c \in Callers, WriteFails(c) PROVE IdsAreFresh'
    BY <1>5 DEF WriteFails
  <1>6. ASSUME NEW c \in Callers, Commit(c) PROVE IdsAreFresh'
    BY <1>6, StatementEffect DEF Commit, Appended
  <1>7. ASSUME NEW c \in Callers, Conflict(c) PROVE IdsAreFresh'
    BY <1>7 DEF Conflict
  <1>8. ASSUME NEW c \in Callers, CommitFails(c) PROVE IdsAreFresh'
    BY <1>8 DEF CommitFails
  <1>9. ASSUME NEW c \in Callers, AnswerLost(c) PROVE IdsAreFresh'
    BY <1>9, StatementEffect DEF AnswerLost, Appended
  <1>10. ASSUME NEW c \in Callers, DeleteFile(c) PROVE IdsAreFresh'
    BY <1>10 DEF DeleteFile
  <1>11. ASSUME NEW c \in Callers, NEW s \in Secret, ReadBegin(c, s) PROVE
      IdsAreFresh'
    BY <1>11 DEF ReadBegin
  <1>12. ASSUME NEW c \in Callers, ReadFile(c) PROVE IdsAreFresh'
    BY <1>12 DEF ReadFile
  <1>13. ASSUME NEW c \in Callers, Kill(c) PROVE IdsAreFresh'
    BY <1>13 DEF Kill
  <1>14. ASSUME NEW s \in Secret, Disable(s) PROVE IdsAreFresh'
    BY <1>14 DEF Disable
  <1>15. CASE UNCHANGED vars
    BY <1>15
  <1> HIDE DEF TypeOK, IdsAreFresh, Writing, vars, rows, locals, ghosts, Enter,
      Goto, Proceed, Return
  <1>16. QED
    BY <1>1, <1>2, <1>3, <1>4, <1>5, <1>6, <1>7, <1>8, <1>9, <1>10, <1>11,
        <1>12, <1>13, <1>14, <1>15 DEF Next, WriterStep, ReaderStep

\* The next revision extends the chain of its secret by one.
LEMMA ChainGrows ==
  ASSUME TypeOK, HistoryIsChain, NEW c \in Callers, Appended(c)
  PROVE  HistoryIsChain'
  <1>1. /\ secret[c] \in Secret /\ rev[c] \in Rev /\ rev[c] \in Int
        /\ \A s \in Secret : active[s] \in Int
    BY Typed
  <1>2. /\ \A s \in Secret : active'[s] =
             IF s = secret[c] THEN active[s] + 1 ELSE active[s]
        /\ rev[c] = active[secret[c]] + 1
        /\ \A s \in Secret \ {secret[c]} :
             status'[s] = status[s] /\ print'[s] = print[s]
        /\ print'[secret[c]] = mat[c]
    BY <1>1 DEF TypeOK, Appended
  <1>3. \A s \in Secret, r \in Rev, m \in Material :
          <<s, r, m>> \in history' <=>
            \/ <<s, r, m>> \in history
            \/ s = secret[c] /\ r = rev[c] /\ m = mat[c]
    BY DEF Appended
  <1>4. mat[c] \in Material /\ history \subseteq history'
          /\ <<secret[c], rev[c], mat[c]>> \in history'
    BY DEF Appended
  <1>5. \A s \in Secret, r \in Rev :
          r <= active'[s] <=> \E m \in Material : <<s, r, m>> \in history'
    <2>1. SUFFICES ASSUME NEW s \in Secret, NEW r \in Rev
                   PROVE  r <= active'[s]
                            <=> \E m \in Material : <<s, r, m>> \in history'
      OBVIOUS
    <2>2. r <= active[s] <=> \E m \in Material : <<s, r, m>> \in history
      BY DEF HistoryIsChain
    <2>3. CASE s = secret[c] /\ r = rev[c]
      BY <1>1, <1>2, <1>4, <2>3
    <2>4. CASE ~(s = secret[c] /\ r = rev[c])
      <3>1. r <= active'[s] <=> r <= active[s]
        BY <1>1, <1>2, <2>4, Constants
      <3>2. \A m \in Material : <<s, r, m>> \in history' <=> <<s, r, m>> \in
          history
        BY <1>3, <2>4
      <3>3. QED
        BY <2>2, <3>1, <3>2
    <2>5. QED
      BY <2>3, <2>4
  <1>6. \A s \in Secret, r \in Rev, m, n \in Material :
          <<s, r, m>> \in history' /\ <<s, r, n>> \in history' => m = n
    <2>1. ~(rev[c] <= active[secret[c]])
      BY <1>1, <1>2
    <2>2. \A m \in Material : <<secret[c], rev[c], m>> \notin history
      BY <1>1, <2>1 DEF HistoryIsChain
    <2>3. SUFFICES ASSUME NEW s \in Secret, NEW r \in Rev,
                          NEW m \in Material, NEW n \in Material,
                          <<s, r, m>> \in history', <<s, r, n>> \in history'
                   PROVE  m = n
      OBVIOUS
    <2>4. CASE s = secret[c] /\ r = rev[c]
      BY <1>3, <2>2, <2>3, <2>4
    <2>5. CASE ~(s = secret[c] /\ r = rev[c])
      <3>1. <<s, r, m>> \in history /\ <<s, r, n>> \in history
        BY <1>3, <2>3, <2>5
      <3>2. QED
        BY <3>1 DEF HistoryIsChain
    <2>6. QED
      BY <2>4, <2>5
  <1>7. \A s \in Secret :
          status'[s] # "NONE" => <<s, active'[s], print'[s]>> \in history'
    BY <1>1, <1>2, <1>4 DEF HistoryIsChain
  <1>8. QED
    BY <1>5, <1>6, <1>7 DEF HistoryIsChain

\* The database lets one rotation of a revision through.
LEMMA ChainStep ==
  ASSUME TypeOK, IdsAreFresh, HistoryIsChain, [Next]_vars
  PROVE  HistoryIsChain'
  <1> USE Constants DEF TypeOK, IdsAreFresh, Writing, HistoryIsChain, vars,
      rows, locals, ghosts, Enter, Goto, Proceed, Return
  <1>1. ASSUME NEW c \in Callers, NEW s \in Secret, NEW m \in Material,
      AddBegin(c, s, m) PROVE HistoryIsChain'
    BY <1>1 DEF AddBegin
  <1>2. ASSUME NEW c \in Callers, NEW s \in Secret, NEW m \in Material,
      RotateBegin(c, s, m) PROVE HistoryIsChain'
    BY <1>2 DEF RotateBegin
  <1>3. ASSUME NEW c \in Callers, CheckFile(c) PROVE HistoryIsChain'
    BY <1>3 DEF CheckFile
  <1>4. ASSUME NEW c \in Callers, WriteFile(c) PROVE HistoryIsChain'
    BY <1>4 DEF WriteFile
  <1>5. ASSUME NEW c \in Callers, WriteFails(c) PROVE HistoryIsChain'
    BY <1>5 DEF WriteFails
  <1>6. ASSUME NEW c \in Callers, Commit(c) PROVE HistoryIsChain'
    <2>1. Appended(c)
      BY <1>6, StatementEffect DEF Commit
    <2>2. QED
      BY <2>1, ChainGrows
  <1>7. ASSUME NEW c \in Callers, Conflict(c) PROVE HistoryIsChain'
    BY <1>7 DEF Conflict
  <1>8. ASSUME NEW c \in Callers, CommitFails(c) PROVE HistoryIsChain'
    BY <1>8 DEF CommitFails
  <1>9. ASSUME NEW c \in Callers, AnswerLost(c) PROVE HistoryIsChain'
    <2>1. Appended(c)
      BY <1>9, StatementEffect DEF AnswerLost
    <2>2. QED
      BY <2>1, ChainGrows
  <1>10. ASSUME NEW c \in Callers, DeleteFile(c) PROVE HistoryIsChain'
    BY <1>10 DEF DeleteFile
  <1>11. ASSUME NEW c \in Callers, NEW s \in Secret, ReadBegin(c, s) PROVE
      HistoryIsChain'
    BY <1>11 DEF ReadBegin
  <1>12. ASSUME NEW c \in Callers, ReadFile(c) PROVE HistoryIsChain'
    BY <1>12 DEF ReadFile
  <1>13. ASSUME NEW c \in Callers, Kill(c) PROVE HistoryIsChain'
    BY <1>13 DEF Kill
  <1>14. ASSUME NEW s \in Secret, Disable(s) PROVE HistoryIsChain'
    BY <1>14 DEF Disable
  <1>15. CASE UNCHANGED vars
    BY <1>15
  <1> HIDE DEF TypeOK, IdsAreFresh, Writing, HistoryIsChain, vars, rows,
      locals, ghosts, Enter, Goto, Proceed, Return
  <1>16. QED
    BY <1>1, <1>2, <1>3, <1>4, <1>5, <1>6, <1>7, <1>8, <1>9, <1>10, <1>11,
        <1>12, <1>13, <1>14, <1>15 DEF Next, WriterStep, ReaderStep

\* Whoever begins next to a writer disturbs the secret.
LEMMA WriterIsOne ==
  ASSUME TypeOK, IdsAreFresh, OneWriter, [Next]_vars
  PROVE  OneWriter'
  <1> USE Constants DEF TypeOK, IdsAreFresh, OneWriter, Writing, vars, rows,
      locals, ghosts, Enter, Goto, Proceed, Return
  <1>1. ASSUME NEW c \in Callers, NEW s \in Secret, NEW m \in Material,
      AddBegin(c, s, m) PROVE OneWriter'
    BY <1>1 DEF AddBegin
  <1>2. ASSUME NEW c \in Callers, NEW s \in Secret, NEW m \in Material,
      RotateBegin(c, s, m) PROVE OneWriter'
    BY <1>2 DEF RotateBegin
  <1>3. ASSUME NEW c \in Callers, CheckFile(c) PROVE OneWriter'
    <2>1. \A d \in Callers : Writing(d)' => Writing(d)
      BY <1>3 DEF CheckFile
    <2>2. \A d \in Callers : secret'[d] = secret[d] /\ rev'[d] = rev[d]
      BY <1>3 DEF CheckFile
    <2>3. /\ mat' = mat /\ file' = file
          /\ active' = active /\ disturbed' = disturbed
      BY <1>3 DEF CheckFile
    <2>4. ASSUME NEW d \in Callers, Writing(d)', pc'[d] = "commit",
        secret[d] \notin disturbed
        PROVE  file[<<secret[d], rev[d]>>] = mat[d]
      <3>1. CASE d = c
        BY <1>3, <3>1, <2>4 DEF CheckFile, Path
      <3>2. CASE d # c
        BY <1>3, <3>2, <2>4, <2>1 DEF CheckFile
      <3>3. QED
        BY <3>1, <3>2
    <2>5. ASSUME NEW d \in Callers, Writing(d)', secret'[d] \notin disturbed'
        PROVE  /\ rev'[d] = active'[secret'[d]] + 1
               /\ pc'[d] = "commit" => file'[<<secret'[d], rev'[d]>>] = mat'[d]
               /\ \A e \in Callers :
                    Writing(e)' /\ secret'[e] = secret'[d] => e = d
      <3>1. /\ Writing(d) /\ secret[d] \notin disturbed
            /\ secret'[d] = secret[d] /\ rev'[d] = rev[d]
        BY <2>1, <2>2, <2>3, <2>5
      <3>2. /\ rev[d] = active[secret[d]] + 1
            /\ \A e \in Callers : Writing(e) /\ secret[e] = secret[d] => e = d
        BY <3>1
      <3> HIDE DEF TypeOK, IdsAreFresh, OneWriter, Writing
      <3>3. rev'[d] = active'[secret'[d]] + 1
        BY <3>1, <3>2, <2>3
      <3>4. pc'[d] = "commit" => file'[<<secret'[d], rev'[d]>>] = mat'[d]
        BY <3>1, <2>3, <2>4, <2>5
      <3>5. ASSUME NEW e \in Callers, Writing(e)', secret'[e] = secret'[d]
            PROVE  e = d
        BY <3>1, <3>2, <3>5, <2>1, <2>2
      <3>6. QED
        BY <3>3, <3>4, <3>5
    <2>6. QED
      BY <2>5
  <1>4. ASSUME NEW c \in Callers, WriteFile(c) PROVE OneWriter'
    BY <1>4 DEF WriteFile, Path
  <1>5. ASSUME NEW c \in Callers, WriteFails(c) PROVE OneWriter'
    BY <1>5 DEF WriteFails
  <1>6. ASSUME NEW c \in Callers, Commit(c) PROVE OneWriter'
    BY <1>6, StatementEffect DEF Commit, Appended
  <1>7. ASSUME NEW c \in Callers, Conflict(c) PROVE OneWriter'
    BY <1>7 DEF Conflict
  <1>8. ASSUME NEW c \in Callers, CommitFails(c) PROVE OneWriter'
    BY <1>8 DEF CommitFails
  <1>9. ASSUME NEW c \in Callers, AnswerLost(c) PROVE OneWriter'
    BY <1>9, StatementEffect DEF AnswerLost, Appended
  <1>10. ASSUME NEW c \in Callers, DeleteFile(c) PROVE OneWriter'
    BY <1>10 DEF DeleteFile, Path
  <1>11. ASSUME NEW c \in Callers, NEW s \in Secret, ReadBegin(c, s) PROVE
      OneWriter'
    BY <1>11 DEF ReadBegin
  <1>12. ASSUME NEW c \in Callers, ReadFile(c) PROVE OneWriter'
    BY <1>12 DEF ReadFile
  <1>13. ASSUME NEW c \in Callers, Kill(c) PROVE OneWriter'
    BY <1>13 DEF Kill
  <1>14. ASSUME NEW s \in Secret, Disable(s) PROVE OneWriter'
    BY <1>14 DEF Disable
  <1>15. CASE UNCHANGED vars
    BY <1>15
  <1> HIDE DEF TypeOK, IdsAreFresh, OneWriter, Writing, vars, rows, locals,
      ghosts, Enter, Goto, Proceed, Return
  <1>16. QED
    BY <1>1, <1>2, <1>3, <1>4, <1>5, <1>6, <1>7, <1>8, <1>9, <1>10, <1>11,
        <1>12, <1>13, <1>14, <1>15 DEF Next, WriterStep, ReaderStep

\* A commit makes the file its writer has stored that of the active revision.
LEMMA CommitKeepsFiles ==
  ASSUME TypeOK, IdsAreFresh, OneWriter, UndisturbedHasMaterial,
      FilesMatchRows,
         NEW c \in Callers, Commit(c)
  PROVE  UndisturbedHasMaterial' /\ FilesMatchRows'
  <1> DEFINE t == secret[c]
  <1>1. Appended(c)
    BY StatementEffect DEF Commit
  <1>2. /\ t \in Secret /\ rev[c] \in Rev /\ rev[c] \in Int
        /\ \A s \in Secret : active[s] \in Int
        /\ \A d \in Callers : rev[d] \in Int
    BY Typed
  <1>3. t \notin disturbed => file[<<t, rev[c]>>] = mat[c]
    BY DEF Commit, OneWriter, Writing
  <1>4. mat[c] # NoFile /\ rev[c] = active[t] + 1
    BY <1>1, <1>2, CredentialAssumption DEF Appended
  <1>5. /\ file' = file /\ disturbed' = disturbed /\ killed' = killed
        /\ secret' = secret /\ rev' = rev /\ mat' = mat
        /\ \A d \in Callers \ {c} : pc'[d] = pc[d]
        /\ pc'[c] = "idle"
    BY DEF Commit, Return, Proceed, Goto, locals, ghosts, TypeOK
  <1>6. /\ active'[t] = rev[c] /\ print'[t] = mat[c]
        /\ \A s \in Secret \ {t} :
             active'[s] = active[s] /\ print'[s] = print[s] /\ status'[s] =
                 status[s]
    BY <1>1, <1>2 DEF Appended, TypeOK
  <1>7. UndisturbedHasMaterial'
    BY <1>3, <1>5, <1>6 DEF UndisturbedHasMaterial
  <1>8. ASSUME NEW s \in Secret \ disturbed, NEW r \in Rev
        PROVE  /\ r <= active'[s] => file[<<s, r>>] # NoFile
               /\ s \notin killed /\ file[<<s, r>>] # NoFile /\ r > active'[s]
                   =>
                    \E d \in Callers : /\ pc'[d] \in {"commit", "delete"}
                                       /\ secret[d] = s /\ rev[d] = r
    <2>1. /\ r <= active[s] => file[<<s, r>>] # NoFile
          /\ s \notin killed /\ file[<<s, r>>] # NoFile /\ r > active[s] =>
               \E d \in Callers : /\ pc[d] \in {"commit", "delete"}
                                  /\ secret[d] = s /\ rev[d] = r
      BY DEF FilesMatchRows
    <2>2. r \in Int
      BY Ranges
    <2>3. CASE s = t
      <3>1. r <= active'[s] => r <= active[s] \/ r = rev[c]
        BY <1>2, <1>4, <1>6, <2>2, <2>3
      <3>2. r <= active'[s] => file[<<s, r>>] # NoFile
        BY <1>3, <1>4, <2>1, <2>3, <3>1
      <3>3. r > active'[s] => r > active[s] /\ r # rev[c]
        BY <1>2, <1>4, <1>6, <2>2, <2>3
      <3>4. QED
        BY <1>5, <2>1, <3>2, <3>3
    <2>4. CASE s # t
      BY <1>5, <1>6, <2>1, <2>4
    <2>5. QED
      BY <2>3, <2>4
  <1>9. ASSUME NEW s \in Secret \ disturbed, NEW d \in Callers,
               pc'[d] = "read", secret[d] = s
        PROVE  rev[d] <= active'[s] /\ file[<<s, rev[d]>>] = mat[d]
    <2>1. pc[d] = "read"
      BY <1>5, <1>9
    <2>2. rev[d] <= active[s] /\ file[<<s, rev[d]>>] = mat[d]
      BY <1>9, <2>1 DEF FilesMatchRows
    <2>3. QED
      BY <1>2, <1>4, <1>6, <2>2
  <1>10. QED
    BY <1>5, <1>7, <1>8, <1>9 DEF FilesMatchRows

\* A lone writer stores and removes only the next revision.
LEMMA FilesStep ==
  ASSUME TypeOK, IdsAreFresh, OneWriter, UndisturbedHasMaterial,
      FilesMatchRows, [Next]_vars
  PROVE  UndisturbedHasMaterial' /\ FilesMatchRows'
  <1> USE Constants DEF TypeOK, IdsAreFresh, OneWriter, UndisturbedHasMaterial,
      FilesMatchRows, Writing, vars, rows, locals, ghosts, Enter, Goto,
      Proceed, Return
  <1>1. ASSUME NEW c \in Callers, NEW s \in Secret, NEW m \in Material,
      AddBegin(c, s, m) PROVE UndisturbedHasMaterial' /\ FilesMatchRows'
    BY <1>1 DEF AddBegin
  <1>2. ASSUME NEW c \in Callers, NEW s \in Secret, NEW m \in Material,
      RotateBegin(c, s, m) PROVE UndisturbedHasMaterial' /\ FilesMatchRows'
    BY <1>2 DEF RotateBegin
  <1>3. ASSUME NEW c \in Callers, CheckFile(c) PROVE UndisturbedHasMaterial' /\
      FilesMatchRows'
    BY <1>3 DEF CheckFile, Path
  <1>4. ASSUME NEW c \in Callers, WriteFile(c) PROVE UndisturbedHasMaterial' /\
      FilesMatchRows'
    BY <1>4 DEF WriteFile, Path
  <1>5. ASSUME NEW c \in Callers, WriteFails(c) PROVE UndisturbedHasMaterial'
      /\ FilesMatchRows'
    BY <1>5 DEF WriteFails
  <1>6. ASSUME NEW c \in Callers, Commit(c) PROVE UndisturbedHasMaterial' /\
      FilesMatchRows'
    BY <1>6, CommitKeepsFiles
  <1>7. ASSUME NEW c \in Callers, Conflict(c) PROVE UndisturbedHasMaterial' /\
      FilesMatchRows'
    <2>1. /\ UNCHANGED <<status, active, print, file, disturbed, killed>>
          /\ secret' = secret /\ rev' = rev /\ mat' = mat
          /\ pc' = [pc EXCEPT ![c] = "delete"]
      BY <1>7 DEF Conflict
    <2>2. \A d \in Callers : /\ pc[d] \in {"commit", "delete"}
                               => pc'[d] \in {"commit", "delete"}
                            /\ pc'[d] = "read" => pc[d] = "read"
      BY <2>1
    <2>3. QED
      BY <2>1, <2>2
  <1>8. ASSUME NEW c \in Callers, CommitFails(c) PROVE UndisturbedHasMaterial'
      /\ FilesMatchRows'
    BY <1>8 DEF CommitFails
  <1>9. ASSUME NEW c \in Callers, AnswerLost(c) PROVE UndisturbedHasMaterial'
      /\ FilesMatchRows'
    BY <1>9, StatementEffect DEF AnswerLost, Appended
  <1>10. ASSUME NEW c \in Callers, DeleteFile(c) PROVE UndisturbedHasMaterial'
      /\ FilesMatchRows'
    BY <1>10 DEF DeleteFile, Path
  <1>11. ASSUME NEW c \in Callers, NEW s \in Secret, ReadBegin(c, s) PROVE
      UndisturbedHasMaterial' /\ FilesMatchRows'
    BY <1>11 DEF ReadBegin
  <1>12. ASSUME NEW c \in Callers, ReadFile(c) PROVE UndisturbedHasMaterial' /\
      FilesMatchRows'
    BY <1>12 DEF ReadFile
  <1>13. ASSUME NEW c \in Callers, Kill(c) PROVE UndisturbedHasMaterial' /\
      FilesMatchRows'
    BY <1>13 DEF Kill
  <1>14. ASSUME NEW s \in Secret, Disable(s) PROVE UndisturbedHasMaterial' /\
      FilesMatchRows'
    BY <1>14 DEF Disable
  <1>15. CASE UNCHANGED vars
    BY <1>15
  <1> HIDE DEF TypeOK, IdsAreFresh, OneWriter, UndisturbedHasMaterial,
      FilesMatchRows, Writing, vars, rows, locals, ghosts, Enter, Goto,
      Proceed, Return
  <1>16. QED
    BY <1>1, <1>2, <1>3, <1>4, <1>5, <1>6, <1>7, <1>8, <1>9, <1>10, <1>11,
        <1>12, <1>13, <1>14, <1>15 DEF Next, WriterStep, ReaderStep

-----------------------------------------------------------------------------
IInv ==
  /\ TypeOK /\ IdsAreFresh /\ HistoryIsChain /\ OneWriter
  /\ UndisturbedHasMaterial /\ FilesMatchRows

LEMMA IInvInit == Init => IInv
  <1> SUFFICES ASSUME Init PROVE IInv
    OBVIOUS
  <1> USE Constants DEF Init
  <1>1. TypeOK
    <2>1. file \in [Secret \X Rev -> Material \cup {NoFile}]
      OBVIOUS
    <2>2. rev \in [Callers -> Rev] /\ used \in [Kind -> Nat]
            /\ active \in [Secret -> 0 .. MaxRev]
      OBVIOUS
    <2>3. QED
      BY <2>1, <2>2 DEF TypeOK
  <1>2. IdsAreFresh /\ HistoryIsChain /\ OneWriter
    BY DEF IdsAreFresh, HistoryIsChain, OneWriter, Writing
  <1>3. UndisturbedHasMaterial /\ FilesMatchRows
    BY DEF UndisturbedHasMaterial, FilesMatchRows
  <1>4. QED
    BY <1>1, <1>2, <1>3 DEF IInv

LEMMA IInvStep == IInv /\ [Next]_vars => IInv'
  BY TypeStep, FreshStep, ChainStep, WriterIsOne, FilesStep DEF IInv

THEOREM Invariance == Spec => []IInv
  BY IInvInit, IInvStep, PTL DEF Spec

\* Every variable keeps to its set, for all values of the constants.
THEOREM TypeCorrect == Spec => []TypeOK
  <1>1. IInv => TypeOK
    BY DEF IInv
  <1>2. QED
    BY Invariance, <1>1, PTL

\* rotate_credential's check of the revision keeps the history of a secret one
\* chain, however many callers rotate at once and whatever fails.
THEOREM RevisionsAreChained == Spec => []HistoryIsChain
  <1>1. IInv => HistoryIsChain
    BY DEF IInv
  <1>2. QED
    BY Invariance, <1>1, PTL

\* What add and rotate store and remove leaves the material of the active
\* revision alone, if rotations do not overlap and the database answers.
THEOREM MaterialIsKept == Spec => []UndisturbedHasMaterial
  <1>1. IInv => UndisturbedHasMaterial
    BY DEF IInv
  <1>2. QED
    BY Invariance, <1>1, PTL

\* A caller that fails, and is not killed, takes its file away again.
THEOREM NothingIsLeftOver == Spec => []NoLeftovers
  <1>1. IInv => NoLeftovers
    <2> SUFFICES ASSUME IInv,
                        NEW s \in Secret \ (disturbed \cup killed), NEW r \in
                            Rev,
                        \A c \in Callers :
                          secret[c] = s => pc[c] \in {"idle", "read"}
                 PROVE  file[<<s, r>>] # NoFile <=> r <= active[s]
      BY DEF NoLeftovers
    <2>1. r <= active[s] => file[<<s, r>>] # NoFile
      BY DEF IInv, FilesMatchRows
    <2>2. file[<<s, r>>] # NoFile => ~(r > active[s])
      BY DEF IInv, FilesMatchRows
    <2>3. r \in Int /\ active[s] \in Int
      BY Constants DEF IInv, TypeOK
    <2>4. QED
      BY <2>1, <2>2, <2>3
  <1>2. QED
    BY Invariance, <1>1, PTL

\* A consumer reads what the row named, also when it changes in between.
THEOREM ReadersGetWhatWasNamed == Spec => ReadsWhatTheRowNamed
  <1>1. IInv => [\A c \in Callers : ReadFile(c) /\ secret[c] \notin disturbed
                   => file[Path(c)] = mat[c]]_vars
    BY DEF IInv, FilesMatchRows, ReadFile, Path, TypeOK
  <1>2. QED
    BY Invariance, <1>1, PTL DEF ReadsWhatTheRowNamed
=============================================================================
