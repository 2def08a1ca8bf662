------------------------- MODULE PluginRuntimeProofs ------------------------
(***************************************************************************)
(* For any number of Configure and Attest calls and of file rotations:     *)
(* what is published is complete and in order, no client is forgotten, no  *)
(* request under way loses its connection, and the server's runtime is one *)
(* register.                                                               *)
(***************************************************************************)
EXTENDS PluginRuntime, TLAPS

(* The stages in which a Configure call holds the mutex.                   *)
Inside == {"decode"} \cup Roles \cup {"connect", "swap", "retire"}

(* A Configure call that has swapped its runtime in.                       *)
Applied(c) == cpc[c] = "retire" \/ (cpc[c] = "done" /\ reply[c] = "ok")

InSwaps(c) == \E i \in DOMAIN swaps : swaps[i] = c

(* configureMu is held by the one call that is inside.                     *)
LockInv == \A c \in Configures : lock = c <=> cpc[c] \in Inside

ReplyInv == \A c \in Configures : reply[c] # "none" <=> cpc[c] = "done"

(* How far the files have been read, and what a call about to swap has.    *)
ReadInv ==
    \A c \in Configures :
        /\ cpc[c] \in {"idle", "entry", "decode"} => \A r \in Roles : loaded[c][r] = None
        /\ cpc[c] \in {"tls_cert_path", "tls_key_path", "connect", "swap"}
              => loaded[c]["tls_ca_path"] # None
        /\ cpc[c] \in {"tls_key_path", "connect", "swap"} => loaded[c]["tls_cert_path"] # None
        /\ cpc[c] \in {"connect", "swap"} => loaded[c]["tls_key_path"] # None
        /\ cpc[c] = "swap" => PairMatches(c)

(* The runtimes published so far are those of the calls that applied; the  *)
(* last one is in force.                                                   *)
SwapInv ==
    /\ published = IF swaps = <<>> THEN None ELSE swaps[Len(swaps)]
    /\ \A c \in Configures : InSwaps(c) <=> Applied(c)
    /\ \A c \in Configures : Applied(c) =>
        /\ \A r \in Roles : loaded[c][r] # None
        /\ PairMatches(c)
        /\ c \in connected

(* A snapshot is a runtime that was published.                             *)
SnapshotInv == \A h \in Handlers : using[h] # None => InSwaps(using[h])

(* The open clients are the published one and what the call inside has yet *)
(* to publish or to retire.                                                *)
Pending(c) ==
    CASE cpc[c] = "swap"   -> {c}
      [] cpc[c] = "retire" -> {old[c]} \ {None}
      [] OTHER             -> {}

ClientInv ==
    /\ connected \ closed =
        ({published} \ {None}) \cup (IF lock = None THEN {} ELSE Pending(lock))
    /\ \A c \in Configures :
        /\ c \in connected => cpc[c] \in {"swap", "retire", "done"}
        /\ cpc[c] = "retire" => published = c /\ old[c] # c /\ old[c] \in connected \cup {None}

(* No call has read a version newer than the file's, and a call that has   *)
(* not yet swapped has read nothing older than what was published.         *)
OrderInv ==
    /\ \A c \in Configures, r \in Roles : loaded[c][r] # None => loaded[c][r] <= files[r]
    /\ \A c \in Configures, r \in Roles :
        cpc[c] \in Roles \cup {"connect", "swap"} /\ loaded[c][r] # None =>
            \A i \in DOMAIN swaps : loaded[swaps[i]][r] <= loaded[c][r]
    /\ CredentialsNeverRegress

RuntimeInv ==
    /\ RuntimeTypeOK
    /\ LockInv /\ ReplyInv /\ ReadInv /\ SwapInv /\ SnapshotInv /\ ClientInv /\ OrderInv

-----------------------------------------------------------------------------
(* The plugin starts in the invariant.                                     *)
LEMMA RuntimeInit == Init => RuntimeInv
<1> SUFFICES ASSUME Init PROVE RuntimeInv
  OBVIOUS
<1>1. RuntimeTypeOK
  BY RuntimeAssumption DEF Init, RuntimeTypeOK, Versions, ConfigureStages, Replies
<1>2. LockInv /\ ReplyInv /\ ReadInv
  BY RuntimeAssumption DEF Init, LockInv, ReplyInv, ReadInv, Inside, Roles
<1>3. SwapInv /\ SnapshotInv
  BY DEF Init, SwapInv, SnapshotInv, InSwaps, Applied
<1>4. ClientInv
  BY DEF Init, ClientInv
<1>5. OrderInv
  BY DEF Init, OrderInv, CredentialsNeverRegress, Roles
<1> QED
  BY <1>1, <1>2, <1>3, <1>4, <1>5 DEF RuntimeInv

(* Only one call is inside.                                                *)
LEMMA OneInside ==
    ASSUME LockInv, NEW c \in Configures, cpc[c] \in Inside
    PROVE  lock = c /\ \A d \in Configures : cpc[d] \in Inside => d = c
BY DEF LockInv

(* Steps that change nothing but where a call is, between two stages in    *)
(* which it has neither read a file nor connected: Call, Lock, and a       *)
(* configuration that is valid.                                            *)
LEMMA EnteringPreserves ==
    ASSUME RuntimeInv, NEW c \in Configures,
           Call(c) \/ Lock(c) \/ (/\ cpc[c] = "decode" /\ Goes(c, "tls_ca_path")
                                  /\ UNCHANGED <<files, attestVars, lock, published, loaded,
                                                 old, reply, connected, closed, swaps>>)
    PROVE  RuntimeInv'
<1> USE DEF RuntimeInv, Call, Lock, Goes, attestVars
<1>0. /\ cpc' = [cpc EXCEPT ![c] = cpc'[c]]
      /\ \/ cpc[c] = "idle" /\ cpc'[c] = "entry" /\ lock' = lock
         \/ cpc[c] = "entry" /\ cpc'[c] = "decode" /\ lock = None /\ lock' = c
         \/ cpc[c] = "decode" /\ cpc'[c] = "tls_ca_path" /\ lock' = lock
      /\ UNCHANGED <<files, published, loaded, old, reply, connected, closed, swaps,
                     hpc, using, conn>>
  BY DEF RuntimeTypeOK
<1>1. RuntimeTypeOK'
  <2>1. cpc'[c] \in ConfigureStages
    BY <1>0 DEF ConfigureStages, Roles
  <2>2. cpc' \in [Configures -> ConfigureStages] /\ lock' \in Configures \cup {None}
    BY <1>0, <2>1 DEF RuntimeTypeOK
  <2> QED
    BY <1>0, <2>2 DEF RuntimeTypeOK
<1>2. LockInv' /\ ReplyInv' /\ ReadInv'
  BY <1>0, RuntimeAssumption
     DEF RuntimeTypeOK, LockInv, ReplyInv, ReadInv, Inside, Roles, PairMatches
<1>a. \A d \in Configures : Applied(d)' <=> Applied(d)
  BY <1>0 DEF RuntimeTypeOK, Applied
<1>b. SwapInv'
  BY <1>0, <1>a DEF SwapInv, InSwaps, PairMatches
<1>3. SnapshotInv'
  BY <1>0 DEF SnapshotInv, InSwaps
<1>4. ClientInv'
  BY <1>0, RuntimeAssumption DEF RuntimeTypeOK, ClientInv, Pending, LockInv, Inside
<1>5. OrderInv'
  <2>1. \A d \in Configures, r \in Roles :
          cpc'[d] \in Roles \cup {"connect", "swap"} /\ loaded[d][r] # None =>
            cpc[d] \in Roles \cup {"connect", "swap"}
    BY <1>0 DEF RuntimeTypeOK, ReadInv
  <2> QED
    BY <1>0, <2>1 DEF OrderInv, CredentialsNeverRegress
<1> QED
  BY <1>0, <1>1, <1>2, <1>b, <1>3, <1>4, <1>5

(* A Configure that fails before it connected changes nothing else.        *)
LEMMA FailingPreserves ==
    ASSUME RuntimeInv, NEW c \in Configures, NEW answer \in {"invalid", "other", "canceled"},
           cpc[c] \in {"decode", "connect"} \cup Roles,
           Returns(c, answer),
           UNCHANGED <<files, attestVars, published, loaded, old, connected, closed, swaps>>
    PROVE  RuntimeInv'
<1> USE DEF RuntimeInv, attestVars
<1>0. lock = c /\ \A d \in Configures : cpc[d] \in Inside => d = c
  BY OneInside DEF Inside
<1>1. /\ cpc' = [cpc EXCEPT ![c] = "done"]
      /\ reply' = [reply EXCEPT ![c] = answer]
      /\ lock' = None
  BY <1>0 DEF Returns, Goes
<1>2. RuntimeTypeOK'
  BY <1>1 DEF RuntimeTypeOK, ConfigureStages, Replies
<1>3. LockInv' /\ ReplyInv' /\ ReadInv'
  BY <1>0, <1>1, RuntimeAssumption
     DEF RuntimeTypeOK, LockInv, ReplyInv, ReadInv, Inside, Roles, PairMatches
<1>4. ~Applied(c) /\ ~Applied(c)' /\ \A d \in Configures \ {c} : Applied(d)' <=> Applied(d)
  BY <1>1 DEF Applied, RuntimeTypeOK, Roles, ReplyInv
<1>6. SwapInv'
  BY <1>1, <1>4 DEF SwapInv, InSwaps, PairMatches
<1>7. ClientInv'
  BY <1>0, <1>1, RuntimeAssumption DEF RuntimeTypeOK, ClientInv, Pending, Roles
<1>8. SnapshotInv' /\ OrderInv'
  BY <1>1 DEF RuntimeTypeOK, SnapshotInv, InSwaps, OrderInv, CredentialsNeverRegress, Roles
<1> QED
  BY <1>2, <1>3, <1>6, <1>7, <1>8

(* One of the files is read; it is at least as new as what was published.  *)
LEMMA ReadingPreserves ==
    ASSUME RuntimeInv, NEW c \in Configures, cpc[c] \in Roles,
           loaded' = [loaded EXCEPT ![c][cpc[c]] = files[cpc[c]]],
           Goes(c, AfterRole(cpc[c])),
           UNCHANGED <<files, attestVars, lock, reply, published, old, connected, closed, swaps>>
    PROVE  RuntimeInv'
<1> USE DEF RuntimeInv, attestVars
<1> DEFINE role == cpc[c]
<1>0. lock = c /\ \A d \in Configures : cpc[d] \in Inside => d = c
  BY OneInside DEF Inside
<1>1. /\ cpc' = [cpc EXCEPT ![c] = AfterRole(role)]
      /\ AfterRole(role) \in {"tls_cert_path", "tls_key_path", "connect"}
      /\ role = "tls_ca_path" => AfterRole(role) = "tls_cert_path"
      /\ role = "tls_cert_path" => AfterRole(role) = "tls_key_path"
      /\ role = "tls_key_path" => AfterRole(role) = "connect"
  BY DEF Goes, AfterRole, Roles
<1>2. /\ files[role] \in Versions /\ files[role] # None /\ files[role] \in Nat
      /\ loaded'[c][role] = files[role]
      /\ \A r \in Roles \ {role} : loaded'[c][r] = loaded[c][r]
      /\ \A d \in Configures \ {c} : loaded'[d] = loaded[d]
      /\ loaded' \in [Configures -> [Roles -> Versions \cup {None}]]
  BY RuntimeAssumption DEF RuntimeTypeOK, Versions
<1>3. RuntimeTypeOK'
  BY <1>1, <1>2 DEF RuntimeTypeOK, ConfigureStages, Roles
<1>4. LockInv' /\ ReplyInv'
  BY <1>0, <1>1 DEF RuntimeTypeOK, LockInv, ReplyInv, Inside, Roles
<1>5. ReadInv'
  BY <1>1, <1>2 DEF RuntimeTypeOK, ReadInv, PairMatches, Roles
<1>6. ~Applied(c) /\ ~Applied(c)' /\ \A d \in Configures \ {c} : Applied(d)' <=> Applied(d)
  BY <1>1 DEF Applied, RuntimeTypeOK, Roles
<1>7. \A i \in DOMAIN swaps : swaps[i] \in Configures /\ swaps[i] # c /\ loaded'[swaps[i]] = loaded[swaps[i]]
  BY <1>2, <1>6 DEF SwapInv, InSwaps, RuntimeTypeOK
<1>8. SwapInv'
  BY <1>2, <1>6 DEF SwapInv, InSwaps, PairMatches
<1>9. ClientInv'
  BY <1>0, <1>1, RuntimeAssumption DEF RuntimeTypeOK, ClientInv, Pending, Roles
<1>10. SnapshotInv'
  BY DEF SnapshotInv, InSwaps
<1>11. OrderInv'
  <2>1. ASSUME NEW i \in DOMAIN swaps
        PROVE  loaded[swaps[i]][role] <= files[role]
    <3>1. swaps[i] \in Configures /\ InSwaps(swaps[i])
      BY <1>7 DEF InSwaps
    <3>2. loaded[swaps[i]][role] # None
      BY <3>1 DEF SwapInv
    <3> QED
      BY <3>1, <3>2 DEF OrderInv
  <2>2. \A d \in Configures, r \in Roles : loaded'[d][r] # None => loaded'[d][r] <= files[r]
    BY <1>2 DEF OrderInv
  <2>3. ASSUME NEW d \in Configures, NEW r \in Roles,
               cpc'[d] \in Roles \cup {"connect", "swap"}, loaded'[d][r] # None,
               NEW i \in DOMAIN swaps
        PROVE  loaded'[swaps[i]][r] <= loaded'[d][r]
    <3>1. d = c
      BY <1>0, <1>1, <2>3 DEF RuntimeTypeOK, Inside, Roles
    <3>2. CASE r = role
      BY <1>2, <1>7, <2>1, <3>1, <3>2
    <3>3. CASE r # role
      BY <1>2, <1>7, <2>3, <3>1, <3>3 DEF OrderInv
    <3> QED
      BY <3>2, <3>3
  <2>4. CredentialsNeverRegress'
    BY <1>7 DEF OrderInv, CredentialsNeverRegress
  <2> QED
    BY <2>2, <2>3, <2>4 DEF OrderInv
<1> QED
  BY <1>3, <1>4, <1>5, <1>8, <1>9, <1>10, <1>11

(* The client connects; if Incus cannot be read afterwards, its idle       *)
(* connections are closed before Configure returns.                        *)
LEMMA ConnectPreserves ==
    ASSUME RuntimeInv, NEW c \in Configures, Connect(c)
    PROVE  RuntimeInv'
<1> USE DEF RuntimeInv, attestVars
<1>0. lock = c /\ \A d \in Configures : cpc[d] \in Inside => d = c
  BY OneInside DEF Inside, Connect
<1>1. c \notin connected /\ c # published /\ c # None
  <2>1. ~Applied(c)
    BY DEF Connect, Applied
  <2>2. published # None => InSwaps(published)
    BY DEF SwapInv, InSwaps, RuntimeTypeOK
  <2> QED
    BY <2>1, <2>2, RuntimeAssumption DEF Connect, ClientInv, SwapInv
<1>2. CASE Goes(c, "swap") /\ UNCHANGED <<reply, lock, closed>>
  <2>0. cpc' = [cpc EXCEPT ![c] = "swap"] /\ connected' = connected \cup {c}
    BY <1>2 DEF Goes, Connect
  <2>1. RuntimeTypeOK'
    BY <1>2, <2>0 DEF Connect, RuntimeTypeOK, ConfigureStages
  <2>2. LockInv' /\ ReplyInv' /\ ReadInv'
    BY <1>0, <1>2, <2>0 DEF Connect, RuntimeTypeOK, LockInv, ReplyInv, ReadInv, Inside, PairMatches, Roles
  <2>3. \A d \in Configures : Applied(d)' <=> Applied(d)
    BY <1>2, <2>0 DEF Connect, Applied, RuntimeTypeOK
  <2>4. SwapInv' /\ SnapshotInv'
    BY <1>2, <2>0, <2>3 DEF Connect, SwapInv, SnapshotInv, InSwaps, PairMatches
  <2>5. ClientInv'
    <3>1. Pending(c) = {} /\ Pending(c)' = {c}
      BY <2>0 DEF Pending, Connect, RuntimeTypeOK
    <3>2. (connected \ closed)' = ({published} \ {None}) \cup {c}
      BY <1>0, <1>1, <1>2, <2>0, <3>1, RuntimeAssumption DEF ClientInv, RuntimeTypeOK
    <3>3. \A d \in Configures :
            /\ d \in connected' => cpc'[d] \in {"swap", "retire", "done"}
            /\ cpc'[d] = "retire" => published = d /\ old[d] # d /\ old[d] \in connected' \cup {None}
      BY <2>0 DEF ClientInv, RuntimeTypeOK
    <3> QED
      BY <1>0, <1>2, <3>1, <3>2, <3>3, RuntimeAssumption DEF ClientInv, Connect, Pending
  <2>6. OrderInv'
    BY <1>2, <2>0 DEF Connect, RuntimeTypeOK, OrderInv, CredentialsNeverRegress
  <2> QED
    BY <2>1, <2>2, <2>4, <2>5, <2>6 DEF Connect
<1>3. ASSUME NEW answer \in {"other", "canceled"}, Returns(c, answer), closed' = closed \cup {c}
      PROVE  RuntimeInv'
  <2>0. /\ cpc' = [cpc EXCEPT ![c] = "done"]
        /\ reply' = [reply EXCEPT ![c] = answer]
        /\ lock' = None
        /\ connected' = connected \cup {c}
    BY <1>0, <1>3 DEF Returns, Goes, Connect
  <2>1. RuntimeTypeOK'
    BY <1>3, <2>0 DEF Connect, RuntimeTypeOK, ConfigureStages, Replies
  <2>2. LockInv' /\ ReplyInv' /\ ReadInv'
    BY <1>0, <2>0, RuntimeAssumption
       DEF Connect, RuntimeTypeOK, LockInv, ReplyInv, ReadInv, Inside, PairMatches, Roles
  <2>3. ~Applied(c) /\ ~Applied(c)' /\ \A d \in Configures \ {c} : Applied(d)' <=> Applied(d)
    BY <2>0 DEF Connect, Applied, RuntimeTypeOK
  <2>5. SwapInv' /\ SnapshotInv'
    BY <2>0, <2>3 DEF Connect, SwapInv, SnapshotInv, InSwaps, PairMatches
  <2>6. ClientInv'
    <3>1. Pending(c) = {}
      BY DEF Pending, Connect
    <3>2. (connected \ closed)' = {published} \ {None}
      BY <1>0, <1>1, <1>3, <2>0, <3>1, RuntimeAssumption DEF ClientInv, RuntimeTypeOK
    <3>3. \A d \in Configures :
            /\ d \in connected' => cpc'[d] \in {"swap", "retire", "done"}
            /\ cpc'[d] = "retire" => published = d /\ old[d] # d /\ old[d] \in connected' \cup {None}
      BY <2>0 DEF ClientInv, RuntimeTypeOK
    <3> QED
      BY <2>0, <3>2, <3>3 DEF ClientInv, Connect
  <2>7. OrderInv'
    BY <2>0 DEF Connect, RuntimeTypeOK, OrderInv, CredentialsNeverRegress, Roles
  <2> QED
    BY <2>1, <2>2, <2>5, <2>6, <2>7 DEF Connect
<1> QED
  BY <1>2, <1>3 DEF Connect

(* The new runtime takes the place of the one in force, which the call has *)
(* yet to retire.                                                          *)
LEMMA SwapPreserves ==
    ASSUME RuntimeInv, NEW c \in Configures, Swap(c)
    PROVE  RuntimeInv'
<1> USE DEF RuntimeInv, attestVars
<1>0. /\ lock = c
      /\ \A d \in Configures : cpc[d] \in Inside => d = c
      /\ cpc[c] = "swap"
  BY OneInside DEF Inside, Swap
<1>1. /\ cpc' = [cpc EXCEPT ![c] = "retire"]
      /\ old' = [old EXCEPT ![c] = published]
      /\ published' = c
      /\ swaps' = Append(swaps, c)
      /\ UNCHANGED <<files, lock, loaded, reply, connected, closed, hpc, using, conn>>
  BY DEF Swap, Publish, Goes
<1>2. /\ swaps' \in Seq(Configures)
      /\ Len(swaps') = Len(swaps) + 1
      /\ Len(swaps) \in Nat
      /\ DOMAIN swaps = 1 .. Len(swaps)
      /\ DOMAIN swaps' = 1 .. Len(swaps) + 1
      /\ \A i \in DOMAIN swaps : swaps'[i] = swaps[i] /\ swaps[i] \in Configures
      /\ swaps'[Len(swaps) + 1] = c
  BY <1>1 DEF RuntimeTypeOK
<1>3. RuntimeTypeOK'
  BY <1>1, <1>2 DEF RuntimeTypeOK, ConfigureStages
<1>4. LockInv' /\ ReplyInv' /\ ReadInv'
  BY <1>0, <1>1 DEF RuntimeTypeOK, LockInv, ReplyInv, ReadInv, Inside, PairMatches, Roles
<1>5. ~Applied(c) /\ Applied(c)' /\ \A d \in Configures \ {c} : Applied(d)' <=> Applied(d)
  BY <1>0, <1>1 DEF Applied, RuntimeTypeOK
<1>6. InSwaps(c)' /\ \A d \in Configures \ {c} : InSwaps(d)' <=> InSwaps(d)
  BY <1>2 DEF InSwaps
<1>8. c \in connected /\ \A r \in Roles : loaded[c][r] # None
  <2>1. c \in connected
    BY <1>0, RuntimeAssumption DEF ClientInv, Pending
  <2> QED
    BY <1>0, <2>1 DEF ReadInv, Roles
<1>9. SwapInv'
  <2>1. swaps' # <<>> /\ published' = swaps'[Len(swaps')]
    BY <1>1, <1>2
  <2>2. \A d \in Configures : InSwaps(d)' <=> Applied(d)'
    BY <1>5, <1>6 DEF SwapInv
  <2>4. PairMatches(c)
    BY <1>0 DEF ReadInv
  <2>5. \A d \in Configures : Applied(d)' =>
            /\ \A r \in Roles : loaded[d][r] # None
            /\ PairMatches(d)
            /\ d \in connected
    BY <1>5, <1>8, <2>4 DEF SwapInv
  <2> QED
    BY <1>1, <2>1, <2>2, <2>5 DEF SwapInv, PairMatches
<1>10. SnapshotInv'
  BY <1>1, <1>2, <1>6 DEF SnapshotInv, RuntimeTypeOK
<1>11. ClientInv'
  <2>1. c # published /\ published \in connected \cup {None}
    <3>1. published # None => InSwaps(published)
      BY DEF SwapInv, InSwaps, RuntimeTypeOK
    <3> QED
      BY <1>5, <3>1, RuntimeAssumption DEF SwapInv, RuntimeTypeOK
  <2>2. Pending(c) = {c} /\ Pending(c)' = {published} \ {None}
    BY <1>0, <1>1 DEF Pending, RuntimeTypeOK
  <2>3. connected \ closed = ({published} \ {None}) \cup {c}
    BY <1>0, <2>2, RuntimeAssumption DEF ClientInv
  <2>4. (connected \ closed)' = ({published'} \ {None}) \cup Pending(c)'
    BY <1>1, <2>2, <2>3, RuntimeAssumption
  <2>5. \A d \in Configures :
          /\ d \in connected' => cpc'[d] \in {"swap", "retire", "done"}
          /\ cpc'[d] = "retire" => published' = d /\ old'[d] # d /\ old'[d] \in connected' \cup {None}
    <3>1. \A d \in Configures \ {c} : cpc'[d] # "retire"
      BY <1>0, <1>1 DEF Inside, RuntimeTypeOK
    <3> QED
      BY <1>0, <1>1, <2>1, <3>1 DEF ClientInv, RuntimeTypeOK
  <2> QED
    BY <1>0, <1>1, <2>4, <2>5, RuntimeAssumption DEF ClientInv, Pending
<1>12. OrderInv'
  <2>1. \A d \in Configures : cpc'[d] \notin Roles \cup {"connect", "swap"}
    BY <1>0, <1>1 DEF RuntimeTypeOK, Inside, Roles
  <2>2. CredentialsNeverRegress'
    <3> SUFFICES ASSUME NEW i \in DOMAIN swaps', NEW j \in DOMAIN swaps', i < j, NEW r \in Roles
                 PROVE  loaded[swaps'[i]][r] <= loaded[swaps'[j]][r]
      BY <1>1 DEF CredentialsNeverRegress
    <3>1. CASE j = Len(swaps) + 1
      <4>1. i \in DOMAIN swaps /\ swaps'[i] = swaps[i] /\ swaps'[j] = c
        BY <1>2, <3>1
      <4> QED
        BY <1>0, <1>8, <4>1 DEF OrderInv
    <3>2. CASE j # Len(swaps) + 1
      <4>1. i \in DOMAIN swaps /\ j \in DOMAIN swaps /\ swaps'[i] = swaps[i] /\ swaps'[j] = swaps[j]
        BY <1>2, <3>2
      <4> QED
        BY <4>1 DEF OrderInv, CredentialsNeverRegress
    <3> QED
      BY <3>1, <3>2
  <2> QED
    BY <1>1, <2>1, <2>2 DEF OrderInv
<1> QED
  BY <1>3, <1>4, <1>9, <1>10, <1>11, <1>12

(* The superseded client's idle connections are closed, and Configure is   *)
(* acknowledged.                                                           *)
LEMMA RetirePreserves ==
    ASSUME RuntimeInv, NEW c \in Configures, RetireAndReturn(c)
    PROVE  RuntimeInv'
<1> USE DEF RuntimeInv
<1>0. /\ lock = c
      /\ \A d \in Configures : cpc[d] \in Inside => d = c
      /\ cpc[c] = "retire"
  BY OneInside DEF Inside, RetireAndReturn
<1>1. /\ cpc' = [cpc EXCEPT ![c] = "done"]
      /\ reply' = [reply EXCEPT ![c] = "ok"]
      /\ lock' = None
      /\ closed' = closed \cup ({old[c]} \ {None})
      /\ conn' = [h \in Handlers |->
                   IF using[h] = old[c] /\ conn[h] = "idle" THEN "closed" ELSE conn[h]]
      /\ UNCHANGED <<files, published, loaded, old, connected, swaps, hpc, using>>
  BY <1>0 DEF RetireAndReturn, Retire, Returns, Goes
<1>2. published = c /\ old[c] # c /\ old[c] \in connected \cup {None}
  BY <1>0 DEF ClientInv
<1>3. RuntimeTypeOK'
  BY <1>1, <1>2 DEF RuntimeTypeOK, ConfigureStages, Replies
<1>4. LockInv' /\ ReplyInv' /\ ReadInv'
  BY <1>0, <1>1, RuntimeAssumption
     DEF RuntimeTypeOK, LockInv, ReplyInv, ReadInv, Inside, PairMatches, Roles
<1>5. \A d \in Configures : Applied(d)' <=> Applied(d)
  BY <1>0, <1>1 DEF Applied, RuntimeTypeOK
<1>7. SwapInv' /\ SnapshotInv'
  BY <1>1, <1>5 DEF SwapInv, SnapshotInv, InSwaps, PairMatches
<1>8. ClientInv'
  <2>1. connected \ closed = {c} \cup ({old[c]} \ {None})
    BY <1>0, <1>2, RuntimeAssumption DEF ClientInv, Pending
  <2>2. (connected \ closed)' = {published'} \ {None}
    BY <1>1, <1>2, <2>1, RuntimeAssumption
  <2>3. \A d \in Configures :
          /\ d \in connected' => cpc'[d] \in {"swap", "retire", "done"}
          /\ cpc'[d] # "retire"
    BY <1>0, <1>1 DEF ClientInv, RuntimeTypeOK, Inside
  <2> QED
    BY <1>1, <2>2, <2>3 DEF ClientInv
<1>9. OrderInv'
  BY <1>0, <1>1 DEF RuntimeTypeOK, OrderInv, CredentialsNeverRegress, Roles
<1> QED
  BY <1>3, <1>4, <1>7, <1>8, <1>9

(* Attest calls change only their own part of the state.                   *)
LEMMA AttestPreserves ==
    ASSUME RuntimeInv, NEW h \in Handlers,
           Arrive(h) \/ LoadRuntime(h) \/ Request(h) \/ Answer(h) \/ Finish(h)
    PROVE  RuntimeInv'
<1> USE DEF RuntimeInv
<1>0. UNCHANGED <<files, configureVars>>
  BY DEF Arrive, LoadRuntime, Request, Answer, Finish
<1>1. RuntimeTypeOK'
  <2>t. /\ hpc \in [Handlers -> {"idle", "entry", "run", "done"}]
        /\ using \in [Handlers -> Configures \cup {None}]
        /\ conn \in [Handlers -> {"none", "busy", "idle", "closed"}]
        /\ published \in Configures \cup {None}
    BY DEF RuntimeTypeOK
  <2>1. hpc' \in [Handlers -> {"idle", "entry", "run", "done"}]
    BY <2>t DEF Arrive, LoadRuntime, Request, Answer, Finish
  <2>2. using' \in [Handlers -> Configures \cup {None}]
    BY <2>t DEF Arrive, LoadRuntime, Request, Answer, Finish
  <2>3. conn' \in [Handlers -> {"none", "busy", "idle", "closed"}]
    BY <2>t DEF Arrive, LoadRuntime, Request, Answer, Finish
  <2> QED
    BY <1>0, <2>1, <2>2, <2>3 DEF RuntimeTypeOK, configureVars
<1>2. LockInv' /\ ReplyInv' /\ ReadInv' /\ SwapInv' /\ ClientInv' /\ OrderInv'
  BY <1>0 DEF configureVars, LockInv, ReplyInv, ReadInv, SwapInv, InSwaps, Applied, PairMatches,
              ClientInv, Pending, OrderInv, CredentialsNeverRegress
<1>3. SnapshotInv'
  <2>1. published # None => InSwaps(published)
    BY DEF SwapInv, InSwaps, RuntimeTypeOK
  <2> QED
    BY <1>0, <2>1
       DEF configureVars, SnapshotInv, InSwaps, RuntimeTypeOK, Arrive, LoadRuntime, Request, Answer, Finish
<1> QED
  BY <1>1, <1>2, <1>3

(* A replaced file is newer than what anybody has read.                    *)
LEMMA RotatePreserves ==
    ASSUME RuntimeInv, NEW r \in Roles, Rotate(r)
    PROVE  RuntimeInv'
<1> USE DEF RuntimeInv, configureVars, attestVars
<1>1. RuntimeTypeOK'
  BY RuntimeAssumption DEF RuntimeTypeOK, Rotate, Versions
<1>2. LockInv' /\ ReplyInv' /\ ReadInv' /\ SwapInv' /\ ClientInv' /\ SnapshotInv'
  BY DEF Rotate, LockInv, ReplyInv, ReadInv, SwapInv, InSwaps, Applied, PairMatches,
         ClientInv, Pending, SnapshotInv
<1>3. OrderInv'
  <2>1. \A c \in Configures, s \in Roles : loaded[c][s] # None => loaded[c][s] <= files'[s]
    BY RuntimeAssumption DEF Rotate, RuntimeTypeOK, Versions, OrderInv
  <2> QED
    BY <2>1 DEF Rotate, OrderInv, CredentialsNeverRegress
<1> QED
  BY <1>1, <1>2, <1>3

-----------------------------------------------------------------------------
(* Every step keeps it.                                                    *)
LEMMA RuntimeStep == RuntimeInv /\ [Next]_vars => RuntimeInv'
<1> SUFFICES ASSUME RuntimeInv, [Next]_vars PROVE RuntimeInv'
  OBVIOUS
<1>1. ASSUME NEW c \in Configures, Call(c) \/ ConfigureStep(c) PROVE RuntimeInv'
  <2>1. CASE Call(c) \/ Lock(c)
    BY <2>1, EnteringPreserves
  <2>2. CASE DecodeValidServer(c)
    <3>1. CASE Goes(c, "tls_ca_path") /\ UNCHANGED <<reply, lock>>
      BY <2>2, <3>1, EnteringPreserves DEF DecodeValidServer
    <3>2. CASE Returns(c, "invalid")
      BY <2>2, <3>2, FailingPreserves DEF DecodeValidServer
    <3> QED
      BY <2>2, <3>1, <3>2 DEF DecodeValidServer
  <2>3. CASE ReadCredential(c)
    <3>1. CASE /\ loaded' = [loaded EXCEPT ![c][cpc[c]] = files[cpc[c]]]
               /\ Goes(c, AfterRole(cpc[c]))
               /\ UNCHANGED <<reply, lock>>
      BY <2>3, <3>1, ReadingPreserves DEF ReadCredential
    <3>2. CASE Returns(c, "other") /\ UNCHANGED loaded
      BY <2>3, <3>2, FailingPreserves DEF ReadCredential
    <3> QED
      BY <2>3, <3>1, <3>2 DEF ReadCredential
  <2>4. CASE Connect(c)
    BY <2>4, ConnectPreserves
  <2>5. CASE ConnectFails(c)
    <3>1. PICK answer \in {"other", "canceled"} : Returns(c, answer)
      BY <2>5 DEF ConnectFails
    <3> QED
      BY <2>5, <3>1, FailingPreserves DEF ConnectFails
  <2>6. CASE Swap(c)
    BY <2>6, SwapPreserves
  <2>7. CASE RetireAndReturn(c)
    BY <2>7, RetirePreserves
  <2> QED
    BY <1>1, <2>1, <2>2, <2>3, <2>4, <2>5, <2>6, <2>7 DEF ConfigureStep
<1>2. ASSUME NEW h \in Handlers,
             Arrive(h) \/ LoadRuntime(h) \/ Request(h) \/ Answer(h) \/ Finish(h)
      PROVE  RuntimeInv'
  BY <1>2, AttestPreserves
<1>3. ASSUME NEW r \in Roles, Rotate(r) PROVE RuntimeInv'
  BY <1>3, RotatePreserves
<1>4. CASE UNCHANGED vars
  BY <1>4 DEF vars, configureVars, attestVars, RuntimeInv, RuntimeTypeOK, LockInv, ReplyInv, ReadInv,
              SwapInv, InSwaps, Applied, PairMatches, ClientInv, Pending, SnapshotInv, OrderInv,
              CredentialsNeverRegress
<1> QED
  BY <1>1, <1>2, <1>3, <1>4 DEF Next

(* So it holds throughout.                                                 *)
LEMMA RuntimeInvariance == Spec => []RuntimeInv
BY RuntimeInit, RuntimeStep, PTL DEF Spec

(* Types of the runtime's state; in particular only clients that connected *)
(* have their idle connections closed.                                     *)
THEOREM RuntimeTypes == Spec => []RuntimeTypeOK
<1>1. RuntimeInv => RuntimeTypeOK
  BY DEF RuntimeInv
<1> QED
  BY <1>1, RuntimeInvariance, PTL

(* buildServerRuntime before Swap: what an Attest can load has all its     *)
(* credentials, a certificate with its own key and a connected client,     *)
(* whenever the files are replaced.                                        *)
THEOREM PublishedComplete == Spec => []PublishedIsComplete
<1>1. RuntimeInv => PublishedIsComplete
  <2> SUFFICES ASSUME RuntimeInv, NEW c \in Configures,
                      c = published \/ \E h \in Handlers : using[h] = c
               PROVE  /\ \A r \in Roles : loaded[c][r] # None
                      /\ PairMatches(c)
                      /\ c \in connected
                      /\ reply[c] \in {"none", "ok"}
    BY DEF PublishedIsComplete
  <2>1. InSwaps(c)
    <3>1. CASE c = published
      BY <3>1, RuntimeAssumption DEF RuntimeInv, SwapInv, InSwaps, RuntimeTypeOK
    <3>2. CASE \E h \in Handlers : using[h] = c
      BY <3>2, RuntimeAssumption DEF RuntimeInv, SnapshotInv
    <3> QED
      BY <3>1, <3>2
  <2>2. Applied(c)
    BY <2>1 DEF RuntimeInv, SwapInv
  <2> QED
    BY <2>2 DEF RuntimeInv, SwapInv, Applied, ReplyInv
<1> QED
  BY <1>1, RuntimeInvariance, PTL

(* configureMu around reading and publishing: credentials of a replaced    *)
(* file are never published over newer ones.                               *)
THEOREM NoRegression == Spec => []CredentialsNeverRegress
<1>1. RuntimeInv => CredentialsNeverRegress
  BY DEF RuntimeInv, OrderInv
<1> QED
  BY <1>1, RuntimeInvariance, PTL

(* closeIdle on both paths: outside Configure, the published client is the *)
(* only one whose idle connections are open.                               *)
THEOREM ClientsRetired == Spec => []NoForgottenClient
<1>1. RuntimeInv => NoForgottenClient
  BY DEF RuntimeInv, ClientInv, NoForgottenClient
<1> QED
  BY <1>1, RuntimeInvariance, PTL

(* closeIdle spares what is busy: no step of any call takes a connection   *)
(* from a request under way.                                               *)
THEOREM RequestsSurvive == Spec => InFlightSurvives
<1>1. RuntimeTypeOK /\ [Next]_vars =>
        [\A h \in Handlers : conn[h] = "busy" => conn'[h] \in {"busy", "idle"}]_vars
  <2> SUFFICES ASSUME RuntimeTypeOK, Next, NEW h \in Handlers, conn[h] = "busy"
               PROVE  conn'[h] \in {"busy", "idle"}
    BY DEF vars
  <2>1. ASSUME NEW c \in Configures, Call(c) \/ ConfigureStep(c)
        PROVE  conn'[h] \in {"busy", "idle"}
    <3>1. CASE RetireAndReturn(c)
      BY <3>1 DEF RetireAndReturn, Retire
    <3>2. CASE ~RetireAndReturn(c)
      BY <2>1, <3>2 DEF ConfigureStep, Call, Lock, DecodeValidServer, ReadCredential, Connect,
                        ConnectFails, Swap, attestVars
    <3> QED
      BY <3>1, <3>2
  <2>2. ASSUME NEW g \in Handlers,
               Arrive(g) \/ LoadRuntime(g) \/ Request(g) \/ Answer(g) \/ Finish(g)
        PROVE  conn'[h] \in {"busy", "idle"}
    BY <2>2 DEF RuntimeTypeOK, Arrive, LoadRuntime, Request, Answer, Finish
  <2>3. ASSUME NEW r \in Roles, Rotate(r) PROVE conn'[h] \in {"busy", "idle"}
    BY <2>3 DEF Rotate, attestVars
  <2> QED
    BY <2>1, <2>2, <2>3 DEF Next
<1> QED
  BY <1>1, RuntimeTypes, PTL DEF Spec, InFlightSurvives

-----------------------------------------------------------------------------
(* The register.  How far a Configure call has come for it, and how far an *)
(* attestation has.                                                        *)
WriteStage(c) ==
    CASE cpc[c] = "idle"   -> "idle"
      [] cpc[c] = "retire" -> "applied"
      [] cpc[c] = "done"   -> IF reply[c] = "ok" THEN "ok" ELSE "failed"
      [] OTHER             -> "called"

ReadStage(h) ==
    CASE hpc[h] = "idle"  -> "idle"
      [] hpc[h] = "entry" -> "begun"
      [] OTHER            -> "read"

WriteStages == [c \in Configures |-> WriteStage(c)]
ReadStages == [h \in Handlers |-> ReadStage(h)]

(* A step of one Configure call moves that call only.                      *)
LEMMA WriteMoves ==
    ASSUME NEW c \in Configures,
           \A d \in Configures \ {c} : cpc'[d] = cpc[d] /\ reply'[d] = reply[d]
    PROVE  WriteStages' = [WriteStages EXCEPT ![c] = WriteStage(c)']
<1>1. \A d \in Configures \ {c} : WriteStage(d)' = WriteStage(d)
  BY DEF WriteStage
<1> HIDE DEF WriteStage
<1> QED
  BY <1>1 DEF WriteStages

(* A step of one attestation moves that attestation only.                  *)
LEMMA ReadMoves ==
    ASSUME NEW h \in Handlers,
           \A g \in Handlers \ {h} : hpc'[g] = hpc[g]
    PROVE  ReadStages' = [ReadStages EXCEPT ![h] = ReadStage(h)']
<1>1. \A g \in Handlers \ {h} : ReadStage(g)' = ReadStage(g)
  BY DEF ReadStage
<1> QED
  BY <1>1 DEF ReadStages

(* What a Configure step does to the register: nothing before it fails or  *)
(* swaps, and nothing to the attestations.                                 *)
LEMMA ConfigureMoves ==
    ASSUME RuntimeTypeOK, NEW c \in Configures, Call(c) \/ ConfigureStep(c)
    PROVE  /\ UNCHANGED <<ReadStages, using>>
           /\ WriteStages' = [WriteStages EXCEPT ![c] = WriteStage(c)']
           /\ \/ WriteStage(c)' = WriteStage(c) /\ published' = published
              \/ WriteStage(c) = "idle" /\ WriteStage(c)' = "called" /\ published' = published
              \/ WriteStage(c) = "called" /\ WriteStage(c)' = "failed" /\ published' = published
              \/ WriteStage(c) = "called" /\ WriteStage(c)' = "applied" /\ published' = c
              \/ WriteStage(c) = "applied" /\ WriteStage(c)' = "ok" /\ published' = published
<1>0. UNCHANGED <<hpc, using>> /\ \A d \in Configures \ {c} : cpc'[d] = cpc[d] /\ reply'[d] = reply[d]
  BY DEF ConfigureStep, Call, Lock, DecodeValidServer, ReadCredential, Connect, ConnectFails, Swap,
         RetireAndReturn, Returns, Goes, attestVars, RuntimeTypeOK
<1>1. UNCHANGED <<ReadStages, using>> /\ WriteStages' = [WriteStages EXCEPT ![c] = WriteStage(c)']
  BY <1>0, WriteMoves DEF ReadStages, ReadStage
<1> DEFINE Move ==
      \/ WriteStage(c)' = WriteStage(c) /\ published' = published
      \/ WriteStage(c) = "idle" /\ WriteStage(c)' = "called" /\ published' = published
      \/ WriteStage(c) = "called" /\ WriteStage(c)' = "failed" /\ published' = published
      \/ WriteStage(c) = "called" /\ WriteStage(c)' = "applied" /\ published' = c
      \/ WriteStage(c) = "applied" /\ WriteStage(c)' = "ok" /\ published' = published
<1>2. ASSUME Call(c) PROVE Move
  BY <1>2 DEF Call, Goes, RuntimeTypeOK, WriteStage
<1>3. ASSUME Lock(c) PROVE Move
  BY <1>3 DEF Lock, Goes, RuntimeTypeOK, WriteStage
<1>4. ASSUME DecodeValidServer(c) PROVE Move
  BY <1>4 DEF DecodeValidServer, Returns, Goes, RuntimeTypeOK, WriteStage
<1>5. ASSUME ReadCredential(c) PROVE Move
  BY <1>5 DEF ReadCredential, Returns, Goes, AfterRole, Roles, RuntimeTypeOK, WriteStage
<1>6. ASSUME Connect(c) PROVE Move
  BY <1>6 DEF Connect, Returns, Goes, RuntimeTypeOK, WriteStage
<1>7. ASSUME ConnectFails(c) PROVE Move
  BY <1>7 DEF ConnectFails, Returns, Goes, RuntimeTypeOK, WriteStage
<1>8. ASSUME Swap(c) PROVE Move
  BY <1>8 DEF Swap, Publish, Goes, RuntimeTypeOK, WriteStage
<1>9. ASSUME RetireAndReturn(c) PROVE Move
  BY <1>9 DEF RetireAndReturn, Returns, Goes, RuntimeTypeOK, WriteStage
<1> QED
  BY <1>1, <1>2, <1>3, <1>4, <1>5, <1>6, <1>7, <1>8, <1>9 DEF ConfigureStep

(* An Attest call begins, reads the register once, and is then done with   *)
(* it, whatever it asks of Incus.                                          *)
LEMMA AttestMoves ==
    ASSUME RuntimeTypeOK, NEW h \in Handlers,
           Arrive(h) \/ LoadRuntime(h) \/ Request(h) \/ Answer(h) \/ Finish(h)
    PROVE  /\ UNCHANGED <<WriteStages, published>>
           /\ ReadStages' = [ReadStages EXCEPT ![h] = ReadStage(h)']
           /\ \/ ReadStage(h)' = ReadStage(h) /\ using' = using
              \/ ReadStage(h) = "idle" /\ ReadStage(h)' = "begun" /\ using' = using
              \/ /\ ReadStage(h) = "begun" /\ ReadStage(h)' = "read"
                 /\ using' = [using EXCEPT ![h] = published]
<1>1. /\ UNCHANGED <<cpc, reply, published>>
      /\ \A g \in Handlers \ {h} : hpc'[g] = hpc[g]
  BY DEF Arrive, LoadRuntime, Request, Answer, Finish, configureVars, RuntimeTypeOK
<1>2. UNCHANGED <<WriteStages, published>> /\ ReadStages' = [ReadStages EXCEPT ![h] = ReadStage(h)']
  BY <1>1, ReadMoves DEF WriteStages, WriteStage
<1> QED
  BY <1>2 DEF Arrive, LoadRuntime, Request, Answer, Finish, RuntimeTypeOK, ReadStage

(* The register's actions in the terms of the stages.                      *)
LEMMA RegisterActions ==
    /\ \A c \in Configures : \A from, to :
        Register!Write(c, from, to) <=>
            /\ WriteStages[c] = from
            /\ WriteStages' = [WriteStages EXCEPT ![c] = to]
            /\ UNCHANGED <<ReadStages, using>>
    /\ \A h \in Handlers :
        Register!Begin(h) <=>
            /\ ReadStages[h] = "idle"
            /\ ReadStages' = [ReadStages EXCEPT ![h] = "begun"]
            /\ UNCHANGED <<published, WriteStages, using>>
    /\ \A h \in Handlers :
        Register!Read(h) <=>
            /\ ReadStages[h] = "begun"
            /\ ReadStages' = [ReadStages EXCEPT ![h] = "read"]
            /\ using' = [using EXCEPT ![h] = published]
            /\ UNCHANGED <<published, WriteStages>>
    /\ UNCHANGED Register!vars <=> UNCHANGED <<published, WriteStages, ReadStages, using>>
BY DEF Register!Write, Register!Begin, Register!Read, Register!vars,
       WriteStages, WriteStage, ReadStages, ReadStage

(* Configure and Attest on one atomic pointer: for any number of calls,    *)
(* every step of the plugin is a step of the register or leaves it alone.  *)
THEOREM ServerRegister == Spec => ServerImplementsRegister
<1>1. Init => Register!Init
  BY DEF Init, Register!Init
<1>2. RuntimeTypeOK /\ [Next]_vars => [Register!Next]_(Register!vars)
  <2> SUFFICES ASSUME RuntimeTypeOK, [Next]_vars
               PROVE  Register!Next \/ UNCHANGED Register!vars
    OBVIOUS
  <2>1. ASSUME NEW c \in Configures, Call(c) \/ ConfigureStep(c)
        PROVE  Register!Next \/ UNCHANGED Register!vars
    <3>1. WriteStages[c] = WriteStage(c) /\ WriteStages = [WriteStages EXCEPT ![c] = WriteStage(c)]
      BY DEF WriteStages
    <3>2. CASE WriteStage(c)' = WriteStage(c) /\ published' = published
      BY <2>1, <3>1, <3>2, ConfigureMoves, RegisterActions
    <3>3. CASE WriteStage(c) = "idle" /\ WriteStage(c)' = "called" /\ published' = published
      <4>1. Register!Call(c)
        BY <2>1, <3>1, <3>3, ConfigureMoves, RegisterActions DEF Register!Call
      <4> QED
        BY <4>1 DEF Register!Next
    <3>4. CASE WriteStage(c) = "called" /\ WriteStage(c)' = "failed" /\ published' = published
      <4>1. Register!Fail(c)
        BY <2>1, <3>1, <3>4, ConfigureMoves, RegisterActions DEF Register!Fail
      <4> QED
        BY <4>1 DEF Register!Next
    <3>5. CASE WriteStage(c) = "called" /\ WriteStage(c)' = "applied" /\ published' = c
      <4>1. Register!TakeEffect(c)
        BY <2>1, <3>1, <3>5, ConfigureMoves, RegisterActions DEF Register!TakeEffect
      <4> QED
        BY <4>1 DEF Register!Next
    <3>6. CASE WriteStage(c) = "applied" /\ WriteStage(c)' = "ok" /\ published' = published
      <4>1. Register!Succeed(c)
        BY <2>1, <3>1, <3>6, ConfigureMoves, RegisterActions DEF Register!Succeed
      <4> QED
        BY <4>1 DEF Register!Next
    <3> QED
      BY <2>1, <3>2, <3>3, <3>4, <3>5, <3>6, ConfigureMoves
  <2>2. ASSUME NEW h \in Handlers,
               Arrive(h) \/ LoadRuntime(h) \/ Request(h) \/ Answer(h) \/ Finish(h)
        PROVE  Register!Next \/ UNCHANGED Register!vars
    <3>1. ReadStages[h] = ReadStage(h) /\ ReadStages = [ReadStages EXCEPT ![h] = ReadStage(h)]
      BY DEF ReadStages
    <3>2. CASE ReadStage(h)' = ReadStage(h) /\ using' = using
      BY <2>2, <3>1, <3>2, AttestMoves, RegisterActions
    <3>3. CASE ReadStage(h) = "idle" /\ ReadStage(h)' = "begun" /\ using' = using
      <4>1. Register!Begin(h)
        BY <2>2, <3>1, <3>3, AttestMoves, RegisterActions
      <4> QED
        BY <4>1 DEF Register!Next
    <3>4. CASE /\ ReadStage(h) = "begun" /\ ReadStage(h)' = "read"
               /\ using' = [using EXCEPT ![h] = published]
      <4>1. Register!Read(h)
        BY <2>2, <3>1, <3>4, AttestMoves, RegisterActions
      <4> QED
        BY <4>1 DEF Register!Next
    <3> QED
      BY <2>2, <3>2, <3>3, <3>4, AttestMoves
  <2>3. ASSUME NEW r \in Roles, Rotate(r) PROVE UNCHANGED Register!vars
    BY <2>3 DEF Rotate, configureVars, attestVars, Register!vars
  <2>4. CASE UNCHANGED vars
    BY <2>4 DEF vars, configureVars, attestVars, Register!vars
  <2> QED
    BY <2>1, <2>2, <2>3, <2>4 DEF Next
<1> QED
  BY <1>1, <1>2, RuntimeTypes, PTL DEF Spec, ServerImplementsRegister, Register!Spec
=============================================================================
