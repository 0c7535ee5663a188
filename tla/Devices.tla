--------------------------------- MODULE Devices ---------------------------------
(***************************************************************************)
(* The versioned device list of one account: DeviceListService over         *)
(* DeviceListRepository, beside AuthService.revokeDevice, which marks a     *)
(* device without the list.                                                 *)
(*                                                                         *)
(* A transition is one transaction; the row of the account, which it        *)
(* updates first, keeps a second one waiting until the commit.              *)
(***************************************************************************)
EXTENDS Tasks, Sequences

CONSTANTS DeviceIds, NoHolder

ASSUME DevicesAssumption == NoHolder \notin Tasks

VARIABLES
    epoch,      \* accounts.device_list_epoch
    rows,       \* devices: state, revoked_at is set
    log,        \* key_transparency_log: epoch, device, action and the entry it follows
    lock,       \* the transaction that holds the account's row
    sent,       \* epochs of device.list.changed
    answers,    \* <<epoch, the devices>> that senders fetched
    history,    \* history[n + 1]: the devices listed when the epoch was n
    unlisted    \* devices revoked without a new epoch

devVars == <<epoch, rows, log, lock, sent, answers, history, unlisted>>

States  == {"trusted", "proposed", "active", "revoked"}
StateOf == [proposed |-> "proposed", approved |-> "active", revoked |-> "revoked"]

Listed(r) == [d \in {e \in DeviceIds : ~r[e].revoked} |-> r[d].state]

DevTypeOK ==
    /\ epoch \in Nat
    /\ rows \in [DeviceIds -> [state : States, revoked : BOOLEAN]]
    /\ \A i \in 1..Len(log) : log[i] \in [epoch : Nat, device : DeviceIds, action : DOMAIN StateOf, prev : Nat]
    /\ lock \in Tasks \cup {NoHolder}
    /\ sent \in SUBSET Nat
    /\ unlisted \in SUBSET DeviceIds

\* Rows as addDevice leaves them.
DevInit ==
    /\ epoch = 0
    /\ rows = [d \in DeviceIds |-> [state |-> "trusted", revoked |-> FALSE]]
    /\ log = <<>> /\ lock = NoHolder /\ sent = {} /\ answers = {}
    /\ history = <<Listed(rows)>>
    /\ unlisted = {}

----------------------------------------------------------------------------
(* transition                                                              *)

\* Mutant: the epoch is read and then written, and nothing waits.
ReadUnlocked == TRUE

RowFree == lock = NoHolder

BumpEpoch(t) ==
    /\ RowFree
    /\ \E d \in DeviceIds, a \in DOMAIN StateOf :
          Begins(t, [op |-> "change", device |-> d, action |-> a, epoch |-> epoch + 1, at |-> "state"])
    /\ lock' = t
    /\ UNCHANGED <<failures, epoch, rows, log, sent, answers, history, unlisted>>

\* The tip is read after the row of the account was locked.
ReadTip(t) ==
    /\ At(t, "state")
    /\ GoesWith(t, "tip", Len(log), "commit")
    /\ UNCHANGED <<failures, devVars>>

Changed(t) ==
    LET d == task[t].device IN
    [rows EXCEPT ![d] = [state   |-> StateOf[task[t].action],
                         revoked |-> @.revoked \/ task[t].action = "revoked"]]

Commit(t) ==
    /\ At(t, "commit")
    /\ epoch' = task[t].epoch
    /\ rows' = Changed(t)
    /\ log' = Append(log, [epoch |-> task[t].epoch, device |-> task[t].device,
                           action |-> task[t].action, prev |-> task[t].tip])
    /\ history' = Append(history, Listed(Changed(t)))
    /\ lock' = NoHolder
    /\ Goes(t, "publish")
    /\ UNCHANGED <<failures, sent, answers, unlisted>>

\* A failure before the commit is a rollback.
FailChange(t) ==
    /\ Fails(t)
    /\ lock' = IF lock = t THEN NoHolder ELSE lock
    /\ UNCHANGED <<epoch, rows, log, sent, answers, history, unlisted>>

Publish(t) ==
    /\ At(t, "publish")
    /\ sent' = sent \cup {task[t].epoch}
    /\ Goes(t, "over")
    /\ UNCHANGED <<failures, epoch, rows, log, lock, answers, history, unlisted>>

----------------------------------------------------------------------------
(* getDeviceList, which senders bind their fan-out to                       *)

EpochFirst(t) ==
    \/ Begins(t, [op |-> "fetch", seen |-> epoch, at |-> "second"]) /\ UNCHANGED answers
    \/ /\ At(t, "second")
       /\ answers' = answers \cup {<<task[t].seen, Listed(rows)>>}
       /\ Goes(t, "over")

Fetch(t) ==
    /\ EpochFirst(t)
    /\ UNCHANGED <<failures, epoch, rows, log, lock, sent, history, unlisted>>

\* AuthService.revokeDevice: neither the epoch nor the log.
RevokeUnlisted(t) ==
    /\ \E d \in DeviceIds :
          /\ rows' = [rows EXCEPT ![d].revoked = TRUE]
          /\ unlisted' = unlisted \cup {d}
    /\ Begins(t, [op |-> "revokeDevice", at |-> "over"])
    /\ UNCHANGED <<failures, epoch, log, lock, sent, answers, history>>

DevNext ==
    \E t \in Tasks :
       \/ BumpEpoch(t) \/ ReadTip(t) \/ Commit(t) \/ FailChange(t) \/ Publish(t)
       \/ Fetch(t) \/ RevokeUnlisted(t)

----------------------------------------------------------------------------
(* Properties                                                              *)

\* The log is one chain: an entry for every epoch, in order, each after the one before it, and
\* the devices' states are what the log says.  About transition, whose own comment says that the
\* epoch and the audit log can never disagree.
LogIsTheEpoch ==
    /\ Len(log) = epoch
    /\ \A i \in 1..Len(log) : log[i].epoch = i /\ log[i].prev = i - 1
    /\ \A d \in DeviceIds :
          LET mine == {i \in 1..Len(log) : log[i].device = d}
              last == CHOOSE i \in mine : \A j \in mine : j <= i
          IN mine # {} => rows[d].state = StateOf[log[last].action]

\* A list that was fetched holds devices at least as new as its epoch: a sender that hears of a
\* later epoch fetches again, one that is up to date by its epoch misses no transition.  About
\* getDeviceList, two queries without a transaction.
ListNoOlderThanItsEpoch ==
    \A a \in answers :
        \E n \in a[1]..epoch : \A d \in DeviceIds \ unlisted :
            /\ d \in DOMAIN a[2] <=> d \in DOMAIN history[n + 1]
            /\ d \in DOMAIN a[2] => a[2][d] = history[n + 1][d]

\* The rows, the epoch, the log and what is read of them agree.
DeviceListIsTheLog ==
    /\ LogIsTheEpoch
    /\ ListNoOlderThanItsEpoch
=============================================================================
