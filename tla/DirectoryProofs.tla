-------------------------- MODULE DirectoryProofs --------------------------
(***************************************************************************)
(* A Directory for every set of names, windows and options.  Its control:  *)
(* a scan runs exactly while there is work and somebody watches, an update *)
(* that is owed is on its way, and news is never withheld (IInv).  Its     *)
(* items: nothing freed is used, and once all is quiet the windows show    *)
(* the files as they are (Sound).                                          *)
(***************************************************************************)
EXTENDS Directory, FiniteSetTheorems, NaturalsInduction, TLAPS

Fields == {"users", "known_items", "new_items", "up_items", "gone_items",
           "recheck_list", "scanning", "idle_callback", "needs_update",
           "rescan_timeout", "notify_active", "error", "closing", "item",
           "freed", "view", "busy", "missed", "dangling"}

Shape(d) ==
    /\ DOMAIN d = Fields
    /\ d.scanning \in BOOLEAN /\ d.idle_callback \in BOOLEAN
    /\ d.needs_update \in BOOLEAN /\ d.rescan_timeout \in BOOLEAN
    /\ d.notify_active \in BOOLEAN /\ d.error \in BOOLEAN /\ d.closing \in BOOLEAN

\* the parts of the invariant, of any Directory
Working(d) ==
    /\ d.scanning = (d.recheck_list # {} /\ d.users # {})
    /\ d.idle_callback = d.scanning
Owed(d) == d.needs_update /\ d.users # {} => d.scanning \/ d.rescan_timeout
Pending(d) == d.new_items # <<>> \/ d.up_items # {} \/ d.gone_items # {}
Flushed(d) == Pending(d) => d.notify_active
Busy(d) == d.busy = (IF d.scanning THEN d.users ELSE {})

\* what an operation that concerns items only leaves alone
SameControl(d, e) ==
    /\ e.users = d.users /\ e.recheck_list = d.recheck_list
    /\ e.scanning = d.scanning /\ e.idle_callback = d.idle_callback
    /\ e.needs_update = d.needs_update /\ e.rescan_timeout = d.rescan_timeout
    /\ e.busy = d.busy

\* between the steps of a handler: the windows told of a scan are attached
Busyish(d) ==
    /\ d.busy \subseteq d.users
    /\ d.scanning => d.busy = d.users

Good(d) == Shape(d) /\ Working(d) /\ Owed(d) /\ Flushed(d) /\ Busy(d)

\* The inductive invariant: set_idle_callback re-establishes Working whatever
\* came before it, and the rest says what each early return leaves armed.
IInv == Good(dir) /\ path \in {"ok", "noaccess", "missing"}

-----------------------------------------------------------------------------
(* What each operation does to the control.                                *)

LEMMA NotifyKeeps ==
    ASSUME NEW d, Shape(d), NEW S, NEW to
    PROVE  /\ Shape(NotifyAdd(d, to, S)) /\ SameControl(d, NotifyAdd(d, to, S))
           /\ Shape(NotifyUpdate(d, S)) /\ SameControl(d, NotifyUpdate(d, S))
           /\ Shape(NotifyRemove(d, S)) /\ SameControl(d, NotifyRemove(d, S))
           /\ Shape(Free(d, S)) /\ SameControl(d, Free(d, S))
BY DEF Shape, SameControl, Fields, NotifyAdd, NotifyUpdate, NotifyRemove, Free

LEMMA NotifyKeepsPending ==
    ASSUME NEW d, Shape(d), NEW S, NEW to, NEW f \in {"new_items", "up_items",
               "gone_items", "notify_active"}
    PROVE  /\ NotifyAdd(d, to, S)[f] = d[f]
           /\ NotifyUpdate(d, S)[f] = d[f]
           /\ NotifyRemove(d, S)[f] = d[f]
           /\ Free(d, S)[f] = d[f]
BY DEF Shape, Fields, NotifyAdd, NotifyUpdate, NotifyRemove, Free

LEMMA MergeKeeps ==
    ASSUME NEW d, Shape(d)
    PROVE  /\ Shape(dir_merge_new(d)) /\ SameControl(d, dir_merge_new(d))
           /\ ~Pending(dir_merge_new(d))
           /\ dir_merge_new(d).notify_active = d.notify_active
<1> DEFINE added == NotifyAdd(d, d.users, Range(d.new_items))
           updated == NotifyUpdate(added, d.up_items)
           told == NotifyRemove(updated, d.gone_items)
           merged == [told EXCEPT
            !.known_items = {i \in @ : \A j \in Range(d.new_items) : Name(j) # Name(i)}
                                \cup LastOfEachName(d.new_items),
            !.new_items = <<>>, !.up_items = {}, !.gone_items = {}]
<1>1. Shape(added) /\ SameControl(d, added) /\ added.notify_active = d.notify_active
  BY NotifyKeeps, NotifyKeepsPending
<1>2. Shape(updated) /\ SameControl(added, updated)
      /\ updated.notify_active = added.notify_active
  <2> HIDE DEF added
  <2> QED BY <1>1, NotifyKeeps, NotifyKeepsPending DEF updated
<1>3. Shape(told) /\ SameControl(updated, told)
      /\ told.notify_active = updated.notify_active
  <2> HIDE DEF updated
  <2> QED BY <1>2, NotifyKeeps, NotifyKeepsPending DEF told
<1>4. Shape(merged) /\ SameControl(told, merged) /\ ~Pending(merged)
      /\ merged.notify_active = told.notify_active
  <2> HIDE DEF told
  <2> QED BY <1>3 DEF merged, Shape, Fields, SameControl, Pending
<1>5. dir_merge_new(d) = Free(merged, d.gone_items)
  BY DEF dir_merge_new
<1>6. Shape(Free(merged, d.gone_items)) /\ SameControl(merged, Free(merged, d.gone_items))
      /\ ~Pending(Free(merged, d.gone_items))
      /\ Free(merged, d.gone_items).notify_active = merged.notify_active
  <2> HIDE DEF merged
  <2> QED BY <1>4, NotifyKeeps, NotifyKeepsPending DEF Pending
<1> HIDE DEF added, updated, told, merged
<1> QED BY <1>1, <1>2, <1>3, <1>4, <1>5, <1>6 DEF SameControl

LEMMA SetScanningSets ==
    ASSUME NEW d, Shape(d), Busyish(d), NEW b \in BOOLEAN
    PROVE  LET e == dir_set_scanning(d, b) IN
           /\ Shape(e) /\ e.scanning = b
           /\ e.users = d.users /\ e.recheck_list = d.recheck_list
           /\ e.idle_callback = d.idle_callback
           /\ e.needs_update = d.needs_update /\ e.rescan_timeout = d.rescan_timeout
           /\ e.new_items = d.new_items /\ e.up_items = d.up_items
           /\ e.gone_items = d.gone_items /\ e.notify_active = d.notify_active
           /\ Busyish(e)
           /\ b = d.scanning => e.busy = d.busy
           /\ b # d.scanning => Busy(e)
<1>1. CASE b = d.scanning
  BY <1>1 DEF dir_set_scanning
<1>2. CASE b # d.scanning /\ b = TRUE
  BY <1>2 DEF dir_set_scanning, Shape, Fields, Busyish, Busy
<1>3. CASE b # d.scanning /\ b = FALSE
  BY <1>3 DEF dir_set_scanning, Shape, Fields, Busyish, Busy, NotifyEndScan
<1> QED BY <1>1, <1>2, <1>3

LEMMA InsertKeeps ==
    ASSUME NEW d, Shape(d), Flushed(d), NEW leaf
    PROVE  LET e == insert_item(d, leaf)
           IN  Shape(e) /\ SameControl(d, e) /\ Flushed(e)
<1> DEFINE i == NewItem(d, leaf)
           k == CHOOSE j \in Known(d, leaf) : TRUE
           seen == [ver |-> Lstat(leaf), need |-> FALSE]
<1>1. CASE Known(d, leaf) = {} /\ Lstat(leaf) = Absent
  BY <1>1 DEF insert_item, SameControl
<1>2. CASE Known(d, leaf) = {} /\ Lstat(leaf) # Absent
  <2> DEFINE found == [d EXCEPT !.new_items = Append(@, i), !.up_items = @ \cup {i},
                                !.freed = @ \ {i}, !.item[i] = seen]
  <2>1. insert_item(d, leaf) = delayed_notify(found)
    BY <1>2 DEF insert_item
  <2>2. Shape(found) /\ SameControl(d, found)
    <3> HIDE DEF i, seen
    <3> QED BY DEF Shape, Fields, SameControl
  <2> HIDE DEF found
  <2> QED BY <2>1, <2>2 DEF delayed_notify, Shape, Fields, SameControl, Flushed, Pending
<1>3. CASE Known(d, leaf) # {}
  <2> DEFINE looked == [d EXCEPT !.item[k] = seen]
  <2>1. Shape(looked) /\ SameControl(d, looked) /\ Flushed(looked)
    <3> HIDE DEF k, seen
    <3> QED BY DEF Shape, Fields, SameControl, Flushed, Pending
  <2> DEFINE gone == [looked EXCEPT !.known_items = @ \ {k}, !.gone_items = @ \cup {k}]
             told == [looked EXCEPT !.up_items = @ \cup {k}]
  <2>2. \/ insert_item(d, leaf) = looked
        \/ insert_item(d, leaf) = delayed_notify(gone)
        \/ insert_item(d, leaf) = delayed_notify(told)
    BY <1>3 DEF insert_item
  <2> HIDE DEF k, looked
  <2>3. Shape(gone) /\ SameControl(d, gone)
    BY <2>1 DEF Shape, Fields, SameControl
  <2>4. Shape(told) /\ SameControl(d, told)
    BY <2>1 DEF Shape, Fields, SameControl
  <2> HIDE DEF gone, told
  <2>5. ASSUME NEW e, Shape(e), SameControl(d, e)
        PROVE  LET n == delayed_notify(e) IN Shape(n) /\ SameControl(d, n) /\ Flushed(n)
    BY <2>5 DEF delayed_notify, Shape, Fields, SameControl, Flushed
  <2> QED BY <2>1, <2>2, <2>3, <2>4, <2>5
<1> QED BY <1>1, <1>2, <1>3

LEMMA RecheckOneKeeps ==
    ASSUME NEW d, Shape(d), Busyish(d), Flushed(d), d.scanning, d.idle_callback,
           d.users # {}
    PROVE  LET e == RecheckOne(d) IN
           /\ Shape(e) /\ Working(e) /\ Busy(e) /\ Flushed(e)
           /\ e.users = d.users
           /\ e.needs_update = d.needs_update /\ e.rescan_timeout = d.rescan_timeout
<1> DEFINE leaf == CHOOSE n \in d.recheck_list : TRUE
           popped == [d EXCEPT !.recheck_list = @ \ {leaf}]
           looked == insert_item(popped, leaf)
           told == dir_merge_new(looked)
           done == dir_set_scanning(told, FALSE)
<1>1. /\ Shape(popped) /\ Busyish(popped) /\ Flushed(popped)
      /\ popped.users = d.users /\ popped.scanning /\ popped.idle_callback
      /\ popped.needs_update = d.needs_update
      /\ popped.rescan_timeout = d.rescan_timeout
  BY DEF Shape, Fields, Busyish, Flushed, Pending
<1>2. Shape(looked) /\ SameControl(popped, looked) /\ Flushed(looked)
  <2> HIDE DEF popped, leaf
  <2> QED BY <1>1, InsertKeeps
<1>3. CASE looked.recheck_list # {}
  <2>1. RecheckOne(d) = looked
    BY <1>3 DEF RecheckOne
  <2> HIDE DEF looked, popped
  <2> QED BY <1>1, <1>2, <1>3, <2>1 DEF SameControl, Working, Busy, Busyish, Shape
<1>4. CASE looked.recheck_list = {}
  <2>1. RecheckOne(d) = [done EXCEPT !.idle_callback = FALSE]
    BY <1>4 DEF RecheckOne
  <2>2. Shape(told) /\ SameControl(looked, told) /\ Flushed(told)
    <3> HIDE DEF looked
    <3> QED BY <1>2, MergeKeeps DEF Flushed
  <2>3. Busyish(told)
    <3> HIDE DEF popped, looked, told
    <3> QED BY <1>1, <1>2, <2>2 DEF SameControl, Busyish
  <2>4. /\ Shape(done) /\ ~done.scanning /\ done.users = told.users
        /\ done.recheck_list = told.recheck_list
        /\ done.needs_update = told.needs_update
        /\ done.rescan_timeout = told.rescan_timeout
        /\ Flushed(done) /\ Busy(done)
    <3>1. told.scanning
      <4> HIDE DEF popped, looked, told
      <4> QED BY <1>1, <1>2, <2>2 DEF SameControl
    <3> HIDE DEF told
    <3> QED BY <2>2, <2>3, <3>1, SetScanningSets DEF Flushed, Pending
  <2> HIDE DEF popped, looked, told, done
  <2>5. /\ done.recheck_list = {} /\ done.users = d.users
        /\ done.needs_update = d.needs_update
        /\ done.rescan_timeout = d.rescan_timeout
    BY <1>1, <1>2, <1>4, <2>2, <2>4 DEF SameControl
  <2> DEFINE e == [done EXCEPT !.idle_callback = FALSE]
  <2>6. /\ Shape(e) /\ e.users = done.users /\ e.recheck_list = {}
        /\ e.scanning = FALSE /\ e.idle_callback = FALSE /\ e.busy = done.busy
        /\ e.needs_update = done.needs_update
        /\ e.rescan_timeout = done.rescan_timeout /\ Flushed(e)
    BY <2>4, <2>5 DEF Shape, Fields, Flushed, Pending
  <2> HIDE DEF e
  <2> QED BY <2>1, <2>4, <2>5, <2>6 DEF Working, Busy, e
<1> QED BY <1>3, <1>4

\* set_idle_callback makes the scan agree with the work there is, from any state
LEMMA SetIdleRestores ==
    ASSUME NEW d, Shape(d), Busyish(d), Flushed(d)
    PROVE  LET e == set_idle_callback(d) IN
           /\ Shape(e) /\ Working(e) /\ Busyish(e) /\ Flushed(e)
           /\ e.users = d.users
           /\ e.needs_update = d.needs_update /\ e.rescan_timeout = d.rescan_timeout
           /\ d.scanning => Busy(e)
           /\ ~e.scanning => e.busy = {} \/ e.busy = d.busy
           /\ d.idle_callback /\ d.recheck_list # {} /\ d.users # {} => e.scanning
<1>1. CASE d.recheck_list # {} /\ d.users # {}
  <2> DEFINE s == dir_set_scanning(d, TRUE)
             armed == [s EXCEPT !.idle_callback = TRUE]
  <2>1. /\ Shape(s) /\ s.scanning /\ s.users = d.users
        /\ s.recheck_list = d.recheck_list /\ s.idle_callback = d.idle_callback
        /\ s.needs_update = d.needs_update /\ s.rescan_timeout = d.rescan_timeout
        /\ Flushed(s) /\ Busyish(s)
    BY SetScanningSets DEF Flushed, Pending
  <2>2. CASE s.idle_callback
    <3>1. set_idle_callback(d) = s
      BY <1>1, <2>2 DEF set_idle_callback
    <3> HIDE DEF s
    <3> QED BY <1>1, <2>1, <2>2, <3>1 DEF Working, Busyish, Busy, Shape
  <2>3. CASE ~s.idle_callback
    <3>1. set_idle_callback(d) = RecheckOne(armed)
      BY <1>1, <2>3 DEF set_idle_callback
    <3>2. /\ Shape(armed) /\ Busyish(armed) /\ Flushed(armed) /\ armed.scanning
          /\ armed.idle_callback /\ armed.users = d.users
          /\ armed.needs_update = d.needs_update
          /\ armed.rescan_timeout = d.rescan_timeout
      <4> HIDE DEF s
      <4> QED BY <2>1 DEF Shape, Fields, Busyish, Flushed, Pending
    <3> HIDE DEF s, armed
    <3>3. LET e == RecheckOne(armed) IN
          /\ Shape(e) /\ Working(e) /\ Busy(e) /\ Flushed(e)
          /\ e.users = armed.users
          /\ e.needs_update = armed.needs_update
          /\ e.rescan_timeout = armed.rescan_timeout
      BY <3>2, <1>1, RecheckOneKeeps
    <3>4. ~d.idle_callback
      BY <2>1, <2>3 DEF Shape
    <3> QED BY <3>1, <3>2, <3>3, <3>4 DEF Busy, Busyish
  <2> QED BY <2>2, <2>3
<1>2. CASE ~(d.recheck_list # {} /\ d.users # {})
  <2> DEFINE s == dir_set_scanning(d, FALSE)
  <2>1. set_idle_callback(d) = [s EXCEPT !.idle_callback = FALSE]
    BY <1>2 DEF set_idle_callback
  <2>2. /\ Shape(s) /\ s.scanning = FALSE /\ s.users = d.users
        /\ s.recheck_list = d.recheck_list
        /\ s.needs_update = d.needs_update /\ s.rescan_timeout = d.rescan_timeout
        /\ Flushed(s) /\ Busyish(s)
        /\ d.scanning = FALSE => s.busy = d.busy
        /\ d.scanning # FALSE => Busy(s)
    BY SetScanningSets DEF Flushed, Pending
  <2> HIDE DEF s
  <2>3. PICK e : e = [s EXCEPT !.idle_callback = FALSE]
    OBVIOUS
  <2>4. /\ Shape(e) /\ e.idle_callback = FALSE /\ e.scanning = s.scanning
        /\ e.users = s.users /\ e.recheck_list = s.recheck_list
        /\ e.needs_update = s.needs_update /\ e.rescan_timeout = s.rescan_timeout
        /\ e.busy = s.busy /\ e.new_items = s.new_items /\ e.up_items = s.up_items
        /\ e.gone_items = s.gone_items /\ e.notify_active = s.notify_active
    BY ONLY <2>2, <2>3 DEF Shape, Fields
  <2>5. Working(e) /\ Flushed(e)
    BY ONLY <1>2, <2>2, <2>4 DEF Working, Flushed, Pending
  <2>6. Busyish(e) /\ (d.scanning # FALSE => Busy(e))
    BY ONLY <2>2, <2>4 DEF Busyish, Busy
  <2>7. e.busy = {} \/ e.busy = d.busy
    BY ONLY <2>2, <2>4 DEF Busy
  <2>8. d.scanning \in BOOLEAN
    BY DEF Shape
  <2>9. d.scanning => Busy(e)
    BY ONLY <2>6, <2>8
  <2>10. set_idle_callback(d) = e
    BY ONLY <2>1, <2>3
  <2>11. /\ e.users = d.users
         /\ e.needs_update = d.needs_update /\ e.rescan_timeout = d.rescan_timeout
    BY ONLY <2>2, <2>4
  <2>12. /\ Shape(e) /\ Working(e) /\ Busyish(e) /\ Flushed(e)
         /\ e.users = d.users
         /\ e.needs_update = d.needs_update /\ e.rescan_timeout = d.rescan_timeout
         /\ d.scanning => Busy(e)
         /\ ~e.scanning => e.busy = {} \/ e.busy = d.busy
         /\ d.idle_callback /\ d.recheck_list # {} /\ d.users # {} => e.scanning
    BY ONLY <1>2, <2>4, <2>5, <2>6, <2>7, <2>9, <2>11
  <2> QED BY ONLY <2>10, <2>12
<1> QED BY <1>1, <1>2

LEMMA ScanNamesGood ==
    ASSUME NEW d, Shape(d), Busyish(d), Flushed(d), d.scanning, NEW names
    PROVE  LET e == ScanNames(d, names) IN
           /\ Shape(e) /\ Working(e) /\ Busy(e) /\ Flushed(e)
           /\ e.users = d.users
           /\ e.needs_update = d.needs_update /\ e.rescan_timeout = d.rescan_timeout
<1> DEFINE deleted == {i \in d.known_items : Name(i) \notin names}
           removed == NotifyRemove(d, deleted)
           cut == [removed EXCEPT !.known_items = @ \ deleted]
           kept == remove_missing(d, names)
           old == kept.known_items
           add == {NewItem(kept, n) : n \in {m \in names : Known(kept, m) = {}}}
           new == CHOOSE s \in [1..Cardinality(add) -> add] : Range(s) = add
           items == [i \in Items |->
                IF i \in add THEN [Blank EXCEPT !.need = TRUE]
                ELSE IF i \in old THEN [kept.item[i] EXCEPT !.need = TRUE]
                ELSE kept.item[i]]
           flagged == [kept EXCEPT !.recheck_list = {}, !.new_items = new,
                           !.freed = @ \ add, !.item = items, !.missed = FALSE]
           merged == dir_merge_new(flagged)
           queued == QueueInteresting(merged, merged.users)
           idle == set_idle_callback(queued)
<1>1. /\ Shape(kept) /\ SameControl(d, kept) /\ kept.notify_active = d.notify_active
  <2>1. Shape(removed) /\ SameControl(d, removed)
        /\ removed.notify_active = d.notify_active
    BY NotifyKeeps, NotifyKeepsPending
  <2>2. Shape(cut) /\ SameControl(removed, cut) /\ cut.notify_active = removed.notify_active
    <3> HIDE DEF removed, deleted
    <3> QED BY <2>1 DEF Shape, Fields, SameControl
  <2>3. kept = Free(cut, deleted)
    BY DEF remove_missing
  <2> HIDE DEF cut, removed, deleted, kept
  <2>4. Shape(Free(cut, deleted)) /\ SameControl(cut, Free(cut, deleted))
        /\ Free(cut, deleted).notify_active = cut.notify_active
    BY <2>2, NotifyKeeps, NotifyKeepsPending
  <2> QED BY <2>1, <2>2, <2>3, <2>4 DEF SameControl
<1>2. /\ Shape(flagged) /\ flagged.users = d.users /\ flagged.busy = d.busy
      /\ flagged.scanning = d.scanning
      /\ flagged.needs_update = d.needs_update
      /\ flagged.rescan_timeout = d.rescan_timeout
  <2> HIDE DEF kept, items, add, new
  <2> QED BY <1>1 DEF Shape, Fields, SameControl
<1>3. Shape(merged) /\ SameControl(flagged, merged) /\ ~Pending(merged)
  <2> HIDE DEF flagged
  <2> QED BY <1>2, MergeKeeps
<1>4. /\ Shape(queued) /\ queued.users = merged.users /\ queued.busy = merged.busy
      /\ queued.scanning = merged.scanning
      /\ queued.needs_update = merged.needs_update
      /\ queued.rescan_timeout = merged.rescan_timeout
      /\ ~Pending(queued)
  <2> HIDE DEF merged
  <2> QED BY <1>3 DEF QueueInteresting, Shape, Fields, Pending
<1>5. Busyish(queued) /\ Flushed(queued) /\ queued.scanning
  <2> HIDE DEF flagged, merged, queued
  <2> QED BY <1>2, <1>3, <1>4 DEF SameControl, Busyish, Flushed
<1>6. /\ Shape(idle) /\ Working(idle) /\ Busy(idle) /\ Flushed(idle)
      /\ idle.users = queued.users /\ idle.needs_update = queued.needs_update
      /\ idle.rescan_timeout = queued.rescan_timeout
  <2> HIDE DEF queued
  <2> QED BY <1>4, <1>5, SetIdleRestores
<1>7. ScanNames(d, names) = dir_merge_new(idle)
  BY DEF ScanNames
<1>8. /\ Shape(dir_merge_new(idle)) /\ SameControl(idle, dir_merge_new(idle))
      /\ ~Pending(dir_merge_new(idle))
  <2> HIDE DEF idle
  <2> QED BY <1>6, MergeKeeps
<1> HIDE DEF kept, flagged, merged, queued, idle
<1> QED BY <1>2, <1>3, <1>4, <1>6, <1>7, <1>8
        DEF SameControl, Working, Busy, Flushed

\* a rescan that fails leaves the scan as it was, off; one that does not ends
\* with the scan and the work in agreement
LEMMA RescanGood ==
    ASSUME NEW d, Shape(d), Busyish(d), Flushed(d), ~d.scanning, ~d.idle_callback,
           path \in {"ok", "noaccess", "missing"}
    PROVE  LET e == dir_rescan(d) IN
           /\ Shape(e) /\ Busyish(e) /\ Flushed(e)
           /\ e.users = d.users /\ e.rescan_timeout = d.rescan_timeout
           /\ ~e.needs_update
           /\ \/ /\ e.recheck_list = d.recheck_list /\ ~e.scanning
                 /\ ~e.idle_callback /\ e.busy = d.busy
              \/ Working(e) /\ Busy(e)
<1> DEFINE begun == [d EXCEPT !.needs_update = FALSE, !.error = FALSE]
           names == {n \in Names : disk[n] # Absent}
<1>1. /\ Shape(begun) /\ Busyish(begun) /\ Flushed(begun) /\ ~begun.needs_update
      /\ SameControl([d EXCEPT !.needs_update = FALSE], begun)
      /\ begun.users = d.users /\ begun.recheck_list = d.recheck_list
      /\ begun.scanning = FALSE /\ begun.idle_callback = FALSE
      /\ begun.busy = d.busy /\ begun.rescan_timeout = d.rescan_timeout
  BY DEF Shape, Fields, Busyish, Flushed, Pending, SameControl
<1>2. CASE path = "missing" /\ CloseWhenMissing
  <2>1. dir_rescan(d) = [begun EXCEPT !.closing = TRUE]
    BY <1>2 DEF dir_rescan
  <2> HIDE DEF begun
  <2> QED BY <1>1, <2>1 DEF Shape, Fields, Busyish, Flushed, Pending
<1>3. CASE path = "missing" /\ ~CloseWhenMissing
  <2> DEFINE failed == [begun EXCEPT !.error = TRUE]
             gone == {i \in failed.known_items : Name(i) \notin {}}
             removed == NotifyRemove(failed, gone)
             cut == [removed EXCEPT !.known_items = @ \ gone]
  <2>1. dir_rescan(d) = Free(cut, gone)
    BY <1>3 DEF dir_rescan, remove_missing
  <2>2. Shape(failed) /\ SameControl(begun, failed) /\ Flushed(failed)
    <3> HIDE DEF begun
    <3> QED BY <1>1 DEF Shape, Fields, SameControl, Flushed, Pending
  <2>3. Shape(removed) /\ SameControl(failed, removed) /\ Flushed(removed)
    <3> HIDE DEF failed, gone
    <3> QED BY <2>2, NotifyKeeps, NotifyKeepsPending DEF Flushed, Pending
  <2>4. Shape(cut) /\ SameControl(removed, cut) /\ Flushed(cut)
    <3> HIDE DEF removed, gone
    <3> QED BY <2>3 DEF Shape, Fields, SameControl, Flushed, Pending
  <2>5. Shape(Free(cut, gone)) /\ SameControl(cut, Free(cut, gone))
        /\ Flushed(Free(cut, gone))
    <3> HIDE DEF cut, gone
    <3> QED BY <2>4, NotifyKeeps, NotifyKeepsPending DEF Flushed, Pending
  <2> HIDE DEF begun, failed, gone, removed, cut
  <2> QED BY <1>1, <2>1, <2>2, <2>3, <2>4, <2>5 DEF SameControl, Busyish, Shape
<1>4. CASE path = "noaccess"
  <2>1. dir_rescan(d) = [begun EXCEPT !.error = TRUE]
    BY <1>4 DEF dir_rescan
  <2> HIDE DEF begun
  <2> QED BY <1>1, <2>1 DEF Shape, Fields, Busyish, Flushed, Pending
<1>5. CASE path = "ok"
  <2> DEFINE on == dir_set_scanning(begun, TRUE)
             merged == dir_merge_new(on)
  <2>1. dir_rescan(d) = ScanNames(merged, names)
    BY <1>5 DEF dir_rescan
  <2>2. /\ Shape(on) /\ on.scanning = TRUE /\ Busyish(on) /\ Flushed(on)
        /\ on.users = begun.users /\ on.needs_update = begun.needs_update
        /\ on.rescan_timeout = begun.rescan_timeout
    <3> HIDE DEF begun
    <3> QED BY <1>1, SetScanningSets DEF Flushed, Pending
  <2>3. Shape(merged) /\ SameControl(on, merged) /\ Flushed(merged)
    <3> HIDE DEF on
    <3> QED BY <2>2, MergeKeeps DEF Flushed
  <2>4. Busyish(merged) /\ merged.scanning = TRUE
    <3> HIDE DEF on, merged
    <3> QED BY <2>2, <2>3 DEF SameControl, Busyish
  <2> HIDE DEF begun, on, merged, names
  <2>5. LET e == ScanNames(merged, names) IN
        /\ Shape(e) /\ Working(e) /\ Busy(e) /\ Flushed(e)
        /\ e.users = merged.users
        /\ e.needs_update = merged.needs_update
        /\ e.rescan_timeout = merged.rescan_timeout
    BY <2>3, <2>4, ScanNamesGood
  <2> QED BY <1>1, <2>1, <2>2, <2>3, <2>5 DEF SameControl, Busy, Busyish
<1> QED BY <1>2, <1>3, <1>4, <1>5

-----------------------------------------------------------------------------
(* What each handler does to a good Directory.                             *)

LEMMA RescanIdleGood ==
    ASSUME NEW d, Good(d), ~d.scanning, path \in {"ok", "noaccess", "missing"}
    PROVE  Good(dir_rescan(d)) /\ dir_rescan(d).rescan_timeout = d.rescan_timeout
           /\ ~dir_rescan(d).needs_update
<1>1. Busyish(d) /\ ~d.idle_callback
  BY DEF Good, Busy, Busyish, Working
<1> DEFINE e == dir_rescan(d)
<1>2. /\ Shape(e) /\ Busyish(e) /\ Flushed(e)
      /\ e.users = d.users /\ e.rescan_timeout = d.rescan_timeout
      /\ ~e.needs_update
      /\ \/ /\ e.recheck_list = d.recheck_list /\ ~e.scanning
            /\ ~e.idle_callback /\ e.busy = d.busy
         \/ Working(e) /\ Busy(e)
  BY <1>1, RescanGood DEF Good
<1> HIDE DEF e
<1>3. Working(e) /\ Busy(e)
  <2>1. CASE e.recheck_list = d.recheck_list /\ ~e.scanning /\ ~e.idle_callback
             /\ e.busy = d.busy
    BY <1>2, <2>1 DEF Good, Working, Busy, Shape
  <2> QED BY <1>2, <2>1
<1> QED BY <1>2, <1>3 DEF Good, Owed, e

LEMMA UpdateGood ==
    ASSUME NEW d, Good(d), path \in {"ok", "noaccess", "missing"}
    PROVE  Good(update(d))
<1>1. CASE d.scanning
  BY <1>1 DEF update, Good, Shape, Fields, Working, Owed, Flushed, Pending, Busy
<1>2. CASE ~d.scanning
  BY <1>2, RescanIdleGood DEF update
<1> QED BY <1>1, <1>2

LEMMA AttachGood ==
    ASSUME NEW d, Good(d), NEW u \in Users, path \in {"ok", "noaccess", "missing"}
    PROVE  Good(dir_attach(d, u))
<1> DEFINE joined == [d EXCEPT !.users = @ \cup {u}, !.busy = @ \cup {u},
                               !.view = [@ EXCEPT ![u] = {}]]
           added == NotifyAdd(joined, {u}, d.known_items)
           queued == QueueInteresting(added, {u})
           asked == IF d.needs_update /\ ~d.scanning THEN dir_rescan(added) ELSE queued
           set == set_idle_callback(asked)
<1>1. /\ Shape(joined) /\ Flushed(joined) /\ Busyish(joined)
      /\ joined.users = d.users \cup {u} /\ joined.recheck_list = d.recheck_list
      /\ joined.scanning = d.scanning /\ joined.idle_callback = d.idle_callback
      /\ joined.needs_update = d.needs_update
      /\ joined.rescan_timeout = d.rescan_timeout
      /\ ~d.scanning => joined.busy = {u}
  BY DEF Good, Shape, Fields, Flushed, Pending, Busy, Busyish
<1>2. /\ Shape(added) /\ SameControl(joined, added) /\ Flushed(added) /\ Busyish(added)
  <2>1. /\ Shape(added) /\ SameControl(joined, added) /\ Flushed(added)
    <3> HIDE DEF joined
    <3> QED BY <1>1, NotifyKeeps, NotifyKeepsPending DEF Flushed, Pending
  <2> HIDE DEF joined, added
  <2> QED BY <1>1, <2>1 DEF SameControl, Busyish
<1>3. /\ Shape(queued) /\ Flushed(queued) /\ Busyish(queued)
      /\ queued.users = added.users /\ queued.busy = added.busy
      /\ added.recheck_list \subseteq queued.recheck_list
      /\ queued.scanning = added.scanning
      /\ queued.idle_callback = added.idle_callback
      /\ queued.needs_update = added.needs_update
      /\ queued.rescan_timeout = added.rescan_timeout
  <2> HIDE DEF added
  <2> QED BY <1>2 DEF QueueInteresting, Shape, Fields, Flushed, Pending, Busyish
<1>4. dir_attach(d, u) = IF set.scanning THEN set ELSE NotifyEndScan(set, {u})
  BY DEF dir_attach
<1>5. /\ Shape(set) /\ Working(set) /\ Flushed(set)
      /\ Owed(set)
      /\ set.scanning => Busy(set)
      /\ ~set.scanning => set.busy \subseteq {u}
  <2>1. CASE d.needs_update /\ ~d.scanning
    <3> DEFINE scan == dir_rescan(added)
    <3>1. asked = scan
      BY <2>1
    <3>2. ~added.scanning /\ ~added.idle_callback /\ added.busy = {u}
      <4> HIDE DEF joined, added
      <4> QED BY <1>1, <1>2, <2>1 DEF SameControl, Good, Working
    <3>3. /\ Shape(scan) /\ Busyish(scan) /\ Flushed(scan) /\ ~scan.needs_update
          /\ ~scan.scanning => scan.busy \subseteq {u}
      <4> HIDE DEF added
      <4> QED BY <1>2, <3>2, RescanGood DEF Busy
    <3> HIDE DEF joined, added, queued, scan, asked
    <3>4. /\ Shape(set) /\ Working(set) /\ Busyish(set) /\ Flushed(set)
          /\ set.needs_update = scan.needs_update
          /\ scan.scanning => Busy(set)
          /\ ~set.scanning => set.busy = {} \/ set.busy = scan.busy
      BY <3>1, <3>3, SetIdleRestores
    <3> HIDE DEF set
    <3> QED BY <3>3, <3>4 DEF Owed, Busy, Busyish
  <2>2. CASE ~(d.needs_update /\ ~d.scanning)
    <3>1. asked = queued
      BY <2>2
    <3>2. /\ queued.scanning = d.scanning /\ queued.needs_update = d.needs_update
          /\ d.scanning => queued.idle_callback /\ queued.recheck_list # {}
                           /\ queued.users # {}
          /\ ~d.scanning => queued.busy = {u}
      <4> HIDE DEF joined, added, queued
      <4> QED BY <1>1, <1>2, <1>3 DEF SameControl, Good, Working
    <3> HIDE DEF joined, added, queued, asked
    <3>3. /\ Shape(set) /\ Working(set) /\ Busyish(set) /\ Flushed(set)
          /\ set.needs_update = queued.needs_update
          /\ queued.scanning => Busy(set)
          /\ ~set.scanning => set.busy = {} \/ set.busy = queued.busy
          /\ queued.idle_callback /\ queued.recheck_list # {} /\ queued.users # {}
                 => set.scanning
      BY <3>1, <1>3, SetIdleRestores
    <3> HIDE DEF set
    <3> QED BY <2>2, <3>2, <3>3 DEF Owed, Busy, Busyish
  <2> QED BY <2>1, <2>2
<1>6. CASE set.scanning
  <2> HIDE DEF set
  <2> QED BY <1>4, <1>5, <1>6 DEF Good
<1>7. CASE ~set.scanning
  <2> DEFINE e == NotifyEndScan(set, {u})
  <2>1. /\ Shape(e) /\ Flushed(e) /\ e.users = set.users
        /\ e.recheck_list = set.recheck_list /\ e.scanning = set.scanning
        /\ e.idle_callback = set.idle_callback /\ e.needs_update = set.needs_update
        /\ e.rescan_timeout = set.rescan_timeout /\ e.busy = {}
    <3> HIDE DEF set
    <3> QED BY <1>5, <1>7 DEF NotifyEndScan, Shape, Fields, Flushed, Pending
  <2> HIDE DEF set, e
  <2>2. Working(e) /\ Owed(e) /\ Busy(e)
    BY <2>1, <1>5, <1>7 DEF Working, Owed, Busy
  <2> QED BY <1>4, <1>7, <2>1, <2>2 DEF Good, e
<1> QED BY <1>6, <1>7

\* also when every window is closed at once
LEMMA LeaveGood ==
    ASSUME NEW d, Good(d), NEW left, Shape(left), Flushed(left), Busyish(left),
           left.users \subseteq d.users, left.recheck_list = d.recheck_list,
           left.scanning = d.scanning, left.idle_callback = d.idle_callback,
           left.needs_update = d.needs_update,
           left.rescan_timeout = d.rescan_timeout,
           left.busy = d.busy \cap left.users
    PROVE  Good(set_idle_callback(left))
<1> DEFINE e == set_idle_callback(left)
<1>1. /\ Shape(e) /\ Working(e) /\ Busyish(e) /\ Flushed(e)
      /\ e.users = left.users
      /\ e.needs_update = left.needs_update /\ e.rescan_timeout = left.rescan_timeout
      /\ left.scanning => Busy(e)
      /\ ~e.scanning => e.busy = {} \/ e.busy = left.busy
      /\ left.idle_callback /\ left.recheck_list # {} /\ left.users # {} => e.scanning
  BY SetIdleRestores
<1> HIDE DEF e
<1>2. Busy(e)
  BY <1>1 DEF Good, Busy, Busyish
<1>3. Owed(e)
  BY <1>1 DEF Good, Owed, Working
<1> QED BY <1>1, <1>2, <1>3 DEF Good, e

LEMMA DetachGood ==
    ASSUME NEW d, Good(d), NEW u \in Users
    PROVE  Good(dir_detach(d, u))
<1> DEFINE left == [d EXCEPT !.users = @ \ {u}, !.busy = @ \ {u},
                             !.view = [@ EXCEPT ![u] = {}]]
<1>1. /\ Shape(left) /\ Flushed(left) /\ Busyish(left)
      /\ left.users \subseteq d.users /\ left.recheck_list = d.recheck_list
      /\ left.scanning = d.scanning /\ left.idle_callback = d.idle_callback
      /\ left.needs_update = d.needs_update
      /\ left.rescan_timeout = d.rescan_timeout
      /\ left.busy = d.busy \cap left.users
  BY DEF Good, Shape, Fields, Flushed, Pending, Busy, Busyish
<1>2. dir_detach(d, u) = set_idle_callback(left)
  BY DEF dir_detach
<1> HIDE DEF left
<1> QED BY <1>1, <1>2, LeaveGood

LEMMA RecheckCallbackGood ==
    ASSUME NEW d, Good(d), d.idle_callback, path \in {"ok", "noaccess", "missing"}
    PROVE  Good(recheck_callback(d))
<1> DEFINE e == RecheckOne(d)
<1>1. d.scanning /\ d.users # {} /\ d.recheck_list # {} /\ Busyish(d)
  BY DEF Good, Working, Busy, Busyish, Shape
<1>2. /\ Shape(e) /\ Working(e) /\ Busy(e) /\ Flushed(e)
      /\ e.users = d.users
      /\ e.needs_update = d.needs_update /\ e.rescan_timeout = d.rescan_timeout
  BY <1>1, RecheckOneKeeps DEF Good
<1> HIDE DEF e
<1>3. CASE e.recheck_list = {} /\ e.needs_update
  <2>1. recheck_callback(d) = dir_rescan(e)
    BY <1>3 DEF recheck_callback, e
  <2>2. ~e.scanning /\ ~e.idle_callback /\ Busyish(e)
    BY <1>2, <1>3 DEF Working, Busy, Busyish
  <2> DEFINE r == dir_rescan(e)
  <2>3. /\ Shape(r) /\ Busyish(r) /\ Flushed(r)
        /\ r.users = e.users /\ ~r.needs_update
        /\ \/ /\ r.recheck_list = e.recheck_list /\ ~r.scanning
              /\ ~r.idle_callback /\ r.busy = e.busy
           \/ Working(r) /\ Busy(r)
    BY <1>2, <2>2, RescanGood
  <2> HIDE DEF r
  <2>4. Working(r) /\ Busy(r)
    <3>1. CASE /\ r.recheck_list = e.recheck_list /\ ~r.scanning
               /\ ~r.idle_callback /\ r.busy = e.busy
      BY <1>2, <1>3, <2>2, <2>3, <3>1 DEF Working, Busy, Shape
    <3> QED BY <2>3, <3>1
  <2> QED BY <2>1, <2>3, <2>4 DEF Good, Owed, r
<1>4. CASE ~(e.recheck_list = {} /\ e.needs_update)
  <2>1. recheck_callback(d) = e
    BY <1>4 DEF recheck_callback, e
  <2> QED BY <1>1, <1>2, <1>4, <2>1 DEF Good, Owed, Working
<1> QED BY <1>3, <1>4

\* the ghost and the idle call of filer_close_recursive are no part of it
LEMMA GoodIgnoresRest ==
    ASSUME NEW d, Good(d), NEW f \in {"missed", "closing"}, NEW x,
           f = "closing" => x \in BOOLEAN
    PROVE  Good([d EXCEPT ![f] = x])
BY DEF Good, Shape, Fields, Working, Owed, Flushed, Pending, Busy

LEMMA SameControlGood ==
    ASSUME NEW d, Good(d), NEW e, Shape(e), SameControl(d, e), Flushed(e)
    PROVE  Good(e)
BY DEF Good, SameControl, Working, Owed, Busy

-----------------------------------------------------------------------------

LEMMA InitGood == Init => IInv
<1> SUFFICES ASSUME Init PROVE IInv
  OBVIOUS
<1>1. DOMAIN dir = Fields
  BY DEF Init, Fields
<1>2. /\ dir.users = {} /\ dir.recheck_list = {} /\ dir.busy = {}
      /\ dir.new_items = <<>> /\ dir.up_items = {} /\ dir.gone_items = {}
  BY DEF Init
<1>3. /\ dir.scanning = FALSE /\ dir.idle_callback = FALSE
      /\ dir.needs_update = TRUE /\ dir.rescan_timeout = FALSE
      /\ dir.notify_active = FALSE /\ dir.error = FALSE /\ dir.closing = FALSE
  BY DEF Init
<1>4. path = "ok"
  BY DEF Init
<1> QED BY <1>1, <1>2, <1>3, <1>4
        DEF IInv, Good, Shape, Working, Owed, Flushed, Pending, Busy

LEMMA StepGood == IInv /\ [Next]_vars => IInv'
<1> SUFFICES ASSUME IInv, [Next]_vars PROVE IInv'
  OBVIOUS
<1> USE DEF IInv
<1>1. ASSUME NEW u \in Users, Attach(u) PROVE IInv'
  <2>1. PICK looked \in {dir, update(dir)} : dir' = dir_attach(looked, u)
    BY <1>1 DEF Attach
  <2>2. Good(looked)
    BY <2>1, UpdateGood
  <2> QED BY <1>1, <2>1, <2>2, AttachGood DEF Attach
<1>2. ASSUME NEW u \in Users, Detach(u) PROVE IInv'
  <2> DEFINE left == dir_detach(dir, u)
  <2>1. Good(left)
    BY DetachGood
  <2>2. \/ dir' = [left EXCEPT !.missed = @ \/ event]
        \/ dir' = left
    BY <1>2 DEF Detach
  <2> HIDE DEF left
  <2> QED BY <1>2, <2>1, <2>2, GoodIgnoresRest DEF Detach
<1>3. ASSUME Recheck PROVE IInv'
  BY <1>3, RecheckCallbackGood DEF Recheck
<1>4. ASSUME MonitorEvent PROVE IInv'
  BY <1>4 DEF MonitorEvent, Good, Shape, Fields, Working, Owed, Flushed, Pending, Busy
<1>5. ASSUME RescanTimeout PROVE IInv'
  <2> DEFINE d == IF ~dir.scanning /\ dir.needs_update THEN dir_rescan(dir) ELSE dir
  <2>1. Good(d) /\ (d.needs_update /\ d.users # {} => d.scanning)
    <3>1. CASE ~dir.scanning /\ dir.needs_update
      BY <3>1, RescanIdleGood
    <3>2. CASE ~(~dir.scanning /\ dir.needs_update)
      BY <3>2
    <3> QED BY <3>1, <3>2
  <2>2. dir' = [d EXCEPT !.rescan_timeout = d.scanning]
    BY <1>5 DEF RescanTimeout
  <2> HIDE DEF d
  <2>3. Good(dir')
    BY <2>1, <2>2 DEF Good, Shape, Fields, Working, Owed, Flushed, Pending, Busy
  <2> QED BY <1>5, <2>3 DEF RescanTimeout
<1>6. ASSUME NotifyTimeout PROVE IInv'
  <2> DEFINE d == dir_merge_new(dir)
  <2>1. Shape(d) /\ SameControl(dir, d) /\ ~Pending(d)
    BY MergeKeeps DEF Good
  <2>2. Good(d)
    BY <2>1, SameControlGood DEF Flushed
  <2>3. dir' = [d EXCEPT !.notify_active = FALSE]
    BY <1>6 DEF NotifyTimeout
  <2> HIDE DEF d
  <2>4. Good(dir')
    BY <2>1, <2>2, <2>3 DEF Good, Shape, Fields, Working, Owed, Flushed, Pending, Busy
  <2> QED BY <1>6, <2>4 DEF NotifyTimeout
<1>7. ASSUME CloseMissing PROVE IInv'
  <2> DEFINE left == [dir EXCEPT !.users = {}, !.busy = {},
                                 !.view = [u \in Users |-> {}]]
             shut == set_idle_callback(left)
  <2>1. /\ Shape(left) /\ Flushed(left) /\ Busyish(left)
        /\ left.users \subseteq dir.users /\ left.recheck_list = dir.recheck_list
        /\ left.scanning = dir.scanning /\ left.idle_callback = dir.idle_callback
        /\ left.needs_update = dir.needs_update
        /\ left.rescan_timeout = dir.rescan_timeout
        /\ left.busy = dir.busy \cap left.users
        /\ left.users = {}
    BY DEF Good, Shape, Fields, Flushed, Pending, Busy, Busyish
  <2>2. dir' = [shut EXCEPT !.closing = FALSE, !.missed = @ \/ event]
    BY <1>7 DEF CloseMissing
  <2>3. Good(shut)
    <3> HIDE DEF left
    <3> QED BY <2>1, LeaveGood
  <2> HIDE DEF left, shut
  <2>4. Good(dir')
    BY <2>2, <2>3 DEF Good, Shape, Fields, Working, Owed, Flushed, Pending, Busy
  <2> QED BY <1>7, <2>4 DEF CloseMissing
<1>8. ASSUME Update PROVE IInv'
  BY <1>8, UpdateGood DEF Update
<1>9. ASSUME NEW n \in Names, CheckThis(n) PROVE IInv'
  <2> DEFINE d == insert_item(dir, n)
  <2>1. Shape(d) /\ SameControl(dir, d) /\ Flushed(d)
    BY InsertKeeps DEF Good
  <2> HIDE DEF d
  <2>2. Good(d)
    BY <2>1, SameControlGood
  <2> QED BY <1>9, <2>2 DEF CheckThis, d
<1>10. ASSUME NEW n \in Names, UpdateItem(n) PROVE IInv'
  <2> DEFINE d == insert_item(dir, n)
             e == dir_merge_new(d)
  <2>1. Shape(d) /\ SameControl(dir, d) /\ Flushed(d)
    BY InsertKeeps DEF Good
  <2>2. Shape(e) /\ SameControl(d, e) /\ ~Pending(e)
    <3> HIDE DEF d
    <3> QED BY <2>1, MergeKeeps
  <2> HIDE DEF d, e
  <2>3. Good(e)
    BY <2>1, <2>2, SameControlGood DEF Flushed
  <2> QED BY <1>10, <2>3 DEF UpdateItem, d, e
<1>11. ASSUME NEW n \in Names, ForceUpdate(n) PROVE IInv'
  <2> DEFINE d == NotifyUpdate(dir, Known(dir, n))
  <2>1. Shape(d) /\ SameControl(dir, d) /\ Flushed(d)
    BY NotifyKeeps, NotifyKeepsPending DEF Good, Flushed, Pending
  <2> HIDE DEF d
  <2>2. Good(d)
    BY <2>1, SameControlGood
  <2> QED BY <1>11, <2>2 DEF ForceUpdate, d
<1>12. ASSUME NEW n \in Names, ChangeFile(n) PROVE IInv'
  BY <1>12, GoodIgnoresRest DEF ChangeFile, Noticed
<1>13. ASSUME ChangePath PROVE IInv'
  BY <1>13, GoodIgnoresRest DEF ChangePath, Noticed
<1>14. CASE UNCHANGED vars
  BY <1>14 DEF vars
<1> QED BY <1>1, <1>2, <1>3, <1>4, <1>5, <1>6, <1>7, <1>8, <1>9, <1>10, <1>11,
           <1>12, <1>13, <1>14 DEF Next

-----------------------------------------------------------------------------

LEMMA Inductive == Spec => []IInv
BY InitGood, StepGood, PTL DEF Spec

\* A scan is under way, with its idle source, exactly while there are names
\* left to examine and a window is attached (set_idle_callback).
THEOREM ScanIffWorkHolds == Spec => []ScanIffWork
<1>1. IInv => ScanIffWork
  BY DEF IInv, Good, Working, ScanIffWork
<1> QED BY <1>1, Inductive, PTL

\* An update that is owed to an attached window has a scan that will end in it
\* or a timer that will perform it: the promise of needs_update in dir.h.
THEOREM RescanIsComingHolds == Spec => []RescanIsComing
<1>1. IInv => RescanIsComing
  BY DEF IInv, Good, Owed, RescanIsComing
<1> QED BY <1>1, Inductive, PTL

\* Whatever insert_item found and has not told has notify_timeout armed.
THEOREM PendingIsFlushedHolds == Spec => []PendingIsFlushed
<1>1. IInv => PendingIsFlushed
  BY DEF IInv, Good, Flushed, Pending, PendingIsFlushed
<1> QED BY <1>1, Inductive, PTL

\* A window shows its scanning state exactly while its directory is scanned.
THEOREM BusyIffScanningHolds == Spec => []BusyIffScanning
<1>1. IInv => BusyIffScanning
  BY DEF IInv, Good, Busy, BusyIffScanning
<1> QED BY <1>1, Inductive, PTL

-----------------------------------------------------------------------------
(* The items: which of them lists and views still hold, and whether they   *)
(* are those of the files.                                                 *)

\* what a file is found to be
Vers == Versions \cup {Absent}

Seen == [ver : Vers, need : BOOLEAN]

Typed(d) ==
    /\ Shape(d) /\ d.dangling \in BOOLEAN /\ d.missed \in BOOLEAN
    /\ d.users \subseteq Users /\ d.recheck_list \subseteq Names
    /\ d.known_items \subseteq Items /\ d.up_items \subseteq Items
    /\ d.gone_items \subseteq Items /\ d.freed \subseteq Items
    /\ d.new_items \in Seq(Items)
    /\ d.item \in [Items -> Seen]
    /\ d.view \in [Users -> SUBSET (Items \X Vers)]

\* The lists, and the memory they leave for another item of a name; what windows still
\* show is held too.
Listed(d) == d.known_items \cup Range(d.new_items) \cup d.up_items \cup d.gone_items
Unlisted(d, n) == {k \in 1..Copies : <<n, k>> \notin Listed(d)}
Spare(d, n) == {k \in 1..Copies : <<n, k>> \notin Referenced(d)}

\* What is to be examined and not known finds memory, and what is to be examined would if
\* it and what shows it were forgotten.
Roomy(d) ==
    /\ \A n \in d.recheck_list : Known(d, n) = {} => Spare(d, n) # {}
    /\ \A n \in d.recheck_list : Unlisted(d, n) # {}
    /\ \A i \in d.known_items : d.item[i].need => Unlisted(d, Name(i)) # {}

\* No two known items have one name, what is new has not the name of one, and a gone
\* item is in no list that outlives it.
Apart(d) ==
    /\ \A i, j \in d.known_items : Name(i) = Name(j) => i = j
    /\ \A i \in d.known_items : \A j \in Range(d.new_items) : Name(j) # Name(i)
    /\ d.gone_items \cap (d.known_items \cup Range(d.new_items)) = {}

\* What a window shows has the name of something known or of something it has still to
\* be told has gone: to remove by name leaves nothing of a gone item behind.
Told(d) ==
    /\ \A u \in Users \ d.users : d.view[u] = {}
    /\ \A u \in d.users : \A p \in d.view[u] :
          \E i \in d.known_items \cup d.gone_items : Name(i) = Name(p[1])

\* Of what a window shows only what is known is still to be examined.
Marked(d) == \A u \in d.users : \A p \in d.view[u] : d.item[p[1]].need => p[1] \in d.known_items

\* What is new has been examined.
Examined(d) == \A i \in Range(d.new_items) : ~d.item[i].need

Unharmed(d) == d.freed = {} /\ ~d.dangling

\* Memory may be reused too early when the option is off: a test this leaves to it.
Tidy(d) ==
    /\ Typed(d) /\ Roomy(d) /\ Apart(d) /\ Told(d) /\ Marked(d) /\ Examined(d)
    /\ CloseWhenMissing => Unharmed(d)

\* The lists are those of the files: what was found out of date is to be examined, with R
\* the names that will be.
ContentAs(d, R) ==
    /\ d.new_items = <<>> /\ d.gone_items = {}
    /\ \A n \in Names : Known(d, n) # {} <=> disk[n] # Absent
    /\ \A i \in d.known_items :
          d.item[i].need \/ Name(i) \in R \/ d.item[i].ver = disk[Name(i)]

Content(d) == ContentAs(d, d.recheck_list)

\* The windows show the known items, as they are known or are to be told.
Painted(d) ==
    \A u \in d.users :
        /\ \A p \in d.view[u] :
              /\ p[1] \in d.known_items /\ Name(p[1]) \in Shows[u]
              /\ p[1] \in d.up_items \/ p[2] = d.item[p[1]].ver
        /\ \A i \in d.known_items : Name(i) \in Shows[u] => \E p \in d.view[u] : p[1] = i
        /\ \A p, q \in d.view[u] : p[1] = q[1] => p = q

\* The end of a scan paints the windows anew.
Caught(d) == Content(d) /\ (d.scanning \/ Painted(d))

\* Unless a scan is owed.
Right(d) == ~d.missed /\ ~d.needs_update => Caught(d)

Outside == disk \in [Names -> Vers] /\ event \in BOOLEAN

Sound ==
    /\ Outside /\ Tidy(dir)
    /\ path = "ok" /\ ~event => Right(dir)

-----------------------------------------------------------------------------
(* What each operation does to the fields.                                 *)

\* e is d but for the fields F
Others(d, e, F) == \A f \in Fields \ F : e[f] = d[f]

Upd(d, S, p) == IF p[1] \in S THEN <<p[1], d.item[p[1]].ver>> ELSE p

LEMMA AddIs ==
    ASSUME NEW d, Shape(d), NEW to, NEW S
    PROVE  LET e == NotifyAdd(d, to, S) IN
           /\ Shape(e) /\ Others(d, e, {"view", "dangling"})
           /\ e.view = [u \in Users |-> IF u \in to THEN d.view[u] \cup Draw(d, u, S)
                                         ELSE d.view[u]]
           /\ e.dangling = Uses(d, S)
BY DEF Shape, Others, Fields, NotifyAdd

LEMMA UpdateIs ==
    ASSUME NEW d, Shape(d), NEW S
    PROVE  LET e == NotifyUpdate(d, S) IN
           /\ Shape(e) /\ Others(d, e, {"view", "dangling"})
           /\ e.view = [u \in Users |-> IF u \in d.users
                                         THEN {Upd(d, S, p) : p \in d.view[u]}
                                         ELSE d.view[u]]
           /\ e.dangling = Uses(d, S)
BY DEF Shape, Others, Fields, NotifyUpdate, Upd

LEMMA RemoveIs ==
    ASSUME NEW d, Shape(d), NEW S
    PROVE  LET e == NotifyRemove(d, S) IN
           /\ Shape(e) /\ Others(d, e, {"view", "dangling"})
           /\ e.view = [u \in Users |-> IF u \in d.users
                                         THEN {p \in d.view[u] : \A i \in S : Name(i) # Name(p[1])}
                                         ELSE d.view[u]]
           /\ e.dangling = Uses(d, S \cup InViews(d, d.users))
BY DEF Shape, Others, Fields, NotifyRemove

LEMMA EndScanIs ==
    ASSUME NEW d, Shape(d), NEW to
    PROVE  LET e == NotifyEndScan(d, to) IN
           /\ Shape(e) /\ Others(d, e, {"view", "busy"})
           /\ e.view = [u \in Users |-> IF u \in to THEN Draw(d, u, d.known_items)
                                         ELSE d.view[u]]
BY DEF Shape, Others, Fields, NotifyEndScan

LEMMA QueueIs ==
    ASSUME NEW d, Shape(d), NEW to
    PROVE  LET e == QueueInteresting(d, to)
               due == {i \in InViews(d, to) : d.item[i].need} IN
           /\ Shape(e) /\ Others(d, e, {"recheck_list", "item", "dangling"})
           /\ e.recheck_list = d.recheck_list \cup {Name(i) : i \in due}
           /\ e.item = [i \in Items |-> IF i \in due THEN [d.item[i] EXCEPT !.need = FALSE]
                                         ELSE d.item[i]]
           /\ e.dangling = Uses(d, InViews(d, to))
BY DEF Shape, Others, Fields, QueueInteresting

LEMMA FreeIs ==
    ASSUME NEW d, Shape(d), NEW S
    PROVE  LET e == Free(d, S) IN
           /\ Shape(e) /\ Others(d, e, {"freed", "item"})
           /\ e.freed = d.freed \cup (S \cap Referenced(d))
           /\ e.item = [i \in Items |-> IF i \in S THEN Blank ELSE d.item[i]]
BY DEF Shape, Others, Fields, Free

LEMMA OthersTrans ==
    ASSUME NEW d, NEW e, NEW g, NEW F, NEW G, NEW H, Others(d, e, F), Others(e, g, G),
           F \cup G \subseteq H
    PROVE  Others(d, g, H)
BY DEF Others

\* What a window shows once it has been told all that is pending.
Merged(d, u) ==
    {q \in {Upd(d, d.up_items, p) : p \in d.view[u] \cup Draw(d, u, Range(d.new_items))} :
        \A i \in d.gone_items : Name(i) # Name(q[1])}

LEMMA MergeIs ==
    ASSUME NEW d, Typed(d)
    PROVE  LET e == dir_merge_new(d) IN
           /\ Shape(e)
           /\ Others(d, e, {"known_items", "new_items", "up_items", "gone_items", "view",
                            "dangling", "freed", "item"})
           /\ e.known_items = {i \in d.known_items :
                                   \A j \in Range(d.new_items) : Name(j) # Name(i)}
                                \cup LastOfEachName(d.new_items)
           /\ e.new_items = <<>> /\ e.up_items = {} /\ e.gone_items = {}
           /\ e.view = [u \in Users |-> IF u \in d.users THEN Merged(d, u) ELSE d.view[u]]
           /\ e.item = [i \in Items |-> IF i \in d.gone_items THEN Blank ELSE d.item[i]]
           /\ e.freed = d.freed \cup (d.gone_items \cap Referenced(e))
           /\ e.dangling \in BOOLEAN
           /\ Unharmed(d) => ~e.dangling
<1> DEFINE new == Range(d.new_items)
           added == NotifyAdd(d, d.users, new)
           updated == NotifyUpdate(added, d.up_items)
           told == NotifyRemove(updated, d.gone_items)
           known == {i \in d.known_items : \A j \in new : Name(j) # Name(i)}
                        \cup LastOfEachName(d.new_items)
           merged == [told EXCEPT
            !.known_items = {i \in @ : \A j \in Range(d.new_items) : Name(j) # Name(i)}
                                \cup LastOfEachName(d.new_items),
            !.new_items = <<>>, !.up_items = {}, !.gone_items = {}]
           e == Free(merged, d.gone_items)
           V == {"view", "dangling"}
<1>0. Shape(d)
  BY DEF Typed
<1>1. /\ Shape(added) /\ Others(d, added, V)
      /\ added.view = [u \in Users |-> IF u \in d.users THEN d.view[u] \cup Draw(d, u, new)
                                         ELSE d.view[u]]
      /\ added.dangling = Uses(d, new)
  <2> HIDE DEF new
  <2>. QED BY <1>0, AddIs
<1> HIDE DEF added
<1>2. /\ Shape(updated) /\ Others(added, updated, V)
      /\ updated.view = [u \in Users |-> IF u \in added.users
                                           THEN {Upd(added, d.up_items, p) : p \in added.view[u]}
                                           ELSE added.view[u]]
      /\ updated.dangling = Uses(added, d.up_items)
  BY <1>1, UpdateIs
<1> HIDE DEF updated
<1>3. /\ Shape(told) /\ Others(updated, told, V)
      /\ told.view = [u \in Users |-> IF u \in updated.users
                         THEN {p \in updated.view[u] : \A i \in d.gone_items : Name(i) # Name(p[1])}
                         ELSE updated.view[u]]
      /\ told.dangling = Uses(updated, d.gone_items \cup InViews(updated, updated.users))
  BY <1>2, RemoveIs
<1> HIDE DEF told
<1>4. Others(d, updated, V) /\ Others(d, told, V)
  BY <1>1, <1>2, <1>3, OthersTrans
<1>5. /\ Shape(merged)
      /\ Others(told, merged, {"known_items", "new_items", "up_items", "gone_items"})
      /\ merged.known_items = known
      /\ merged.new_items = <<>> /\ merged.up_items = {} /\ merged.gone_items = {}
  <2>1. told.known_items = d.known_items
    BY <1>4 DEF Others, Fields
  <2>. QED BY <1>3, <2>1 DEF Shape, Others, Fields
<1>6. merged.view = told.view /\ merged.freed = told.freed /\ merged.item = told.item
      /\ merged.dangling = told.dangling
  BY <1>5 DEF Others, Fields
<1> HIDE DEF merged
<1>7. /\ Shape(e) /\ Others(merged, e, {"freed", "item"})
      /\ e.freed = merged.freed \cup (d.gone_items \cap Referenced(merged))
      /\ e.item = [i \in Items |-> IF i \in d.gone_items THEN Blank ELSE merged.item[i]]
  BY <1>5, FreeIs
<1> HIDE DEF e
<1>8. Referenced(merged) = Referenced(e)
  <2>1. /\ e.known_items = merged.known_items /\ e.new_items = merged.new_items
        /\ e.up_items = merged.up_items /\ e.gone_items = merged.gone_items
        /\ e.view = merged.view
    BY <1>7 DEF Others, Fields
  <2>. QED BY <2>1 DEF Referenced, InViews
<1>9. /\ added.item = d.item /\ added.users = d.users /\ updated.users = d.users
      /\ added.freed = d.freed /\ updated.freed = d.freed /\ told.freed = d.freed
      /\ told.item = d.item
  BY <1>1, <1>4 DEF Others, Fields
<1>10. told.view = [u \in Users |-> IF u \in d.users THEN Merged(d, u) ELSE d.view[u]]
  <2>1. \A p : Upd(added, d.up_items, p) = Upd(d, d.up_items, p)
    BY <1>9 DEF Upd
  <2>2. ASSUME NEW u \in d.users, u \in Users
        PROVE  told.view[u] = Merged(d, u)
    <3>1. updated.view[u] = {Upd(d, d.up_items, p) : p \in d.view[u] \cup Draw(d, u, new)}
      BY <1>1, <1>2, <1>9, <2>1, <2>2
    <3>2. told.view[u] = {q \in updated.view[u] : \A i \in d.gone_items : Name(i) # Name(q[1])}
      BY <1>3, <1>9, <2>2
    <3>. QED BY <3>1, <3>2 DEF Merged, new
  <2>3. ASSUME NEW u \in Users, u \notin d.users PROVE told.view[u] = d.view[u]
    BY <1>1, <1>2, <1>3, <1>9, <2>3
  <2>4. told.view = [u \in Users |-> told.view[u]]
    BY <1>3
  <2>. QED BY <2>2, <2>3, <2>4
<1>11. told.dangling \in BOOLEAN /\ (Unharmed(d) => ~told.dangling)
  <2>1. d.dangling \in BOOLEAN
    BY DEF Typed
  <2>2. added.dangling \in BOOLEAN /\ (Unharmed(d) => ~added.dangling)
    BY <1>1, <2>1 DEF Uses, Unharmed
  <2>3. updated.dangling \in BOOLEAN /\ (Unharmed(d) => ~updated.dangling)
    BY <1>2, <1>9, <2>2 DEF Uses, Unharmed
  <2>. QED BY <1>3, <1>9, <2>3 DEF Uses, Unharmed
<1>12. Others(d, e, {"known_items", "new_items", "up_items", "gone_items", "view",
                     "dangling", "freed", "item"})
  <2>1. Others(d, merged, {"known_items", "new_items", "up_items", "gone_items", "view",
                           "dangling"})
    BY <1>4, <1>5, OthersTrans
  <2>. QED BY <1>7, <2>1, OthersTrans
<1>13. /\ e.known_items = known /\ e.new_items = <<>> /\ e.up_items = {} /\ e.gone_items = {}
       /\ e.view = told.view /\ e.dangling = told.dangling
  BY <1>5, <1>6, <1>7 DEF Others, Fields
<1>14. e = dir_merge_new(d)
  BY DEF e, merged, told, updated, added, dir_merge_new
<1>. QED BY <1>6, <1>7, <1>8, <1>9, <1>10, <1>11, <1>12, <1>13, <1>14

LEMMA SetScanningIs ==
    ASSUME NEW d, Typed(d), NEW b \in BOOLEAN
    PROVE  LET e == dir_set_scanning(d, b) IN
           /\ Shape(e) /\ Others(d, e, {"scanning", "busy", "view"}) /\ e.scanning = b
           /\ e.view = IF d.scanning /\ ~b
                       THEN [u \in Users |-> IF u \in d.users THEN Draw(d, u, d.known_items)
                                               ELSE d.view[u]]
                       ELSE d.view
<1>0. Shape(d) /\ d.scanning \in BOOLEAN
  BY DEF Typed, Shape
<1>1. CASE b = d.scanning
  BY <1>0, <1>1 DEF dir_set_scanning, Others
<1>2. CASE b # d.scanning /\ b
  BY <1>0, <1>2 DEF dir_set_scanning, Shape, Fields, Others
<1>3. CASE b # d.scanning /\ ~b
  <2> DEFINE off == [d EXCEPT !.scanning = FALSE]
             e == NotifyEndScan(off, d.users)
  <2>1. /\ Shape(off) /\ Others(d, off, {"scanning"}) /\ off.scanning = FALSE
    BY <1>0 DEF Shape, Fields, Others
  <2>2. dir_set_scanning(d, b) = e
    BY <1>0, <1>3 DEF dir_set_scanning
  <2>5. off.view = d.view /\ off.known_items = d.known_items /\ off.item = d.item
    BY <2>1 DEF Others, Fields
  <2> HIDE DEF off
  <2>3. /\ Shape(e) /\ Others(off, e, {"view", "busy"})
        /\ e.view = [u \in Users |-> IF u \in d.users THEN Draw(off, u, off.known_items)
                                         ELSE off.view[u]]
    BY <2>1, EndScanIs
  <2> HIDE DEF e
  <2>4. Others(d, e, {"scanning", "busy", "view"})
    BY <2>1, <2>3, OthersTrans
  <2>6. e.scanning = FALSE
    BY <2>1, <2>3 DEF Others, Fields
  <2>7. \A u : Draw(off, u, off.known_items) = Draw(d, u, d.known_items)
    BY <2>5 DEF Draw
  <2>. QED BY <1>0, <1>3, <2>2, <2>3, <2>4, <2>5, <2>6, <2>7
<1>. QED BY <1>1, <1>2, <1>3

LEMMA RemoveMissingIs ==
    ASSUME NEW d, Typed(d), NEW keep
    PROVE  LET e == remove_missing(d, keep)
               deleted == {i \in d.known_items : Name(i) \notin keep} IN
           /\ Shape(e) /\ Others(d, e, {"known_items", "view", "dangling", "freed", "item"})
           /\ e.known_items = d.known_items \ deleted
           /\ e.view = [u \in Users |-> IF u \in d.users
                          THEN {p \in d.view[u] : \A i \in deleted : Name(i) # Name(p[1])}
                          ELSE d.view[u]]
           /\ e.item = [i \in Items |-> IF i \in deleted THEN Blank ELSE d.item[i]]
           /\ e.freed = d.freed \cup (deleted \cap Referenced(e))
           /\ e.dangling \in BOOLEAN
           /\ Unharmed(d) => ~e.dangling
<1> DEFINE deleted == {i \in d.known_items : Name(i) \notin keep}
           removed == NotifyRemove(d, deleted)
           cut == [removed EXCEPT !.known_items = @ \ deleted]
           e == Free(cut, deleted)
<1>0. Shape(d) /\ d.dangling \in BOOLEAN
  BY DEF Typed
<1>7. remove_missing(d, keep) = e
  BY DEF remove_missing
<1> HIDE DEF deleted
<1>1. /\ Shape(removed) /\ Others(d, removed, {"view", "dangling"})
      /\ removed.view = [u \in Users |-> IF u \in d.users
                          THEN {p \in d.view[u] : \A i \in deleted : Name(i) # Name(p[1])}
                          ELSE d.view[u]]
      /\ removed.dangling = Uses(d, deleted \cup InViews(d, d.users))
  BY <1>0, RemoveIs
<1> HIDE DEF removed
<1>2. removed.known_items = d.known_items /\ removed.item = d.item /\ removed.freed = d.freed
  BY <1>1 DEF Others, Fields
<1>3. /\ Shape(cut) /\ Others(removed, cut, {"known_items"})
      /\ cut.known_items = d.known_items \ deleted
  BY <1>1, <1>2 DEF Shape, Others, Fields
<1> HIDE DEF cut
<1>4. /\ Shape(e) /\ Others(cut, e, {"freed", "item"})
      /\ e.freed = cut.freed \cup (deleted \cap Referenced(cut))
      /\ e.item = [i \in Items |-> IF i \in deleted THEN Blank ELSE cut.item[i]]
  BY <1>3, FreeIs
<1>5. /\ cut.view = removed.view /\ cut.item = d.item /\ cut.freed = d.freed
      /\ cut.dangling = removed.dangling
  BY <1>2, <1>3 DEF Others, Fields
<1> HIDE DEF e
<1>6. /\ e.known_items = cut.known_items /\ e.new_items = cut.new_items
      /\ e.up_items = cut.up_items /\ e.gone_items = cut.gone_items
      /\ e.view = cut.view /\ e.dangling = cut.dangling
  BY <1>4 DEF Others, Fields
<1>8. Referenced(e) = Referenced(cut)
  BY <1>6 DEF Referenced, InViews
<1>9. Others(d, e, {"known_items", "view", "dangling", "freed", "item"})
  <2>1. Others(d, cut, {"known_items", "view", "dangling"})
    BY <1>1, <1>3, OthersTrans
  <2>. QED BY <1>4, <2>1, OthersTrans
<1>10. e.dangling \in BOOLEAN /\ (Unharmed(d) => ~e.dangling)
  BY <1>0, <1>1, <1>5, <1>6 DEF Uses, Unharmed
<1>. QED BY <1>1, <1>3, <1>4, <1>5, <1>6, <1>7, <1>8, <1>9, <1>10 DEF deleted
-----------------------------------------------------------------------------
(* The items each operation leaves.                                        *)

Below == {ss \in Nat \X Nat : ss[1] < ss[2]}

LEMMA Least == ASSUME NEW S, S \subseteq Nat, S # {} PROVE \E x \in S : \A y \in S : x <= y
<1>1. OpToRel(<, Nat) = Below
  BY Zenon DEF OpToRel, Below
<1>2. IsWellFoundedOn(Below, Nat)
  BY ONLY <1>1, NatLessThanWellFounded, Zenon
<1>3. PICK x \in S : \A y \in S : ~(<<y, x>> \in Below)
  BY <1>2, WFMin, Zenon
<1>4. ASSUME NEW y \in S PROVE x <= y
  <2>1. x \in Nat /\ y \in Nat /\ ~(<<y, x>> \in Below)
    BY <1>3
  <2>2. ASSUME y < x PROVE <<y, x>> \in Below
    BY ONLY <2>1, <2>2 DEF Below
  <2>. QED BY <2>1, <2>2
<1>. QED BY <1>4

LEMMA LastIs ==
    ASSUME NEW T, NEW s \in Seq(T)
    PROVE  /\ LastOfEachName(s) \subseteq Range(s)
           /\ \A i \in Range(s) : \E j \in LastOfEachName(s) : Name(j) = Name(i)
           /\ \A i, j \in LastOfEachName(s) : Name(i) = Name(j) => i = j
<1>1. Len(s) \in Nat /\ DOMAIN s = 1..Len(s)
  OBVIOUS
<1>2. LastOfEachName(s) \subseteq Range(s)
  BY DEF LastOfEachName, Range
<1>3. ASSUME NEW i \in Range(s) PROVE \E j \in LastOfEachName(s) : Name(j) = Name(i)
  <2> DEFINE S == {m \in Nat : \E k \in 1..Len(s) : m = Len(s) - k /\ Name(s[k]) = Name(i)}
  <2>1. PICK k0 \in 1..Len(s) : s[k0] = i
    BY <1>1, <1>3 DEF Range
  <2>2. Len(s) - k0 \in S
    BY <1>1, <2>1
  <2>3. PICK m \in S : \A y \in S : m <= y
    <3> HIDE DEF S
    <3>. QED BY <2>2, Least DEF S
  <2>4. PICK k \in 1..Len(s) : m = Len(s) - k /\ Name(s[k]) = Name(i)
    BY <2>3
  <2>5. ASSUME NEW l \in 1..Len(s), l > k PROVE Name(s[l]) # Name(s[k])
    <3>1. SUFFICES ASSUME Name(s[l]) = Name(s[k]) PROVE FALSE
      OBVIOUS
    <3>2. Len(s) - l \in S
      BY <1>1, <2>4, <3>1
    <3>3. m <= Len(s) - l
      BY <2>3, <3>2
    <3>. QED BY ONLY <1>1, <2>4, <2>5, <3>3
  <2>6. s[k] \in LastOfEachName(s)
    BY <1>1, <2>5 DEF LastOfEachName
  <2>. QED BY <2>4, <2>6
<1>4. ASSUME NEW i \in LastOfEachName(s), NEW j \in LastOfEachName(s), Name(i) = Name(j)
      PROVE  i = j
  <2>1. PICK k \in 1..Len(s) : s[k] = i /\ \A l \in 1..Len(s) : l > k => Name(s[l]) # Name(s[k])
    BY <1>1 DEF LastOfEachName
  <2>2. PICK m \in 1..Len(s) : s[m] = j /\ \A l \in 1..Len(s) : l > m => Name(s[l]) # Name(s[m])
    BY <1>1 DEF LastOfEachName
  <2>3. ~(k > m) /\ ~(m > k)
    BY <1>4, <2>1, <2>2
  <2>. QED BY <2>1, <2>2, <2>3
<1>. QED BY <1>2, <1>3, <1>4

\* What a window draws or redraws is of the items it has.
LEMMA DrawnIs ==
    ASSUME NEW d, Typed(d), NEW S, S \subseteq Items, NEW u
    PROVE  /\ Draw(d, u, S) \subseteq Items \X Vers
           /\ \A p \in Draw(d, u, S) : p[1] \in S /\ Name(p[1]) \in Shows[u]
                                         /\ p[2] = d.item[p[1]].ver
           /\ \A i \in S : Name(i) \in Shows[u] => <<i, d.item[i].ver>> \in Draw(d, u, S)
<1>1. \A i \in Items : d.item[i].ver \in Vers
  BY DEF Typed, Seen
<1>. QED BY <1>1 DEF Draw

LEMMA UpdOf ==
    ASSUME NEW d, Typed(d), NEW S, NEW p \in Items \X Vers
    PROVE  /\ Upd(d, S, p) \in Items \X Vers /\ Upd(d, S, p)[1] = p[1]
           /\ Upd(d, S, p)[2] = IF p[1] \in S THEN d.item[p[1]].ver ELSE p[2]
<1>1. \A i \in Items : d.item[i].ver \in Vers
  BY DEF Typed, Seen
<1>. QED BY <1>1 DEF Upd

LEMMA MergedOf ==
    ASSUME NEW d, Typed(d), NEW u \in Users
    PROVE  /\ Merged(d, u) \subseteq Items \X Vers
           /\ \A q \in Merged(d, u) :
                 /\ \A i \in d.gone_items : Name(i) # Name(q[1])
                 /\ \/ q[1] \in Range(d.new_items)
                    \/ \E p \in d.view[u] : p[1] = q[1]
<1>1. Range(d.new_items) \subseteq Items /\ d.view[u] \subseteq Items \X Vers
  BY DEF Typed, Range
<1>2. ASSUME NEW q \in Merged(d, u)
      PROVE  /\ q \in Items \X Vers
             /\ \A i \in d.gone_items : Name(i) # Name(q[1])
             /\ q[1] \in Range(d.new_items) \/ \E p \in d.view[u] : p[1] = q[1]
  <2>1. PICK p \in d.view[u] \cup Draw(d, u, Range(d.new_items)) : q = Upd(d, d.up_items, p)
    BY DEF Merged
  <2>2. p \in Items \X Vers /\ (p \in d.view[u] \/ p[1] \in Range(d.new_items))
    BY <1>1, <2>1, DrawnIs
  <2>3. q \in Items \X Vers /\ q[1] = p[1]
    BY <2>1, <2>2, UpdOf
  <2>4. \A i \in d.gone_items : Name(i) # Name(q[1])
    BY DEF Merged
  <2>. QED BY <2>2, <2>3, <2>4
<1>. QED BY <1>2

LEMMA MergeTidy ==
    ASSUME NEW d, Typed(d), Apart(d), Told(d), Marked(d), CloseWhenMissing => Unharmed(d),
           \A i \in Range(d.new_items) : d.item[i].need => i \in LastOfEachName(d.new_items)
    PROVE  Tidy(dir_merge_new(d))
<1> DEFINE e == dir_merge_new(d)
           new == Range(d.new_items)
           last == LastOfEachName(d.new_items)
<1>1. /\ Shape(e)
      /\ Others(d, e, {"known_items", "new_items", "up_items", "gone_items", "view",
                            "dangling", "freed", "item"})
      /\ e.known_items = {i \in d.known_items : \A j \in new : Name(j) # Name(i)} \cup last
      /\ e.new_items = <<>> /\ e.up_items = {} /\ e.gone_items = {}
      /\ e.view = [u \in Users |-> IF u \in d.users THEN Merged(d, u) ELSE d.view[u]]
      /\ e.item = [i \in Items |-> IF i \in d.gone_items THEN Blank ELSE d.item[i]]
      /\ e.freed = d.freed \cup (d.gone_items \cap Referenced(e))
      /\ e.dangling \in BOOLEAN
      /\ Unharmed(d) => ~e.dangling
  BY MergeIs
<1> HIDE DEF e
<1>2. e.users = d.users /\ e.recheck_list = d.recheck_list /\ e.missed = d.missed
  BY <1>1 DEF Others, Fields
<1>3. /\ last \subseteq new /\ new \subseteq Items
      /\ \A i \in new : \E j \in last : Name(j) = Name(i)
      /\ \A i, j \in last : Name(i) = Name(j) => i = j
  <2>1. d.new_items \in Seq(Items) /\ new \subseteq Items
    BY DEF Typed, Range
  <2>. QED BY <2>1, LastIs
<1> HIDE DEF last
<1>4. d.known_items \subseteq e.known_items /\ e.known_items \subseteq d.known_items \cup new
  BY <1>1, <1>3 DEF Apart
<1>5. Typed(e)
  <2>1. e.view \in [Users -> SUBSET (Items \X Vers)]
    <3>1. \A u \in Users : Merged(d, u) \subseteq Items \X Vers
      BY MergedOf
    <3>2. d.view \in [Users -> SUBSET (Items \X Vers)]
      BY DEF Typed
    <3>. QED BY <1>1, <3>1, <3>2
  <2>2. e.item \in [Items -> Seen]
    <3>1. Blank \in Seen
      BY DEF Blank, Seen, Vers
    <3>. QED BY <1>1, <3>1 DEF Typed
  <2>3. e.known_items \subseteq Items
    BY <1>3, <1>4 DEF Typed
  <2>4. e.freed \subseteq Items
    BY <1>1 DEF Typed
  <2>5. e.new_items \in Seq(Items)
    BY <1>1
  <2>. QED BY <1>1, <1>2, <2>1, <2>2, <2>3, <2>4, <2>5 DEF Typed
<1>6. Apart(e)
  <2>1. \A i, j \in e.known_items : Name(i) = Name(j) => i = j
    BY <1>1, <1>3 DEF Apart
  <2>2. Range(e.new_items) = {}
    BY <1>1 DEF Range
  <2>. QED BY <1>1, <2>1, <2>2 DEF Apart
<1>7. ASSUME NEW u \in Users
      PROVE  e.view[u] = IF u \in d.users THEN Merged(d, u) ELSE d.view[u]
  BY <1>1
<1>8. d.users \subseteq Users
  BY DEF Typed
<1>9. Told(e)
  <2>1. \A u \in Users \ e.users : e.view[u] = {}
    BY <1>2, <1>7 DEF Told
  <2>2. ASSUME NEW u \in e.users, NEW q \in e.view[u]
        PROVE  \E i \in e.known_items \cup e.gone_items : Name(i) = Name(q[1])
    <3>1. u \in Users /\ u \in d.users /\ q \in Merged(d, u)
      BY <1>2, <1>7, <1>8
    <3>2. CASE q[1] \in new
      BY <1>1, <1>3, <3>2
    <3>3. CASE \E p \in d.view[u] : p[1] = q[1]
      <4>1. PICK i \in d.known_items \cup d.gone_items : Name(i) = Name(q[1])
        BY <3>1, <3>3 DEF Told
      <4>2. i \notin d.gone_items
        BY <3>1, <4>1, MergedOf
      <4>. QED BY <1>4, <4>1, <4>2
    <3>. QED BY <3>1, <3>2, <3>3, MergedOf
  <2>. QED BY <2>1, <2>2 DEF Told
<1>10. Marked(e)
  <2> SUFFICES ASSUME NEW u \in e.users, NEW q \in e.view[u], e.item[q[1]].need
               PROVE  q[1] \in e.known_items
    BY DEF Marked
  <2>1. u \in Users /\ u \in d.users /\ q \in Merged(d, u)
    BY <1>2, <1>7, <1>8
  <2>2. q[1] \in Items /\ d.item[q[1]].need
    <3>1. q[1] \in Items
      BY <2>1, MergedOf
    <3>. QED BY <1>1, <3>1 DEF Blank
  <2>3. CASE q[1] \in new
    BY <1>1, <2>2, <2>3 DEF last
  <2>4. CASE \E p \in d.view[u] : p[1] = q[1]
    BY <1>4, <2>1, <2>2, <2>4 DEF Marked
  <2>. QED BY <2>1, <2>3, <2>4, MergedOf
<1>11. Examined(e)
  BY <1>1 DEF Examined, Range
<1>12. \A n \in Names : Unlisted(e, n) # {}
  <2> SUFFICES ASSUME NEW n \in Names, Unlisted(e, n) = {} PROVE FALSE
    OBVIOUS
  <2>1. Listed(e) = e.known_items
    BY <1>1 DEF Listed, Range
  <2>2. 1 \in 1..Copies /\ 2 \in 1..Copies
    BY DirectoryAssumption
  <2>3. <<n, 1>> \in e.known_items /\ <<n, 2>> \in e.known_items
    BY <2>1, <2>2 DEF Unlisted
  <2>4. <<n, 1>> = <<n, 2>>
    BY <1>6, <2>3 DEF Apart, Name
  <2>. QED BY <2>4
<1>13. Roomy(e)
  <2>1. ASSUME NEW n \in e.recheck_list, Known(e, n) = {} PROVE Spare(e, n) # {}
    <3>1. <<n, 1>> \notin Referenced(e)
      <4>1. <<n, 1>> \notin e.known_items
        BY <2>1 DEF Known, Name
      <4>2. ASSUME NEW u \in Users, NEW q \in e.view[u] PROVE q[1] # <<n, 1>>
        <5>1. CASE u \in e.users
          <6>1. PICK i \in e.known_items : Name(i) = Name(q[1])
            BY <1>1, <1>9, <5>1 DEF Told
          <6>. QED BY <2>1, <6>1 DEF Known, Name
        <5>2. CASE u \notin e.users
          BY <1>9, <4>2, <5>2 DEF Told
        <5>. QED BY <5>1, <5>2
      <4>. QED BY <1>1, <4>1, <4>2 DEF Referenced, InViews, Range
    <3>. QED BY <3>1, DirectoryAssumption DEF Spare
  <2>2. e.recheck_list \subseteq Names /\ \A i \in e.known_items : Name(i) \in Names
    BY <1>5 DEF Typed, Items, Name
  <2>. QED BY <1>12, <2>1, <2>2 DEF Roomy
<1>14. ASSUME Unharmed(d) PROVE Unharmed(e)
  <2>1. ASSUME NEW i \in d.gone_items PROVE i \notin Referenced(e)
    <3>1. i \notin e.known_items
      BY <1>4 DEF Apart
    <3>2. ASSUME NEW u \in Users, NEW q \in e.view[u] PROVE q[1] # i
      BY <1>2, <1>7, <1>9, MergedOf DEF Told
    <3>. QED BY <1>1, <3>1, <3>2 DEF Referenced, InViews, Range
  <2>. QED BY <1>1, <1>14, <2>1 DEF Unharmed
<1>. QED BY <1>5, <1>6, <1>9, <1>10, <1>11, <1>13, <1>14 DEF Tidy, e

Rest == {"scanning", "idle_callback", "needs_update", "rescan_timeout", "notify_active",
         "error", "closing", "busy", "missed"}

LEMMA RoomyKept ==
    ASSUME NEW d, Roomy(d), NEW e, e.recheck_list \subseteq d.recheck_list,
           e.known_items = d.known_items, Listed(e) \subseteq Listed(d),
           Referenced(e) \subseteq Referenced(d),
           \A i \in e.known_items : e.item[i].need => d.item[i].need
    PROVE  Roomy(e)
BY DEF Roomy, Known, Spare, Unlisted

\* what the windows may show in e, seen from d: known items, and what was shown
Drawable(d, e) ==
    /\ e.missed \in BOOLEAN /\ e.dangling \in BOOLEAN
    /\ CloseWhenMissing => ~e.dangling
    /\ e.users \subseteq Users /\ e.view \in [Users -> SUBSET (Items \X Vers)]
    /\ \A u \in Users \ e.users : e.view[u] = {}
    /\ \A u \in e.users : \A p \in e.view[u] :
           p[1] \in d.known_items \/ \E t \in d.users : \E q \in d.view[t] : q[1] = p[1]

\* The items stay in order when windows come, go, and show what is known or was shown.
LEMMA ViewTidy ==
    ASSUME NEW d, Tidy(d), NEW e, Shape(e), Drawable(d, e),
           Others(d, e, Rest \cup {"users", "view", "dangling"})
    PROVE  Tidy(e)
<1>0. /\ e.missed \in BOOLEAN /\ e.dangling \in BOOLEAN
      /\ CloseWhenMissing => ~e.dangling
      /\ e.users \subseteq Users /\ e.view \in [Users -> SUBSET (Items \X Vers)]
      /\ \A u \in Users \ e.users : e.view[u] = {}
      /\ \A u \in e.users : \A p \in e.view[u] :
             p[1] \in d.known_items \/ \E t \in d.users : \E q \in d.view[t] : q[1] = p[1]
  BY DEF Drawable
<1>1. /\ e.known_items = d.known_items /\ e.new_items = d.new_items
      /\ e.up_items = d.up_items /\ e.gone_items = d.gone_items /\ e.item = d.item
      /\ e.recheck_list = d.recheck_list /\ e.freed = d.freed
  BY DEF Others, Fields, Rest
<1>2. /\ Typed(d) /\ Roomy(d) /\ Apart(d) /\ Told(d) /\ Marked(d) /\ Examined(d)
      /\ CloseWhenMissing => Unharmed(d)
  BY DEF Tidy
<1>3. Typed(e)
  BY <1>0, <1>1, <1>2 DEF Typed
<1>4. Told(e)
  <2>1. ASSUME NEW u \in e.users, NEW p \in e.view[u]
        PROVE  \E i \in d.known_items \cup d.gone_items : Name(i) = Name(p[1])
    BY <1>0, <1>2 DEF Told
  <2>. QED BY <1>0, <1>1, <2>1 DEF Told
<1>5. Marked(e)
  BY <1>0, <1>1, <1>2 DEF Marked
<1>6. Apart(e) /\ Examined(e)
  BY <1>1, <1>2 DEF Apart, Examined
<1>7. Roomy(e)
  <2>1. Listed(e) = Listed(d)
    BY <1>1 DEF Listed
  <2>2. Referenced(e) \subseteq Referenced(d)
    <3>1. InViews(e, Users) \subseteq d.known_items \cup InViews(d, Users)
      <4> SUFFICES ASSUME NEW u \in Users, NEW p \in e.view[u]
                   PROVE  p[1] \in d.known_items \cup InViews(d, Users)
        BY DEF InViews
      <4>1. u \in e.users
        BY <1>0
      <4>2. d.users \subseteq Users
        BY <1>2 DEF Typed
      <4>. QED BY <1>0, <4>1, <4>2 DEF InViews
    <3>. QED BY <1>1, <3>1 DEF Referenced
  <2>. QED BY <1>1, <1>2, <2>1, <2>2, RoomyKept
<1>8. CloseWhenMissing => Unharmed(e)
  BY <1>0, <1>1, <1>2 DEF Unharmed
<1>. QED BY <1>3, <1>4, <1>5, <1>6, <1>7, <1>8 DEF Tidy

LEMMA SetScanningTidy ==
    ASSUME NEW d, Tidy(d), NEW b \in BOOLEAN
    PROVE  Tidy(dir_set_scanning(d, b))
<1> DEFINE e == dir_set_scanning(d, b)
<1>0. Typed(d) /\ Told(d) /\ (CloseWhenMissing => Unharmed(d))
  BY DEF Tidy
<1>1. /\ Shape(e) /\ Others(d, e, {"scanning", "busy", "view"})
      /\ e.view = IF d.scanning /\ ~b
                  THEN [u \in Users |-> IF u \in d.users THEN Draw(d, u, d.known_items)
                                          ELSE d.view[u]]
                  ELSE d.view
  BY <1>0, SetScanningIs
<1> HIDE DEF e
<1>2. Others(d, e, Rest \cup {"users", "view", "dangling"})
  BY <1>1 DEF Others, Rest
<1>3. e.users = d.users /\ e.missed = d.missed /\ e.dangling = d.dangling
  BY <1>1 DEF Others, Fields
<1>4. /\ d.view \in [Users -> SUBSET (Items \X Vers)] /\ d.known_items \subseteq Items
      /\ d.users \subseteq Users /\ d.missed \in BOOLEAN /\ d.dangling \in BOOLEAN
  BY <1>0 DEF Typed
<1>5. e.view \in [Users -> SUBSET (Items \X Vers)]
  <2>1. \A u \in Users : Draw(d, u, d.known_items) \subseteq Items \X Vers
    BY <1>0, <1>4, DrawnIs
  <2>. QED BY <1>1, <1>4, <2>1
<1>6. \A u \in Users \ e.users : e.view[u] = {}
  BY <1>0, <1>1, <1>3 DEF Told
<1>7. ASSUME NEW u \in e.users, NEW p \in e.view[u]
      PROVE  p[1] \in d.known_items \/ \E t \in d.users : \E q \in d.view[t] : q[1] = p[1]
  <2>1. p \in d.view[u] \/ p \in Draw(d, u, d.known_items)
    BY <1>1, <1>3, <1>4
  <2>. QED BY <1>0, <1>3, <1>4, <2>1, DrawnIs
<1>8. CloseWhenMissing => ~e.dangling
  BY <1>0, <1>3 DEF Unharmed
<1>9. Tidy(e)
  <2>1. Drawable(d, e)
    BY <1>3, <1>4, <1>5, <1>6, <1>7, <1>8 DEF Drawable
  <2>. QED BY <1>1, <1>2, <2>1, ViewTidy
<1>. QED BY <1>9 DEF e

\* A window that is drawn anew shows the known items.
LEMMA DrawnPainted ==
    ASSUME NEW d, Typed(d), NEW u
    PROVE  LET V == Draw(d, u, d.known_items) IN
           /\ \A p \in V : /\ p[1] \in d.known_items /\ Name(p[1]) \in Shows[u]
                           /\ p[2] = d.item[p[1]].ver
           /\ \A i \in d.known_items : Name(i) \in Shows[u] => \E p \in V : p[1] = i
           /\ \A p, q \in V : p[1] = q[1] => p = q
<1>1. d.known_items \subseteq Items
  BY DEF Typed
<1>2. \A p \in Draw(d, u, d.known_items) : p \in Items \X Vers
  BY <1>1, DrawnIs
<1>3. \A p \in Draw(d, u, d.known_items) : p[2] = d.item[p[1]].ver
  BY <1>1, DrawnIs
<1>4. ASSUME NEW p \in Draw(d, u, d.known_items), NEW q \in Draw(d, u, d.known_items),
             p[1] = q[1]
      PROVE  p = q
  <2>1. p[2] = q[2] /\ p \in Items \X Vers /\ q \in Items \X Vers
    BY <1>2, <1>3, <1>4
  <2>. QED BY <1>4, <2>1
<1>5. \A i \in d.known_items : Name(i) \in Shows[u]
          => <<i, d.item[i].ver>> \in Draw(d, u, d.known_items)
  BY <1>1, DrawnIs
<1>. QED BY <1>1, <1>4, <1>5, DrawnIs

LEMMA ContentSame ==
    ASSUME NEW d, Content(d), NEW e, e.known_items = d.known_items,
           e.new_items = d.new_items, e.gone_items = d.gone_items, e.item = d.item,
           e.recheck_list = d.recheck_list
    PROVE  Content(e)
BY DEF Content, ContentAs, Known

LEMMA SetScanningCaught ==
    ASSUME NEW d, Typed(d), Caught(d), NEW b \in BOOLEAN
    PROVE  Caught(dir_set_scanning(d, b))
<1> DEFINE e == dir_set_scanning(d, b)
<1>1. /\ Shape(e) /\ Others(d, e, {"scanning", "busy", "view"}) /\ e.scanning = b
      /\ e.view = IF d.scanning /\ ~b
                  THEN [u \in Users |-> IF u \in d.users THEN Draw(d, u, d.known_items)
                                          ELSE d.view[u]]
                  ELSE d.view
  BY SetScanningIs
<1> HIDE DEF e
<1>2. /\ e.known_items = d.known_items /\ e.new_items = d.new_items
      /\ e.up_items = d.up_items /\ e.gone_items = d.gone_items /\ e.item = d.item
      /\ e.recheck_list = d.recheck_list /\ e.users = d.users
  BY <1>1 DEF Others, Fields
<1>3. Content(e)
  BY <1>2, ContentSame DEF Caught
<1>4. CASE e.scanning
  BY <1>3, <1>4 DEF Caught, e
<1>5. CASE ~e.scanning
  <2>1. Painted(e)
    <3>1. CASE d.scanning
      <4>1. d.users \subseteq Users
        BY DEF Typed
      <4>2. \A u \in e.users : e.view[u] = Draw(d, u, d.known_items)
        BY <1>1, <1>2, <1>5, <3>1, <4>1
      <4>3. ASSUME NEW u \in e.users
            PROVE  /\ \A p \in e.view[u] : /\ p[1] \in e.known_items
                                            /\ Name(p[1]) \in Shows[u]
                                            /\ p[2] = e.item[p[1]].ver
                   /\ \A i \in e.known_items : Name(i) \in Shows[u]
                          => \E p \in e.view[u] : p[1] = i
                   /\ \A p, q \in e.view[u] : p[1] = q[1] => p = q
        <5>1. e.view[u] = Draw(d, u, d.known_items)
          BY <4>2
        <5>2. LET V == Draw(d, u, d.known_items) IN
              /\ \A p \in V : /\ p[1] \in d.known_items /\ Name(p[1]) \in Shows[u]
                              /\ p[2] = d.item[p[1]].ver
              /\ \A i \in d.known_items : Name(i) \in Shows[u] => \E p \in V : p[1] = i
              /\ \A p, q \in V : p[1] = q[1] => p = q
          BY DrawnPainted
        <5>. QED BY ONLY <1>2, <5>1, <5>2
      <4>. QED BY <4>3 DEF Painted
    <3>2. CASE ~d.scanning
      BY <1>1, <1>2, <3>2 DEF Painted, Caught
    <3>. QED BY <3>1, <3>2
  <2>. QED BY <1>3, <2>1 DEF Caught, e
<1>. QED BY <1>4, <1>5

LEMMA MergeCaught ==
    ASSUME NEW d, Typed(d), Content(d)
    PROVE  /\ Content(dir_merge_new(d))
           /\ Painted(d) => Painted(dir_merge_new(d))
           /\ dir_merge_new(d).scanning = d.scanning
<1> DEFINE e == dir_merge_new(d)
<1>1. /\ Shape(e)
      /\ Others(d, e, {"known_items", "new_items", "up_items", "gone_items", "view",
                            "dangling", "freed", "item"})
      /\ e.known_items = {i \in d.known_items :
                              \A j \in Range(d.new_items) : Name(j) # Name(i)}
                           \cup LastOfEachName(d.new_items)
      /\ e.new_items = <<>> /\ e.up_items = {} /\ e.gone_items = {}
      /\ e.view = [u \in Users |-> IF u \in d.users THEN Merged(d, u) ELSE d.view[u]]
      /\ e.item = [i \in Items |-> IF i \in d.gone_items THEN Blank ELSE d.item[i]]
  BY MergeIs
<1> HIDE DEF e
<1>2. e.users = d.users /\ e.recheck_list = d.recheck_list /\ e.scanning = d.scanning
  BY <1>1 DEF Others, Fields
<1>3. d.new_items = <<>> /\ d.gone_items = {} /\ Range(d.new_items) = {}
      /\ LastOfEachName(d.new_items) = {}
  BY DEF Content, ContentAs, Range, LastOfEachName
<1>4. e.known_items = d.known_items /\ e.item = d.item
  BY <1>1, <1>3 DEF Typed
<1>5. Content(e)
  BY <1>1, <1>2, <1>3, <1>4, ContentSame
<1>6. ASSUME Painted(d) PROVE Painted(e)
  <2>1. d.users \subseteq Users /\ d.view \in [Users -> SUBSET (Items \X Vers)]
    BY DEF Typed
  <2>2. ASSUME NEW u \in d.users
        PROVE  e.view[u] = {Upd(d, d.up_items, p) : p \in d.view[u]}
    <3>1. Draw(d, u, Range(d.new_items)) = {}
      BY <1>3 DEF Draw
    <3>. QED BY <1>1, <1>3, <2>1, <3>1 DEF Merged
  <2>3. ASSUME NEW u \in d.users, NEW q \in e.view[u]
        PROVE  \E p \in d.view[u] : p \in Items \X Vers /\ q = Upd(d, d.up_items, p)
                                    /\ q \in Items \X Vers /\ q[1] = p[1]
                                    /\ q[2] = IF p[1] \in d.up_items
                                              THEN d.item[p[1]].ver ELSE p[2]
    BY <2>1, <2>2, UpdOf
  <2>4. ASSUME NEW u \in d.users, NEW p \in d.view[u]
        PROVE  Upd(d, d.up_items, p) \in e.view[u] /\ Upd(d, d.up_items, p)[1] = p[1]
    <3>1. p \in Items \X Vers
      BY <2>1
    <3>. QED BY <2>2, <3>1, UpdOf
  <2>5. ASSUME NEW u \in d.users, NEW q \in e.view[u]
        PROVE  q[1] \in d.known_items /\ Name(q[1]) \in Shows[u] /\ q[2] = d.item[q[1]].ver
    BY <1>6, <2>3 DEF Painted
  <2>6. ASSUME NEW u \in d.users, NEW i \in d.known_items, Name(i) \in Shows[u]
        PROVE  \E q \in e.view[u] : q[1] = i
    BY <1>6, <2>4, <2>6 DEF Painted
  <2>7. ASSUME NEW u \in d.users, NEW p \in e.view[u], NEW q \in e.view[u], p[1] = q[1]
        PROVE  p = q
    <3>1. p \in Items \X Vers /\ q \in Items \X Vers
      BY <2>3
    <3>2. p[2] = q[2]
      BY <2>5, <2>7
    <3>. QED BY <2>7, <3>1, <3>2
  <2>. QED BY <1>2, <1>4, <2>5, <2>6, <2>7 DEF Painted
<1>. QED BY <1>2, <1>5, <1>6 DEF e

LEMMA RemoveMissingTidy ==
    ASSUME NEW d, Tidy(d), NEW keep, CloseWhenMissing => ~Pending(d)
    PROVE  Tidy(remove_missing(d, keep))
<1> DEFINE deleted == {i \in d.known_items : Name(i) \notin keep}
           e == remove_missing(d, keep)
<1>0. /\ Typed(d) /\ Roomy(d) /\ Apart(d) /\ Told(d) /\ Marked(d) /\ Examined(d)
      /\ CloseWhenMissing => Unharmed(d)
  BY DEF Tidy
<1>1. /\ Shape(e) /\ Others(d, e, {"known_items", "view", "dangling", "freed", "item"})
      /\ e.known_items = d.known_items \ deleted
      /\ e.view = [u \in Users |-> IF u \in d.users
                     THEN {p \in d.view[u] : \A i \in deleted : Name(i) # Name(p[1])}
                     ELSE d.view[u]]
      /\ e.item = [i \in Items |-> IF i \in deleted THEN Blank ELSE d.item[i]]
      /\ e.freed = d.freed \cup (deleted \cap Referenced(e))
      /\ e.dangling \in BOOLEAN
      /\ Unharmed(d) => ~e.dangling
  BY <1>0, RemoveMissingIs
<1> HIDE DEF e
<1>2. /\ e.users = d.users /\ e.recheck_list = d.recheck_list /\ e.missed = d.missed
      /\ e.new_items = d.new_items /\ e.up_items = d.up_items
      /\ e.gone_items = d.gone_items
  BY <1>1 DEF Others, Fields
<1>3. deleted \subseteq d.known_items /\ d.known_items \subseteq Items /\ d.users \subseteq Users
      /\ d.view \in [Users -> SUBSET (Items \X Vers)]
  BY <1>0 DEF Typed
<1>4. ASSUME NEW u \in Users
      PROVE  /\ e.view[u] \subseteq d.view[u]
             /\ \A i \in deleted : \A p \in e.view[u] : Name(i) # Name(p[1])
  <2>1. CASE u \in d.users
    BY <1>1, <2>1
  <2>2. CASE u \notin d.users
    BY <1>0, <1>1, <2>2 DEF Told
  <2>. QED BY <2>1, <2>2
<1> HIDE DEF deleted
<1>5. Typed(e)
  <2>1. Blank \in Seen
    BY DEF Blank, Seen, Vers
  <2>2. e.item \in [Items -> Seen]
    BY <1>0, <1>1, <2>1 DEF Typed
  <2>3. e.view \in [Users -> SUBSET (Items \X Vers)]
    BY <1>1, <1>3
  <2>4. e.freed \subseteq Items /\ e.known_items \subseteq Items
    BY <1>0, <1>1, <1>3 DEF Typed
  <2>. QED BY <1>0, <1>1, <1>2, <2>2, <2>3, <2>4 DEF Typed
<1>6. Apart(e)
  BY <1>0, <1>1, <1>2 DEF Apart
<1>7. Told(e)
  <2>1. \A u \in Users \ e.users : e.view[u] = {}
    BY <1>0, <1>2, <1>4 DEF Told
  <2>2. ASSUME NEW u \in e.users, NEW p \in e.view[u]
        PROVE  \E i \in e.known_items \cup e.gone_items : Name(i) = Name(p[1])
    <3>1. u \in Users /\ u \in d.users /\ p \in d.view[u]
      BY <1>2, <1>3, <1>4
    <3>2. PICK i \in d.known_items \cup d.gone_items : Name(i) = Name(p[1])
      BY <1>0, <3>1 DEF Told
    <3>3. i \notin deleted
      BY <1>4, <3>1, <3>2
    <3>. QED BY <1>1, <1>2, <3>2, <3>3
  <2>. QED BY <2>1, <2>2 DEF Told
<1>8. Marked(e)
  <2> SUFFICES ASSUME NEW u \in e.users, NEW p \in e.view[u], e.item[p[1]].need
               PROVE  p[1] \in e.known_items
    BY DEF Marked
  <2>1. u \in Users /\ u \in d.users /\ p \in d.view[u] /\ p[1] \in Items
    BY <1>2, <1>3, <1>4
  <2>2. p[1] \notin deleted /\ d.item[p[1]].need
    BY <1>1, <2>1 DEF Blank
  <2>. QED BY <1>0, <1>1, <2>1, <2>2 DEF Marked
<1>9. Examined(e)
  <2>1. Range(d.new_items) \subseteq Items
    BY <1>0 DEF Typed, Range
  <2>. QED BY <1>0, <1>1, <1>2, <2>1 DEF Examined, Blank
<1>10. Listed(e) \subseteq Listed(d) /\ InViews(e, Users) \subseteq InViews(d, Users)
  <2>1. Listed(e) \subseteq Listed(d)
    BY <1>1, <1>2 DEF Listed
  <2>2. InViews(e, Users) \subseteq InViews(d, Users)
    BY <1>4 DEF InViews
  <2>. QED BY <2>1, <2>2
<1>11. Referenced(e) = Listed(e) \cup InViews(e, Users)
       /\ Referenced(d) = Listed(d) \cup InViews(d, Users)
  BY DEF Referenced, Listed
<1>12. Roomy(e)
  <2>1. ASSUME NEW n \in e.recheck_list, Known(e, n) = {} PROVE Spare(e, n) # {}
    <3>1. CASE Known(d, n) = {}
      BY <1>0, <1>2, <1>10, <1>11, <3>1 DEF Roomy, Spare
    <3>2. CASE Known(d, n) # {}
      <4>1. PICK i \in deleted : Name(i) = n
        BY <1>1, <2>1, <3>2 DEF Known
      <4>2. PICK k \in 1..Copies : <<n, k>> \notin Listed(d)
        BY <1>0, <1>2 DEF Roomy, Unlisted
      <4>3. <<n, k>> \notin InViews(e, Users)
        <5> SUFFICES ASSUME NEW u \in Users, NEW p \in e.view[u], p[1] = <<n, k>>
                     PROVE  FALSE
          BY DEF InViews
        <5>1. Name(p[1]) = n
          BY DEF Name
        <5>. QED BY <1>4, <4>1, <5>1
      <4>. QED BY <1>10, <1>11, <4>2, <4>3 DEF Spare
    <3>. QED BY <3>1, <3>2
  <2>2. \A n \in e.recheck_list : Unlisted(e, n) # {}
    BY <1>0, <1>2, <1>10 DEF Roomy, Unlisted
  <2>3. \A i \in e.known_items : e.item[i].need => Unlisted(e, Name(i)) # {}
    <3> SUFFICES ASSUME NEW i \in e.known_items, e.item[i].need
                 PROVE  Unlisted(e, Name(i)) # {}
      OBVIOUS
    <3>1. i \in d.known_items /\ d.item[i].need
      BY <1>1, <1>3
    <3>. QED BY <1>0, <1>10, <3>1 DEF Roomy, Unlisted
  <2>. QED BY <2>1, <2>2, <2>3 DEF Roomy
<1>13. CloseWhenMissing => Unharmed(e)
  <2> SUFFICES ASSUME CloseWhenMissing PROVE Unharmed(e)
    OBVIOUS
  <2>1. e.new_items = <<>> /\ e.up_items = {} /\ e.gone_items = {}
    BY <1>2 DEF Pending
  <2>2. deleted \cap Referenced(e) = {}
    <3>1. Listed(e) = e.known_items
      BY <2>1 DEF Listed, Range
    <3>2. ASSUME NEW i \in deleted PROVE i \notin InViews(e, Users)
      BY <1>4 DEF InViews
    <3>. QED BY <1>1, <1>11, <3>1, <3>2
  <2>. QED BY <1>0, <1>1, <2>2 DEF Unharmed
<1>14. Tidy(e)
  BY <1>5, <1>6, <1>7, <1>8, <1>9, <1>12, <1>13 DEF Tidy
<1>. QED BY <1>14 DEF e

\* The four things insert_item may do to the lists.
Ignores(d, e, leaf) == Known(d, leaf) = {} /\ Lstat(leaf) = Absent /\ e = d

LooksAt(d, e, i, leaf) ==
    e.item = [d.item EXCEPT ![i] = [ver |-> Lstat(leaf), need |-> FALSE]]

Adds(d, e, leaf) ==
    /\ Known(d, leaf) = {} /\ Lstat(leaf) # Absent
    /\ e.known_items = d.known_items /\ e.gone_items = d.gone_items
    /\ e.new_items = Append(d.new_items, NewItem(d, leaf))
    /\ e.up_items = d.up_items \cup {NewItem(d, leaf)}
    /\ e.freed = d.freed \ {NewItem(d, leaf)}
    /\ LooksAt(d, e, NewItem(d, leaf), leaf)

Drops(d, e, i, leaf) ==
    /\ Lstat(leaf) = Absent
    /\ e.known_items = d.known_items \ {i} /\ e.gone_items = d.gone_items \cup {i}
    /\ e.new_items = d.new_items /\ e.up_items = d.up_items /\ e.freed = d.freed
    /\ LooksAt(d, e, i, leaf)

Changes(d, e, i, leaf) ==
    /\ Lstat(leaf) # Absent
    /\ e.known_items = d.known_items /\ e.gone_items = d.gone_items
    /\ e.new_items = d.new_items /\ e.freed = d.freed
    /\ \/ e.up_items = d.up_items \cup {i}
       \/ e.up_items = d.up_items /\ d.item[i] = [ver |-> Lstat(leaf), need |-> FALSE]
    /\ LooksAt(d, e, i, leaf)

LEMMA InsertIs ==
    ASSUME NEW d, Shape(d), NEW leaf
    PROVE  LET e == insert_item(d, leaf) IN
           /\ Shape(e)
           /\ Others(d, e, {"known_items", "new_items", "up_items", "gone_items", "freed",
                            "item", "notify_active"})
           /\ \/ Ignores(d, e, leaf)
              \/ Adds(d, e, leaf)
              \/ \E i \in Known(d, leaf) : Drops(d, e, i, leaf) \/ Changes(d, e, i, leaf)
<1> DEFINE e == insert_item(d, leaf)
           seen == [ver |-> Lstat(leaf), need |-> FALSE]
<1>1. CASE Known(d, leaf) = {} /\ Lstat(leaf) = Absent
  BY <1>1 DEF insert_item, Others, Ignores
<1>2. CASE Known(d, leaf) = {} /\ Lstat(leaf) # Absent
  <2> DEFINE i == NewItem(d, leaf)
  <2>1. e = delayed_notify([d EXCEPT !.new_items = Append(@, i), !.up_items = @ \cup {i},
                                     !.freed = @ \ {i}, !.item[i] = seen])
    BY <1>2 DEF insert_item
  <2> HIDE DEF e, i, seen
  <2>2. /\ Shape(e)
        /\ Others(d, e, {"known_items", "new_items", "up_items", "gone_items", "freed",
                         "item", "notify_active"})
        /\ e.known_items = d.known_items /\ e.gone_items = d.gone_items
        /\ e.new_items = Append(d.new_items, i) /\ e.up_items = d.up_items \cup {i}
        /\ e.freed = d.freed \ {i} /\ e.item = [d.item EXCEPT ![i] = seen]
    BY <2>1 DEF delayed_notify, Shape, Fields, Others
  <2>. QED BY <1>2, <2>2 DEF Adds, LooksAt, e, i, seen
<1>3. CASE Known(d, leaf) # {}
  <2> DEFINE i == CHOOSE j \in Known(d, leaf) : TRUE
             looked == [d EXCEPT !.item[i] = seen]
  <2>1. i \in Known(d, leaf)
    BY <1>3
  <2>2. \/ /\ Lstat(leaf) = Absent
           /\ e = delayed_notify([looked EXCEPT !.known_items = @ \ {i},
                                                !.gone_items = @ \cup {i}])
        \/ Lstat(leaf) # Absent /\ d.item[i] = seen /\ e = looked
        \/ /\ Lstat(leaf) # Absent
           /\ e = delayed_notify([looked EXCEPT !.up_items = @ \cup {i}])
    BY <1>3 DEF insert_item
  <2> HIDE DEF e, i, seen
  <2>3. /\ Shape(e)
        /\ Others(d, e, {"known_items", "new_items", "up_items", "gone_items", "freed",
                         "item", "notify_active"})
        /\ e.new_items = d.new_items /\ e.freed = d.freed
        /\ e.item = [d.item EXCEPT ![i] = seen]
    BY <2>2 DEF delayed_notify, Shape, Fields, Others
  <2>4. \/ /\ Lstat(leaf) = Absent /\ e.up_items = d.up_items
           /\ e.known_items = d.known_items \ {i} /\ e.gone_items = d.gone_items \cup {i}
        \/ /\ Lstat(leaf) # Absent
           /\ e.known_items = d.known_items /\ e.gone_items = d.gone_items
           /\ \/ e.up_items = d.up_items \cup {i}
              \/ e.up_items = d.up_items /\ d.item[i] = seen
    BY <2>2 DEF delayed_notify, Shape, Fields
  <2>5. Drops(d, e, i, leaf) \/ Changes(d, e, i, leaf)
    BY <2>3, <2>4 DEF Drops, Changes, LooksAt, seen
  <2>. QED BY <2>1, <2>3, <2>5 DEF e
<1>. QED BY <1>1, <1>2, <1>3

LEMMA LstatIs ==
    ASSUME disk \in [Names -> Vers], NEW leaf \in Names
    PROVE  Lstat(leaf) \in Vers /\ [ver |-> Lstat(leaf), need |-> FALSE] \in Seen
<1>1. Lstat(leaf) \in Vers
  BY DEF Lstat, Vers
<1>. QED BY <1>1 DEF Seen

\* A new item takes memory that nothing holds.
LEMMA NewItemIs ==
    ASSUME NEW d, NEW leaf, Spare(d, leaf) # {}
    PROVE  \E c \in Spare(d, leaf) : NewItem(d, leaf) = <<leaf, c>>
BY DEF NewItem, Spare

LEMMA RangeAppend ==
    ASSUME NEW T, NEW s \in Seq(T), NEW x
    PROVE  Range(Append(s, x)) = Range(s) \cup {x}
<1>1. /\ DOMAIN Append(s, x) = 1..(Len(s) + 1) /\ DOMAIN s = 1..Len(s) /\ Len(s) \in Nat
      /\ Append(s, x)[Len(s) + 1] = x
      /\ \A k \in 1..Len(s) : Append(s, x)[k] = s[k]
  OBVIOUS
<1>. QED BY <1>1 DEF Range

LEMMA AddsTidy ==
    ASSUME NEW d, Tidy(d), disk \in [Names -> Vers], NEW leaf \in Names, NEW e, Shape(e),
           Others(d, e, {"known_items", "new_items", "up_items", "gone_items", "freed",
                         "item", "notify_active"}),
           Spare(d, leaf) # {},
           leaf \in d.recheck_list => \E k, l \in Spare(d, leaf) : k # l,
           Adds(d, e, leaf)
    PROVE  Tidy(e)
<1>0. /\ Typed(d) /\ Roomy(d) /\ Apart(d) /\ Told(d) /\ Marked(d) /\ Examined(d)
      /\ CloseWhenMissing => Unharmed(d)
  BY DEF Tidy
<1>2. /\ e.users = d.users /\ e.recheck_list = d.recheck_list /\ e.missed = d.missed
      /\ e.view = d.view /\ e.dangling = d.dangling
  BY DEF Others, Fields
<1>3. PICK c \in Spare(d, leaf) : NewItem(d, leaf) = <<leaf, c>>
  BY NewItemIs
<1> DEFINE i == <<leaf, c>>
           seen == [ver |-> Lstat(leaf), need |-> FALSE]
<1>4. /\ e.known_items = d.known_items /\ e.gone_items = d.gone_items
      /\ e.new_items = Append(d.new_items, i) /\ e.up_items = d.up_items \cup {i}
      /\ e.freed = d.freed \ {i} /\ e.item = [d.item EXCEPT ![i] = seen]
      /\ Known(d, leaf) = {}
  BY <1>3 DEF Adds, LooksAt
<1>5. i \in Items /\ seen \in Seen /\ Name(i) = leaf /\ i \notin Referenced(d)
  BY <1>3, LstatIs DEF Spare, Items, Name
<1> HIDE DEF i, seen
<1>6. Range(e.new_items) = Range(d.new_items) \cup {i} /\ Range(d.new_items) \subseteq Items
      /\ e.new_items \in Seq(Items)
  <2>1. d.new_items \in Seq(Items)
    BY <1>0 DEF Typed
  <2>2. Range(Append(d.new_items, i)) = Range(d.new_items) \cup {i}
    BY ONLY <2>1, RangeAppend
  <2>3. Range(d.new_items) \subseteq Items
    BY ONLY <2>1 DEF Range
  <2>4. Append(d.new_items, i) \in Seq(Items)
    BY ONLY <1>5, <2>1
  <2>. QED BY ONLY <1>4, <2>2, <2>3, <2>4
<1>7. /\ i \notin d.known_items /\ i \notin d.gone_items /\ i \notin InViews(d, Users)
      /\ i \notin Range(d.new_items)
  BY <1>5 DEF Referenced
<1>8. e.item \in [Items -> Seen] /\ e.item[i] = seen
      /\ \A j \in Items \ {i} : e.item[j] = d.item[j]
  BY <1>0, <1>4, <1>5 DEF Typed
<1>9. Typed(e)
  BY <1>0, <1>2, <1>4, <1>5, <1>6, <1>8 DEF Typed
<1>10. Apart(e)
  <2>1. \A k \in d.known_items : Name(k) # leaf
    BY <1>4 DEF Known
  <2>. QED BY <1>0, <1>4, <1>5, <1>6, <1>7, <2>1 DEF Apart
<1>11. Told(e)
  BY <1>0, <1>2, <1>4 DEF Told
<1>12. Marked(e)
  <2> SUFFICES ASSUME NEW u \in d.users, NEW p \in d.view[u], e.item[p[1]].need
               PROVE  p[1] \in d.known_items
    BY <1>2, <1>4 DEF Marked
  <2>1. u \in Users /\ p[1] \in Items
    BY <1>0 DEF Typed
  <2>2. p[1] # i
    BY <1>7, <2>1 DEF InViews
  <2>. QED BY <1>0, <1>8, <2>1, <2>2 DEF Marked
<1>13. Examined(e)
  BY <1>0, <1>6, <1>8 DEF Examined, seen
<1>14. Roomy(e)
  <2>1. Referenced(e) = Referenced(d) \cup {i} /\ Listed(e) = Listed(d) \cup {i}
        /\ Listed(e) \subseteq Referenced(e)
    BY <1>2, <1>4, <1>6 DEF Referenced, Listed, InViews
  <2>2. \A n : n # leaf => Spare(e, n) = Spare(d, n) /\ Unlisted(e, n) = Unlisted(d, n)
    BY <1>5, <2>1 DEF Spare, Unlisted, Name
  <2>3. ASSUME leaf \in d.recheck_list PROVE Spare(e, leaf) # {} /\ Unlisted(e, leaf) # {}
    <3>1. PICK k \in Spare(d, leaf) : k # c
      BY <2>3
    <3>2. <<leaf, k>> # i
      BY <3>1 DEF i
    <3>. QED BY <2>1, <3>1, <3>2 DEF Spare, Unlisted
  <2>4. \A n : Known(e, n) = Known(d, n)
    BY <1>4 DEF Known
  <2>5. ASSUME NEW k \in e.known_items, e.item[k].need PROVE Unlisted(e, Name(k)) # {}
    <3>1. k \in d.known_items /\ d.item[k].need /\ Name(k) # leaf
      <4>1. k \in Items /\ k # i
        BY <1>0, <1>4, <1>7 DEF Typed
      <4>. QED BY <1>4, <1>8, <2>5, <4>1 DEF Known
    <3>. QED BY <1>0, <2>2, <3>1 DEF Roomy
  <2>. QED BY <1>0, <1>2, <2>2, <2>3, <2>4, <2>5 DEF Roomy
<1>15. CloseWhenMissing => Unharmed(e)
  BY <1>0, <1>2, <1>4 DEF Unharmed
<1>. QED BY <1>9, <1>10, <1>11, <1>12, <1>13, <1>14, <1>15 DEF Tidy

LEMMA LooksTidy ==
    ASSUME NEW d, Tidy(d), disk \in [Names -> Vers], NEW leaf \in Names, NEW e, Shape(e),
           Others(d, e, {"known_items", "new_items", "up_items", "gone_items", "freed",
                         "item", "notify_active"}),
           leaf \in d.recheck_list => Spare(d, leaf) # {},
           NEW i \in Known(d, leaf), Drops(d, e, i, leaf) \/ Changes(d, e, i, leaf)
    PROVE  Tidy(e)
<1> DEFINE seen == [ver |-> Lstat(leaf), need |-> FALSE]
<1>0. /\ Typed(d) /\ Roomy(d) /\ Apart(d) /\ Told(d) /\ Marked(d) /\ Examined(d)
      /\ CloseWhenMissing => Unharmed(d)
  BY DEF Tidy
<1>2. /\ e.users = d.users /\ e.recheck_list = d.recheck_list /\ e.missed = d.missed
      /\ e.view = d.view /\ e.dangling = d.dangling
  BY DEF Others, Fields
<1>3. /\ e.new_items = d.new_items /\ e.freed = d.freed
      /\ e.item = [d.item EXCEPT ![i] = seen]
      /\ \/ e.known_items = d.known_items \ {i} /\ e.gone_items = d.gone_items \cup {i}
         \/ e.known_items = d.known_items /\ e.gone_items = d.gone_items
      /\ e.up_items \subseteq d.up_items \cup {i}
      /\ d.up_items \subseteq e.up_items
  BY DEF Drops, Changes, LooksAt
<1>4. /\ i \in d.known_items /\ i \in Items /\ Name(i) = leaf /\ seen \in Seen
      /\ d.known_items \subseteq Items
  BY <1>0, LstatIs DEF Known, Typed
<1>5. e.item \in [Items -> Seen] /\ e.item[i] = seen /\ ~e.item[i].need
      /\ \A j \in Items \ {i} : e.item[j] = d.item[j]
  BY <1>0, <1>3, <1>4 DEF Typed
<1> HIDE DEF seen
<1>6. Typed(e)
  <2>1. e.known_items \subseteq Items /\ e.gone_items \subseteq Items
        /\ e.up_items \subseteq Items
    BY <1>0, <1>3, <1>4 DEF Typed
  <2>. QED BY <1>0, <1>2, <1>3, <1>5, <2>1 DEF Typed
<1>7. Apart(e)
  <2>1. i \notin Range(d.new_items)
    BY <1>0, <1>4 DEF Apart
  <2>. QED BY <1>0, <1>3, <2>1 DEF Apart
<1>8. Told(e)
  <2>1. e.known_items \cup e.gone_items = d.known_items \cup d.gone_items
    BY <1>3, <1>4
  <2>. QED BY <1>0, <1>2, <2>1 DEF Told
<1>9. Marked(e)
  <2> SUFFICES ASSUME NEW u \in d.users, NEW p \in d.view[u], e.item[p[1]].need
               PROVE  p[1] \in e.known_items
    BY <1>2 DEF Marked
  <2>1. p[1] \in Items /\ p[1] # i
    BY <1>0, <1>5 DEF Typed
  <2>. QED BY <1>0, <1>3, <1>5, <2>1 DEF Marked
<1>10. Examined(e)
  <2>1. Range(d.new_items) \subseteq Items
    BY <1>0 DEF Typed, Range
  <2>. QED BY <1>0, <1>3, <1>5, <2>1 DEF Examined
<1>11. Roomy(e)
  <2>1. Listed(e) = Listed(d)
    BY <1>3, <1>4 DEF Listed
  <2>2. Referenced(e) = Referenced(d)
    BY <1>2, <2>1 DEF Referenced, Listed, InViews
  <2>3. \A n : Spare(e, n) = Spare(d, n) /\ Unlisted(e, n) = Unlisted(d, n)
    BY <2>1, <2>2 DEF Spare, Unlisted
  <2>4. ASSUME NEW n \in e.recheck_list, Known(e, n) = {} PROVE Spare(e, n) # {}
    <3>1. CASE n = leaf
      BY <1>2, <2>3, <3>1
    <3>2. CASE n # leaf
      <4>1. Known(d, n) = {}
        BY <1>3, <1>4, <2>4, <3>2 DEF Known
      <4>. QED BY <1>0, <1>2, <2>3, <4>1 DEF Roomy
    <3>. QED BY <3>1, <3>2
  <2>5. ASSUME NEW k \in e.known_items, e.item[k].need PROVE Unlisted(e, Name(k)) # {}
    <3>1. k \in d.known_items /\ k \in Items /\ k # i
      BY <1>3, <1>4, <1>5, <2>5
    <3>. QED BY <1>0, <1>5, <2>3, <2>5, <3>1 DEF Roomy
  <2>. QED BY <1>0, <1>2, <2>3, <2>4, <2>5 DEF Roomy
<1>12. CloseWhenMissing => Unharmed(e)
  BY <1>0, <1>2, <1>3 DEF Unharmed
<1>. QED BY <1>6, <1>7, <1>8, <1>9, <1>10, <1>11, <1>12 DEF Tidy

\* A leaf that is looked at needs memory if nothing knows it, and as much again if it is
\* to be examined later too.
LEMMA InsertTidy ==
    ASSUME NEW d, Tidy(d), disk \in [Names -> Vers], NEW leaf \in Names,
           Known(d, leaf) = {} => Spare(d, leaf) # {},
           leaf \in d.recheck_list => \E k, l \in Spare(d, leaf) : k # l
    PROVE  Tidy(insert_item(d, leaf))
<1> DEFINE e == insert_item(d, leaf)
<1>1. Shape(d)
  BY DEF Tidy, Typed
<1>2. /\ Shape(e)
      /\ Others(d, e, {"known_items", "new_items", "up_items", "gone_items", "freed",
                       "item", "notify_active"})
      /\ \/ Ignores(d, e, leaf)
         \/ Adds(d, e, leaf)
         \/ \E i \in Known(d, leaf) : Drops(d, e, i, leaf) \/ Changes(d, e, i, leaf)
  BY <1>1, InsertIs
<1> HIDE DEF e
<1>3. Tidy(e)
  <2>1. CASE Ignores(d, e, leaf)
    BY <2>1 DEF Ignores
  <2>2. CASE Adds(d, e, leaf)
    <3>1. Spare(d, leaf) # {}
      BY <2>2 DEF Adds
    <3>. QED BY <1>2, <2>2, <3>1, AddsTidy
  <2>3. CASE \E i \in Known(d, leaf) : Drops(d, e, i, leaf) \/ Changes(d, e, i, leaf)
    <3>1. leaf \in d.recheck_list => Spare(d, leaf) # {}
      OBVIOUS
    <3>. QED BY <1>2, <2>3, <3>1, LooksTidy
  <2>. QED BY <1>2, <2>1, <2>2, <2>3
<1>. QED BY <1>3 DEF e

\* Looked at while nothing is missed, a leaf is what it was known to be or becomes so.
LEMMA InsertCaught ==
    ASSUME NEW d, Typed(d), Apart(d), path = "ok", disk \in [Names -> Vers], NEW leaf \in Names,
           ContentAs(d, d.recheck_list \cup {leaf})
    PROVE  /\ Content(insert_item(d, leaf))
           /\ Painted(d) => Painted(insert_item(d, leaf))
           /\ insert_item(d, leaf).scanning = d.scanning
<1> DEFINE e == insert_item(d, leaf)
           seen == [ver |-> Lstat(leaf), need |-> FALSE]
<1>1. Shape(d)
  BY DEF Typed
<1>2. /\ Shape(e)
      /\ Others(d, e, {"known_items", "new_items", "up_items", "gone_items", "freed",
                       "item", "notify_active"})
      /\ \/ Ignores(d, e, leaf)
         \/ Adds(d, e, leaf)
         \/ \E i \in Known(d, leaf) : Drops(d, e, i, leaf) \/ Changes(d, e, i, leaf)
  BY <1>1, InsertIs
<1> HIDE DEF e
<1>3. /\ e.users = d.users /\ e.recheck_list = d.recheck_list /\ e.scanning = d.scanning
      /\ e.view = d.view
  BY <1>2 DEF Others, Fields
<1>4. Lstat(leaf) = disk[leaf] /\ (Known(d, leaf) # {} <=> disk[leaf] # Absent)
  BY DEF Lstat, ContentAs
<1>5. CASE Ignores(d, e, leaf)
  <2>1. Content(d)
    <3>1. ASSUME NEW i \in d.known_items PROVE Name(i) # leaf
      BY <1>5 DEF Ignores, Known
    <3>. QED BY <3>1 DEF Content, ContentAs
  <2>. QED BY <1>5, <2>1 DEF Ignores, e
<1>6. CASE Adds(d, e, leaf)
  BY <1>4, <1>6 DEF Adds
<1>7. ASSUME NEW i \in Known(d, leaf), Drops(d, e, i, leaf) \/ Changes(d, e, i, leaf)
      PROVE  Content(e) /\ (Painted(d) => Painted(e))
  <2>1. Changes(d, e, i, leaf)
    BY <1>4, <1>7 DEF Drops
  <2>2. /\ e.known_items = d.known_items /\ e.gone_items = d.gone_items
        /\ e.new_items = d.new_items /\ e.item = [d.item EXCEPT ![i] = seen]
        /\ (e.up_items = d.up_items \cup {i} \/ (e.up_items = d.up_items /\ d.item[i] = seen))
    <3> HIDE DEF seen
    <3>1. /\ e.known_items = d.known_items /\ e.gone_items = d.gone_items
          /\ e.new_items = d.new_items
          /\ (e.up_items = d.up_items \cup {i} \/ (e.up_items = d.up_items /\ d.item[i] = seen))
      BY <2>1, Zenon DEF Changes, seen
    <3>2. e.item = [d.item EXCEPT ![i] = seen]
      BY <2>1 DEF Changes, LooksAt, seen
    <3>. QED BY <3>1, <3>2
  <2>3. i \in d.known_items /\ i \in Items /\ Name(i) = leaf /\ d.known_items \subseteq Items
    BY DEF Known, Typed
  <2>4. e.item[i].ver = disk[leaf] /\ \A j \in Items \ {i} : e.item[j] = d.item[j]
    BY <1>4, <2>2, <2>3 DEF Typed
  <2>5. \A j \in d.known_items : j # i => Name(j) # leaf
    BY <2>3 DEF Apart
  <2>6. Content(e)
    <3>1. ASSUME NEW j \in d.known_items
          PROVE  e.item[j].need \/ Name(j) \in d.recheck_list \/ e.item[j].ver = disk[Name(j)]
      BY <2>3, <2>4, <2>5 DEF ContentAs
    <3>. QED BY <1>3, <2>2, <3>1 DEF Content, ContentAs, Known
  <2>7. ASSUME Painted(d) PROVE Painted(e)
    <3>1. ASSUME NEW u \in d.users, NEW p \in d.view[u]
          PROVE  p[1] \in e.up_items \/ p[2] = e.item[p[1]].ver
      <4>1. p[1] \in d.known_items /\ p[1] \in Items /\ (p[1] \in d.up_items
                                                          \/ p[2] = d.item[p[1]].ver)
        BY <2>3, <2>7 DEF Painted
      <4>2. CASE p[1] # i
        BY <2>2, <2>4, <4>1, <4>2
      <4>3. CASE p[1] = i
        <5>1. CASE e.up_items = d.up_items \cup {i}
          BY <4>3, <5>1
        <5>2. CASE e.up_items = d.up_items /\ d.item[i] = seen
          BY <1>4, <2>4, <4>1, <4>3, <5>2
        <5>. QED BY <2>2, <5>1, <5>2
      <4>. QED BY <4>2, <4>3
    <3>. QED BY <1>3, <2>2, <2>7, <3>1 DEF Painted
  <2>. QED BY <2>6, <2>7
<1>8. Content(e) /\ (Painted(d) => Painted(e))
  <2>1. CASE Ignores(d, e, leaf)
    BY <1>5, <2>1 DEF e
  <2>2. CASE Adds(d, e, leaf)
    BY <1>4, <2>2 DEF Adds
  <2>. QED BY <1>2, <1>7, <2>1, <2>2
<1>. QED BY <1>3, <1>8 DEF e

LEMMA RestTidy ==
    ASSUME NEW d, Tidy(d), NEW e, Shape(e), Others(d, e, Rest), e.missed \in BOOLEAN
    PROVE  Tidy(e)
<1>1. Others(d, e, Rest \cup {"users", "view", "dangling"})
  BY DEF Others
<1>2. e.users = d.users /\ e.view = d.view /\ e.dangling = d.dangling
  BY DEF Others, Fields, Rest
<1>3. Typed(d) /\ Told(d) /\ (CloseWhenMissing => ~d.dangling)
  BY DEF Tidy, Unharmed
<1>4. Drawable(d, e)
  BY <1>2, <1>3 DEF Drawable, Typed, Told
<1>. QED BY <1>1, <1>4, ViewTidy

LEMMA RestCaught ==
    ASSUME NEW d, Caught(d), NEW e, Others(d, e, Rest \ {"scanning"})
    PROVE  Caught(e)
<1>1. /\ e.known_items = d.known_items /\ e.new_items = d.new_items
      /\ e.up_items = d.up_items /\ e.gone_items = d.gone_items /\ e.item = d.item
      /\ e.recheck_list = d.recheck_list /\ e.users = d.users /\ e.view = d.view
      /\ e.scanning = d.scanning
  BY DEF Others, Fields, Rest
<1>2. Content(e)
  BY <1>1, ContentSame DEF Caught
<1>. QED BY <1>1, <1>2 DEF Caught, Painted

LEMMA PendingMergeTidy ==
    ASSUME NEW d, Tidy(d)
    PROVE  Tidy(dir_merge_new(d))
BY MergeTidy DEF Tidy, Examined

LEMMA QueueOf ==
    ASSUME NEW d, Tidy(d), NEW to, to \subseteq d.users
    PROVE  LET e == QueueInteresting(d, to)
               due == {i \in InViews(d, to) : d.item[i].need} IN
           /\ Shape(e) /\ Others(d, e, {"recheck_list", "item", "dangling"})
           /\ due \subseteq d.known_items
           /\ e.recheck_list = d.recheck_list \cup {Name(i) : i \in due}
           /\ e.item \in [Items -> Seen]
           /\ \A i \in Items : /\ e.item[i].ver = d.item[i].ver
                               /\ e.item[i].need = (d.item[i].need /\ i \notin due)
           /\ e.dangling = Uses(d, InViews(d, to))
<1> DEFINE e == QueueInteresting(d, to)
           due == {i \in InViews(d, to) : d.item[i].need}
<1>0. Typed(d) /\ Marked(d) /\ Shape(d)
  BY DEF Tidy, Typed
<1>1. /\ Shape(e) /\ Others(d, e, {"recheck_list", "item", "dangling"})
      /\ e.recheck_list = d.recheck_list \cup {Name(i) : i \in due}
      /\ e.item = [i \in Items |-> IF i \in due THEN [d.item[i] EXCEPT !.need = FALSE]
                                     ELSE d.item[i]]
      /\ e.dangling = Uses(d, InViews(d, to))
  BY <1>0, QueueIs
<1>2. due \subseteq d.known_items
  BY <1>0 DEF InViews, Marked
<1> HIDE DEF e, due
<1>3. ASSUME NEW i \in Items
      PROVE  /\ e.item[i] \in Seen
             /\ e.item[i].ver = d.item[i].ver
             /\ e.item[i].need = (d.item[i].need /\ i \notin due)
  <2>1. d.item[i] \in Seen
    BY <1>0 DEF Typed
  <2>2. CASE i \in due
    <3>1. e.item[i] = [d.item[i] EXCEPT !.need = FALSE]
      BY <1>1, <2>2
    <3>. QED BY <2>1, <2>2, <3>1 DEF Seen
  <2>3. CASE i \notin due
    <3>1. e.item[i] = d.item[i]
      BY <1>1, <2>3
    <3>. QED BY <2>1, <2>3, <3>1 DEF Seen
  <2>. QED BY <2>2, <2>3
<1>4. e.item \in [Items -> Seen]
  BY <1>1, <1>3
<1>. QED BY <1>1, <1>2, <1>3, <1>4 DEF e, due

LEMMA QueueTidy ==
    ASSUME NEW d, Tidy(d), NEW to, to \subseteq d.users
    PROVE  Tidy(QueueInteresting(d, to))
<1> DEFINE e == QueueInteresting(d, to)
           due == {i \in InViews(d, to) : d.item[i].need}
<1>0. /\ Typed(d) /\ Roomy(d) /\ Apart(d) /\ Told(d) /\ Marked(d) /\ Examined(d)
      /\ CloseWhenMissing => Unharmed(d)
  BY DEF Tidy
<1>1. /\ Shape(e) /\ Others(d, e, {"recheck_list", "item", "dangling"})
      /\ due \subseteq d.known_items
      /\ e.recheck_list = d.recheck_list \cup {Name(i) : i \in due}
      /\ e.item \in [Items -> Seen]
      /\ \A i \in Items : /\ e.item[i].ver = d.item[i].ver
                          /\ e.item[i].need = (d.item[i].need /\ i \notin due)
      /\ e.dangling = Uses(d, InViews(d, to))
  BY QueueOf
<1>2. \A i \in due : d.item[i].need
  OBVIOUS
<1> HIDE DEF e, due
<1>3. /\ e.known_items = d.known_items /\ e.new_items = d.new_items
      /\ e.up_items = d.up_items /\ e.gone_items = d.gone_items
      /\ e.users = d.users /\ e.view = d.view /\ e.freed = d.freed /\ e.missed = d.missed
  BY <1>1 DEF Others, Fields
<1>4. d.known_items \subseteq Items /\ Range(d.new_items) \subseteq Items
      /\ d.view \in [Users -> SUBSET (Items \X Vers)] /\ d.users \subseteq Users
  BY <1>0 DEF Typed, Range
<1>5. Typed(e)
  <2>1. \A i \in d.known_items : Name(i) \in Names
    BY <1>4 DEF Items, Name
  <2>2. e.recheck_list \subseteq Names
    BY <1>0, <1>1, <2>1 DEF Typed
  <2>3. e.dangling \in BOOLEAN
    BY <1>0, <1>1 DEF Uses, Typed
  <2>. QED BY <1>0, <1>1, <1>3, <2>2, <2>3 DEF Typed
<1>6. Apart(e) /\ Told(e)
  BY <1>0, <1>3 DEF Apart, Told
<1>7. Marked(e)
  <2>1. ASSUME NEW u \in d.users, NEW p \in d.view[u], e.item[p[1]].need
        PROVE  p[1] \in d.known_items
    <3>1. p[1] \in Items
      BY <1>4
    <3>2. d.item[p[1]].need
      BY <1>1, <2>1, <3>1
    <3>. QED BY <1>0, <3>2 DEF Marked
  <2>. QED BY <1>3, <2>1 DEF Marked
<1>8. Examined(e)
  BY <1>0, <1>1, <1>3, <1>4 DEF Examined
<1>9. Roomy(e)
  <2>1. Listed(e) = Listed(d) /\ Referenced(e) = Referenced(d)
    BY <1>3 DEF Listed, Referenced, InViews
  <2>2. \A n : /\ Known(e, n) = Known(d, n) /\ Spare(e, n) = Spare(d, n)
               /\ Unlisted(e, n) = Unlisted(d, n)
    BY <1>3, <2>1 DEF Known, Spare, Unlisted
  <2>3. ASSUME NEW n \in e.recheck_list
        PROVE  n \in d.recheck_list \/ (Known(d, n) # {} /\ Unlisted(d, n) # {})
    BY <1>0, <1>1, <1>2 DEF Known, Roomy
  <2>4. \A i \in d.known_items : e.item[i].need => d.item[i].need
    BY <1>1, <1>4
  <2>5. ASSUME NEW n \in e.recheck_list
        PROVE  (Known(e, n) = {} => Spare(e, n) # {}) /\ Unlisted(e, n) # {}
    BY <1>0, <2>2, <2>3 DEF Roomy
  <2>6. \A i \in e.known_items : e.item[i].need => Unlisted(e, Name(i)) # {}
    BY <1>0, <1>3, <2>2, <2>4 DEF Roomy
  <2>. QED BY <2>5, <2>6 DEF Roomy
<1>10. CloseWhenMissing => Unharmed(e)
  BY <1>0, <1>1, <1>3 DEF Unharmed, Uses
<1>11. Tidy(e)
  BY <1>5, <1>6, <1>7, <1>8, <1>9, <1>10 DEF Tidy
<1>. QED BY <1>11 DEF e

LEMMA QueueCaught ==
    ASSUME NEW d, Tidy(d), Caught(d), NEW to, to \subseteq d.users
    PROVE  Caught(QueueInteresting(d, to))
<1> DEFINE e == QueueInteresting(d, to)
           due == {i \in InViews(d, to) : d.item[i].need}
<1>1. /\ Shape(e) /\ Others(d, e, {"recheck_list", "item", "dangling"})
      /\ due \subseteq d.known_items
      /\ e.recheck_list = d.recheck_list \cup {Name(i) : i \in due}
      /\ \A i \in Items : /\ e.item[i].ver = d.item[i].ver
                          /\ e.item[i].need = (d.item[i].need /\ i \notin due)
  BY QueueOf
<1> HIDE DEF e, due
<1>2. /\ e.known_items = d.known_items /\ e.new_items = d.new_items
      /\ e.up_items = d.up_items /\ e.gone_items = d.gone_items
      /\ e.users = d.users /\ e.view = d.view /\ e.scanning = d.scanning
  BY <1>1 DEF Others, Fields
<1>3. d.known_items \subseteq Items
  BY DEF Tidy, Typed
<1>4. Content(e)
  <2>1. ASSUME NEW i \in d.known_items
        PROVE  e.item[i].need \/ Name(i) \in e.recheck_list \/ e.item[i].ver = disk[Name(i)]
    BY <1>1, <1>3 DEF Caught, Content, ContentAs
  <2>. QED BY <1>2, <2>1 DEF Caught, Content, ContentAs, Known
<1>5. Painted(d) => Painted(e)
  BY <1>1, <1>2, <1>3 DEF Painted
<1>. QED BY <1>2, <1>4, <1>5 DEF Caught, e

LEMMA RecheckOneTidy ==
    ASSUME NEW d, Tidy(d), disk \in [Names -> Vers], d.recheck_list # {}
    PROVE  /\ Tidy(RecheckOne(d))
           /\ path = "ok" /\ Caught(d) => Caught(RecheckOne(d))
           /\ RecheckOne(d).users = d.users /\ RecheckOne(d).missed = d.missed
           /\ RecheckOne(d).needs_update = d.needs_update
<1> DEFINE leaf == CHOOSE n \in d.recheck_list : TRUE
           popped == [d EXCEPT !.recheck_list = @ \ {leaf}]
           looked == insert_item(popped, leaf)
           told == dir_merge_new(looked)
           off == dir_set_scanning(told, FALSE)
           done == [off EXCEPT !.idle_callback = FALSE]
<1>0. /\ Typed(d) /\ Roomy(d) /\ Apart(d) /\ Told(d) /\ Marked(d) /\ Examined(d)
      /\ CloseWhenMissing => Unharmed(d)
  BY DEF Tidy
<1>1. leaf \in d.recheck_list /\ leaf \in Names
  BY <1>0 DEF Typed
<1>2. RecheckOne(d) = IF looked.recheck_list # {} THEN looked ELSE done
  BY DEF RecheckOne
<1> HIDE DEF leaf
<1>3. /\ Shape(popped) /\ Others(d, popped, {"recheck_list"})
      /\ popped.recheck_list = d.recheck_list \ {leaf}
  BY <1>0 DEF Typed, Shape, Fields, Others
<1> HIDE DEF popped
<1>4. /\ popped.known_items = d.known_items /\ popped.new_items = d.new_items
      /\ popped.up_items = d.up_items /\ popped.gone_items = d.gone_items
      /\ popped.users = d.users /\ popped.view = d.view /\ popped.freed = d.freed
      /\ popped.missed = d.missed /\ popped.item = d.item /\ popped.scanning = d.scanning
      /\ popped.dangling = d.dangling /\ popped.needs_update = d.needs_update
  BY <1>3 DEF Others, Fields
<1>5. Tidy(popped)
  <2>1. Typed(popped)
    BY <1>0, <1>3, <1>4 DEF Typed
  <2>2. Apart(popped) /\ Told(popped) /\ Marked(popped) /\ Examined(popped)
        /\ (CloseWhenMissing => Unharmed(popped))
    BY <1>0, <1>4 DEF Apart, Told, Marked, Examined, Unharmed
  <2>3. Listed(popped) = Listed(d) /\ Referenced(popped) = Referenced(d)
    BY <1>4 DEF Listed, Referenced, InViews
  <2>4. Roomy(popped)
    BY <1>0, <1>3, <1>4, <2>3, RoomyKept
  <2>. QED BY <2>1, <2>2, <2>4 DEF Tidy
<1>6. Tidy(looked)
  <2>1. Known(popped, leaf) = Known(d, leaf) /\ Spare(popped, leaf) = Spare(d, leaf)
    BY <1>4 DEF Known, Spare, Referenced, InViews
  <2>2. Known(popped, leaf) = {} => Spare(popped, leaf) # {}
    BY <1>0, <1>1, <2>1 DEF Roomy
  <2>3. leaf \notin popped.recheck_list
    BY <1>3
  <2>. QED BY <1>1, <1>5, <2>2, <2>3, InsertTidy
<1>7. looked.users = d.users /\ looked.missed = d.missed /\ looked.needs_update = d.needs_update
  <2>1. Others(popped, looked, {"known_items", "new_items", "up_items", "gone_items", "freed",
                                "item", "notify_active"})
    BY <1>3, InsertIs
  <2> HIDE DEF looked
  <2>. QED BY <1>4, <2>1 DEF Others, Fields
<1>8. ASSUME path = "ok", Caught(d)
      PROVE  Content(looked) /\ (looked.scanning \/ Painted(looked))
  <2>1. ContentAs(popped, popped.recheck_list \cup {leaf})
    <3>1. popped.recheck_list \cup {leaf} = d.recheck_list
      BY <1>1, <1>3
    <3>2. ContentAs(d, d.recheck_list)
      BY <1>8 DEF Caught, Content
    <3>. QED BY <1>4, <3>1, <3>2 DEF ContentAs, Known
  <2>2. Typed(popped) /\ Apart(popped)
    BY <1>5 DEF Tidy
  <2>3. /\ Content(looked) /\ (Painted(popped) => Painted(looked))
        /\ looked.scanning = popped.scanning
    BY <1>1, <1>8, <2>1, <2>2, InsertCaught
  <2>4. popped.scanning \/ Painted(popped)
    BY <1>4, <1>8 DEF Caught, Painted
  <2>. QED BY <2>3, <2>4
<1> HIDE DEF looked
<1>9. Tidy(told)
  BY <1>6, PendingMergeTidy
<1>10. /\ Others(looked, told, {"known_items", "new_items", "up_items", "gone_items", "view",
                                "dangling", "freed", "item"})
       /\ path = "ok" /\ Caught(d) => Caught(told)
  <2>1. Typed(looked)
    BY <1>6 DEF Tidy
  <2>2. Content(looked) => /\ Content(told) /\ (Painted(looked) => Painted(told))
                           /\ told.scanning = looked.scanning
    BY <2>1, MergeCaught
  <2>. QED BY <1>8, <2>1, <2>2, MergeIs DEF Caught
<1> HIDE DEF told
<1>11. /\ Tidy(off) /\ Others(told, off, {"scanning", "busy", "view"}) /\ Shape(off)
       /\ path = "ok" /\ Caught(d) => Caught(off)
  <2>1. Typed(told)
    BY <1>9 DEF Tidy
  <2>. QED BY <1>9, <1>10, <2>1, SetScanningTidy, SetScanningCaught, SetScanningIs
<1> HIDE DEF off
<1>12. Shape(done) /\ Others(off, done, {"idle_callback"})
  BY <1>11 DEF Shape, Fields, Others
<1> HIDE DEF done
<1>13. /\ done.missed = off.missed /\ off.missed = told.missed /\ told.missed = looked.missed
       /\ done.users = off.users /\ off.users = told.users /\ told.users = looked.users
       /\ done.needs_update = off.needs_update /\ off.needs_update = told.needs_update
       /\ told.needs_update = looked.needs_update
  BY <1>10, <1>11, <1>12 DEF Others, Fields
<1>14. Tidy(done) /\ (path = "ok" /\ Caught(d) => Caught(done))
  <2>1. Others(off, done, Rest) /\ Others(off, done, Rest \ {"scanning"})
    BY <1>12 DEF Others, Rest
  <2>2. done.missed \in BOOLEAN
    BY <1>11, <1>13 DEF Tidy, Typed
  <2>. QED BY <1>11, <1>12, <2>1, <2>2, RestTidy, RestCaught
<1>15. path = "ok" /\ Caught(d) => Caught(looked)
  BY <1>8 DEF Caught
<1>. QED BY <1>2, <1>6, <1>7, <1>13, <1>14, <1>15

LEMMA MergeTidyCaught ==
    ASSUME NEW d, Tidy(d)
    PROVE  /\ Tidy(dir_merge_new(d)) /\ ~Pending(dir_merge_new(d))
           /\ Caught(d) => Caught(dir_merge_new(d))
           /\ Others(d, dir_merge_new(d), {"known_items", "new_items", "up_items",
                                    "gone_items", "view", "dangling", "freed", "item"})
<1>1. Typed(d)
  BY DEF Tidy
<1>2. Caught(d) => Caught(dir_merge_new(d))
  BY <1>1, MergeCaught DEF Caught
<1>. QED BY <1>1, <1>2, PendingMergeTidy, MergeIs DEF Pending

LEMMA SetScanningTidyCaught ==
    ASSUME NEW d, Tidy(d), NEW b \in BOOLEAN
    PROVE  /\ Tidy(dir_set_scanning(d, b)) /\ dir_set_scanning(d, b).scanning = b
           /\ Caught(d) => Caught(dir_set_scanning(d, b))
           /\ Others(d, dir_set_scanning(d, b), {"scanning", "busy", "view"})
<1>1. Typed(d)
  BY DEF Tidy
<1>. QED BY <1>1, SetScanningTidy, SetScanningCaught, SetScanningIs

LEMMA SetIdleTidy ==
    ASSUME NEW d, Tidy(d), disk \in [Names -> Vers]
    PROVE  LET e == set_idle_callback(d) IN
           /\ Tidy(e) /\ (path = "ok" /\ Caught(d) => Caught(e))
           /\ e.users = d.users /\ e.missed = d.missed /\ e.needs_update = d.needs_update
<1>1. CASE d.recheck_list # {} /\ d.users # {}
  <2> DEFINE s == dir_set_scanning(d, TRUE)
             armed == [s EXCEPT !.idle_callback = TRUE]
             e == RecheckOne(armed)
  <2>1. set_idle_callback(d) = IF s.idle_callback THEN s ELSE e
    BY <1>1 DEF set_idle_callback
  <2>2. /\ Tidy(s) /\ (Caught(d) => Caught(s)) /\ Others(d, s, {"scanning", "busy", "view"})
    BY SetScanningTidyCaught
  <2> HIDE DEF s
  <2>3. s.users = d.users /\ s.missed = d.missed /\ s.needs_update = d.needs_update
        /\ s.recheck_list = d.recheck_list
    BY <2>2 DEF Others, Fields
  <2>4. Shape(armed) /\ Others(s, armed, {"idle_callback"})
    BY <2>2 DEF Tidy, Typed, Shape, Fields, Others
  <2> HIDE DEF armed
  <2>5. /\ armed.users = s.users /\ armed.missed = s.missed
        /\ armed.needs_update = s.needs_update /\ armed.recheck_list = s.recheck_list
    BY <2>4 DEF Others, Fields
  <2>6. Tidy(armed) /\ (Caught(s) => Caught(armed))
    <3>1. Others(s, armed, Rest) /\ Others(s, armed, Rest \ {"scanning"})
      BY <2>4 DEF Others, Rest
    <3>2. armed.missed \in BOOLEAN
      BY <2>2, <2>5 DEF Tidy, Typed
    <3>. QED BY <2>2, <2>4, <3>1, <3>2, RestTidy, RestCaught
  <2>7. /\ Tidy(e) /\ (path = "ok" /\ Caught(armed) => Caught(e))
        /\ e.users = armed.users /\ e.missed = armed.missed
        /\ e.needs_update = armed.needs_update
    BY <1>1, <2>3, <2>5, <2>6, RecheckOneTidy
  <2> HIDE DEF e
  <2>. QED BY <2>1, <2>2, <2>3, <2>5, <2>6, <2>7
<1>2. CASE ~(d.recheck_list # {} /\ d.users # {})
  <2> DEFINE s == dir_set_scanning(d, FALSE)
             e == [s EXCEPT !.idle_callback = FALSE]
  <2>1. set_idle_callback(d) = e
    BY <1>2 DEF set_idle_callback
  <2>2. /\ Tidy(s) /\ (Caught(d) => Caught(s)) /\ Others(d, s, {"scanning", "busy", "view"})
    BY SetScanningTidyCaught
  <2> HIDE DEF s
  <2>3. s.users = d.users /\ s.missed = d.missed /\ s.needs_update = d.needs_update
    BY <2>2 DEF Others, Fields
  <2>4. Shape(e) /\ Others(s, e, {"idle_callback"})
    BY <2>2 DEF Tidy, Typed, Shape, Fields, Others
  <2> HIDE DEF e
  <2>5. e.users = s.users /\ e.missed = s.missed /\ e.needs_update = s.needs_update
    BY <2>4 DEF Others, Fields
  <2>6. Tidy(e) /\ (Caught(s) => Caught(e))
    <3>1. Others(s, e, Rest) /\ Others(s, e, Rest \ {"scanning"})
      BY <2>4 DEF Others, Rest
    <3>2. e.missed \in BOOLEAN
      BY <2>2, <2>5 DEF Tidy, Typed
    <3>. QED BY <2>2, <2>4, <3>1, <3>2, RestTidy, RestCaught
  <2>. QED BY <2>1, <2>2, <2>3, <2>5, <2>6
<1>. QED BY <1>1, <1>2

\* The order in which the new items are listed.
LEMMA Enumerated ==
    ASSUME NEW S, IsFiniteSet(S)
    PROVE  LET s == CHOOSE s \in [1..Cardinality(S) -> S] : Range(s) = S
           IN  s \in Seq(S) /\ Range(s) = S
<1> DEFINE n == Cardinality(S)
           s == CHOOSE t \in [1..n -> S] : Range(t) = S
<1>1. n \in Nat /\ ExistsBijection(1..n, S)
  BY FS_CardinalityType
<1>2. \E t \in [1..n -> S] : Range(t) = S
  <2>1. PICK t \in Bijection(1..n, S) : TRUE
    BY <1>1 DEF ExistsBijection
  <2>2. t \in [1..n -> S] /\ \A y \in S : \E x \in 1..n : t[x] = y
    BY <2>1 DEF Bijection, Surjection, Injection
  <2>3. Range(t) = S
    BY <2>2 DEF Range
  <2>. QED BY <2>2, <2>3
<1>3. s \in [1..n -> S] /\ Range(s) = S
  BY <1>2
<1> HIDE DEF n, s
<1>4. s \in Seq(S)
  BY <1>1, <1>3
<1>. QED BY <1>3, <1>4 DEF n, s

\* The names that are read and not known, and the items allocated for them.
Missing(d, names) == {m \in names : Known(d, m) = {}}
Found(d, names) == {NewItem(d, n) : n \in Missing(d, names)}

LEMMA FoundIs ==
    ASSUME NEW kept, Tidy(kept), ~Pending(kept), NEW names \in SUBSET Names
    PROVE  LET missing == Missing(kept, names)
               add == Found(kept, names) IN
           /\ IsFiniteSet(add) /\ add \subseteq Items
           /\ add \cap Referenced(kept) = {}
           /\ \A i \in add : Name(i) \in missing
           /\ \A n \in missing : \E i \in add : Name(i) = n
           /\ \A i, j \in add : Name(i) = Name(j) => i = j
<1> DEFINE missing == {m \in names : Known(kept, m) = {}}
           add == {NewItem(kept, n) : n \in missing}
<1>1. Typed(kept) /\ Told(kept) /\ kept.new_items = <<>> /\ kept.up_items = {}
      /\ kept.gone_items = {}
  BY DEF Tidy, Pending
<1>2. ASSUME NEW n \in missing
      PROVE  /\ NewItem(kept, n) \in Items /\ Name(NewItem(kept, n)) = n
             /\ NewItem(kept, n) \notin Referenced(kept)
  <2>1. ASSUME NEW k \in 1..Copies PROVE <<n, k>> \notin Referenced(kept)
    <3>1. <<n, k>> \notin kept.known_items
      BY DEF Known, Name
    <3>2. ASSUME NEW u \in Users, NEW p \in kept.view[u], p[1] = <<n, k>> PROVE FALSE
      <4>1. u \in kept.users
        BY <1>1, <3>2 DEF Told
      <4>2. PICK i \in kept.known_items : Name(i) = Name(p[1])
        BY <1>1, <3>2, <4>1 DEF Told
      <4>3. Name(i) = n
        BY <3>2, <4>2 DEF Name
      <4>. QED BY <4>2, <4>3 DEF Known
    <3>. QED BY <1>1, <3>1, <3>2 DEF Referenced, InViews, Range
  <2>2. 1 \in Spare(kept, n)
    BY <2>1, DirectoryAssumption DEF Spare
  <2>3. PICK c \in Spare(kept, n) : NewItem(kept, n) = <<n, c>>
    BY <2>2, NewItemIs
  <2>4. c \in 1..Copies /\ <<n, c>> \notin Referenced(kept)
    BY <2>3 DEF Spare
  <2>. QED BY <2>3, <2>4 DEF Items, Name
<1>3. IsFiniteSet(add)
  <2> DEFINE f == [n \in missing |-> NewItem(kept, n)]
  <2>1. IsFiniteSet(missing)
    <3>1. missing \in SUBSET Names
      OBVIOUS
    <3> HIDE DEF missing
    <3>. QED BY <3>1, FS_Subset, DirectoryAssumption
  <2>2. f \in Surjection(missing, add)
    <3>1. f \in [missing -> add]
      OBVIOUS
    <3>2. \A i \in add : \E n \in missing : f[n] = i
      OBVIOUS
    <3>. QED BY <3>1, <3>2 DEF Surjection
  <2> HIDE DEF missing, add, f
  <2>. QED BY <2>1, <2>2, FS_Surjection
<1>4. ASSUME NEW i \in add
      PROVE  \E n \in missing : i = NewItem(kept, n)
  OBVIOUS
<1>5. \A n \in missing : NewItem(kept, n) \in add
  OBVIOUS
<1> HIDE DEF missing, add
<1>6. ASSUME NEW i \in add
      PROVE  i \in Items /\ i \notin Referenced(kept) /\ Name(i) \in missing
             /\ i = NewItem(kept, Name(i))
  BY <1>2, <1>4
<1>. QED BY <1>2, <1>3, <1>5, <1>6 DEF add, missing, Missing, Found

LEMMA ScanNamesTidy ==
    ASSUME NEW d, Tidy(d), ~Pending(d), d.scanning, disk \in [Names -> Vers], NEW names,
           names = {n \in Names : disk[n] # Absent}
    PROVE  LET e == ScanNames(d, names) IN
           /\ Tidy(e) /\ (path = "ok" => Caught(e))
           /\ e.users = d.users /\ e.needs_update = d.needs_update
<1> DEFINE deleted == {i \in d.known_items : Name(i) \notin names}
           kept == remove_missing(d, names)
           old == kept.known_items
           missing == Missing(kept, names)
           add == Found(kept, names)
           new == CHOOSE s \in [1..Cardinality(add) -> add] : Range(s) = add
           items == [i \in Items |->
                IF i \in add THEN [Blank EXCEPT !.need = TRUE]
                ELSE IF i \in old THEN [kept.item[i] EXCEPT !.need = TRUE]
                ELSE kept.item[i]]
           flagged == [kept EXCEPT !.recheck_list = {}, !.new_items = new,
                           !.freed = @ \ add, !.item = items, !.missed = FALSE]
           merged == dir_merge_new(flagged)
           queued == QueueInteresting(merged, merged.users)
           idle == set_idle_callback(queued)
           e == dir_merge_new(idle)
<1>1. ScanNames(d, names) = e
  BY DEF ScanNames, Found, Missing
<1>2. /\ Tidy(kept)
      /\ Others(d, kept, {"known_items", "view", "dangling", "freed", "item"})
      /\ kept.known_items = d.known_items \ deleted
  <2>1. Typed(d)
    BY DEF Tidy
  <2>2. Tidy(kept)
    BY RemoveMissingTidy
  <2>3. /\ Shape(kept)
        /\ Others(d, kept, {"known_items", "view", "dangling", "freed", "item"})
        /\ kept.known_items = d.known_items \ deleted
        /\ kept.view = [u \in Users |-> IF u \in d.users
                          THEN {p \in d.view[u] : \A i \in deleted : Name(i) # Name(p[1])}
                          ELSE d.view[u]]
        /\ kept.item = [i \in Items |-> IF i \in deleted THEN Blank ELSE d.item[i]]
        /\ kept.freed = d.freed \cup (deleted \cap Referenced(kept))
        /\ kept.dangling \in BOOLEAN
        /\ Unharmed(d) => ~kept.dangling
    BY <2>1, RemoveMissingIs
  <2>. QED BY <2>2, <2>3
<1> HIDE DEF kept
<1>3. /\ Shape(kept) /\ Typed(kept) /\ Roomy(kept) /\ Apart(kept) /\ Told(kept)
      /\ Marked(kept) /\ (CloseWhenMissing => Unharmed(kept))
  BY <1>2 DEF Tidy, Typed
<1>4. /\ kept.users = d.users /\ kept.scanning = d.scanning
      /\ kept.needs_update = d.needs_update
      /\ kept.new_items = <<>> /\ kept.up_items = {} /\ kept.gone_items = {}
      /\ ~Pending(kept)
  BY <1>2 DEF Others, Fields, Pending
<1>5. names \in SUBSET Names /\ \A i \in old : Name(i) \in names
  BY <1>2
<1>6. /\ IsFiniteSet(add) /\ add \subseteq Items
      /\ add \cap Referenced(kept) = {}
      /\ \A i \in add : Name(i) \in missing
      /\ \A n \in missing : \E i \in add : Name(i) = n
      /\ \A i, j \in add : Name(i) = Name(j) => i = j
  <2>1. Tidy(kept) /\ ~Pending(kept)
    BY <1>2, <1>4
  <2>2. names \in SUBSET Names
    BY <1>5
  <2> HIDE DEF missing, add
  <2>3. /\ IsFiniteSet(Found(kept, names)) /\ Found(kept, names) \subseteq Items
        /\ Found(kept, names) \cap Referenced(kept) = {}
        /\ \A i \in Found(kept, names) : Name(i) \in Missing(kept, names)
        /\ \A n \in Missing(kept, names) : \E i \in Found(kept, names) : Name(i) = n
        /\ \A i, j \in Found(kept, names) : Name(i) = Name(j) => i = j
    BY ONLY <2>1, <2>2, FoundIs
  <2>. QED BY <2>3 DEF missing, add
<1> HIDE DEF add
<1>7. new \in Seq(add) /\ Range(new) = add
  BY <1>6, Enumerated
<1> HIDE DEF new
<1>8. /\ Shape(flagged)
      /\ Others(kept, flagged, {"recheck_list", "new_items", "freed", "item", "missed"})
      /\ flagged.recheck_list = {} /\ flagged.new_items = new
      /\ flagged.freed = kept.freed \ add /\ flagged.item = items
      /\ flagged.missed = FALSE
  <2> HIDE DEF items
  <2>. QED BY <1>3 DEF Shape, Fields, Others
<1> HIDE DEF flagged
<1>9. /\ flagged.known_items = old /\ flagged.up_items = {} /\ flagged.gone_items = {}
      /\ flagged.users = d.users /\ flagged.view = kept.view
      /\ flagged.scanning = d.scanning /\ flagged.dangling = kept.dangling
      /\ flagged.needs_update = d.needs_update
  <2>1. /\ flagged.known_items = kept.known_items /\ flagged.up_items = kept.up_items
        /\ flagged.gone_items = kept.gone_items /\ flagged.users = kept.users
        /\ flagged.view = kept.view /\ flagged.scanning = kept.scanning
        /\ flagged.dangling = kept.dangling /\ flagged.needs_update = kept.needs_update
    BY ONLY <1>8 DEF Others, Fields
  <2>. QED BY <1>4, <2>1
<1>10. old \subseteq Items /\ kept.view \in [Users -> SUBSET (Items \X Vers)]
       /\ d.users \subseteq Users
  BY <1>3, <1>4 DEF Typed
<1>11. /\ items \in [Items -> Seen]
       /\ \A i \in Items : /\ i \in add \cup old => items[i].need
                           /\ i \notin add \cup old => items[i] = kept.item[i]
  <2>1. ASSUME NEW i \in Items
        PROVE  /\ items[i] \in Seen
               /\ i \in add \cup old => items[i].need
               /\ i \notin add \cup old => items[i] = kept.item[i]
    <3>1. kept.item[i] \in Seen
      BY <1>3 DEF Typed
    <3>2. CASE i \in add
      <4>1. items[i] = [Blank EXCEPT !.need = TRUE]
        BY <3>2
      <4>. QED BY <3>2, <4>1 DEF Blank, Vers, Seen
    <3>3. CASE i \notin add /\ i \in old
      <4>1. items[i] = [kept.item[i] EXCEPT !.need = TRUE]
        BY <3>3
      <4>. QED BY <3>1, <3>3, <4>1 DEF Seen
    <3>4. CASE i \notin add /\ i \notin old
      BY <3>1, <3>4
    <3>. QED BY <3>2, <3>3, <3>4
  <2> DEFINE it == items
  <2>2. it = [i \in Items |-> it[i]]
    OBVIOUS
  <2> HIDE DEF items
  <2>. QED BY <2>1, <2>2
<1> HIDE DEF items
<1>12. Typed(flagged)
  <2>1. new \in Seq(Items)
    BY <1>6, <1>7
  <2>2. flagged.freed \subseteq Items
    BY <1>3, <1>8 DEF Typed
  <2>. QED BY <1>3, <1>4, <1>8, <1>9, <1>10, <1>11, <2>1, <2>2 DEF Typed
<1>13. Apart(flagged)
  <2>1. \A i \in old : Name(i) \notin missing
    BY DEF Known, Missing
  <2>. QED BY <1>3, <1>6, <1>7, <1>8, <1>9, <2>1 DEF Apart
<1>14. Told(flagged)
  BY <1>3, <1>4, <1>9 DEF Told
<1>15. Marked(flagged)
  <2> SUFFICES ASSUME NEW u \in d.users, NEW p \in kept.view[u], items[p[1]].need
               PROVE  p[1] \in old
    BY <1>8, <1>9 DEF Marked
  <2>1. p[1] \in Items /\ u \in Users
    BY <1>10
  <2>2. p[1] \notin add
    BY <1>6, <2>1 DEF Referenced, InViews
  <2>. QED BY <1>3, <1>4, <1>11, <2>1, <2>2 DEF Marked
<1>16. ASSUME NEW i \in add PROVE i \in LastOfEachName(new)
  <2>1. PICK j \in LastOfEachName(new) : Name(j) = Name(i)
    BY <1>7, LastIs
  <2>2. j \in add
    BY <1>7, LastIs
  <2>. QED BY <1>6, <2>1, <2>2
<1>17. CloseWhenMissing => Unharmed(flagged)
  BY <1>3, <1>8, <1>9 DEF Unharmed
<1>18. Tidy(merged)
  BY <1>7, <1>8, <1>12, <1>13, <1>14, <1>15, <1>16, <1>17, MergeTidy
<1>19. /\ Others(flagged, merged, {"known_items", "new_items", "up_items", "gone_items",
                                   "view", "dangling", "freed", "item"})
       /\ merged.known_items = {i \in old : \A j \in add : Name(j) # Name(i)}
                                  \cup LastOfEachName(new)
       /\ merged.new_items = <<>> /\ merged.gone_items = {}
       /\ merged.item = [i \in Items |-> IF i \in {} THEN Blank ELSE items[i]]
  <2>1. /\ Others(flagged, merged, {"known_items", "new_items", "up_items", "gone_items",
                                    "view", "dangling", "freed", "item"})
        /\ merged.known_items = {i \in flagged.known_items :
                                      \A j \in Range(flagged.new_items) : Name(j) # Name(i)}
                                   \cup LastOfEachName(flagged.new_items)
        /\ merged.new_items = <<>> /\ merged.gone_items = {}
        /\ merged.item = [i \in Items |-> IF i \in flagged.gone_items THEN Blank
                                             ELSE flagged.item[i]]
    BY <1>12, MergeIs
  <2> HIDE DEF merged
  <2>. QED BY <1>7, <1>8, <1>9, <2>1
<1> HIDE DEF merged
<1>20. merged.users = d.users /\ merged.scanning = d.scanning
       /\ merged.needs_update = d.needs_update
  BY <1>9, <1>19 DEF Others, Fields
<1>21. Caught(merged)
  <2>1. merged.known_items = old \cup add
    <3>1. LastOfEachName(new) = add
      BY <1>7, <1>16, LastIs
    <3>2. \A i \in old : \A j \in add : Name(j) # Name(i)
      BY <1>7, <1>8, <1>9, <1>13 DEF Apart
    <3>. QED BY <1>19, <3>1, <3>2
  <2>2. ASSUME NEW n \in Names PROVE Known(merged, n) # {} <=> disk[n] # Absent
    <3>1. ASSUME NEW i \in old \cup add, Name(i) = n PROVE disk[n] # Absent
      BY <1>5, <1>6, <3>1 DEF Missing
    <3>2. ASSUME disk[n] # Absent PROVE \E i \in old \cup add : Name(i) = n
      <4>1. n \in names
        BY <3>2
      <4>2. CASE Known(kept, n) = {}
        BY <1>6, <4>1, <4>2 DEF Missing
      <4>3. CASE Known(kept, n) # {}
        BY <4>3 DEF Known
      <4>. QED BY <4>2, <4>3
    <3>. QED BY <2>1, <3>1, <3>2 DEF Known
  <2>3. ASSUME NEW i \in old \cup add PROVE merged.item[i].need
    BY <1>6, <1>10, <1>11, <1>19
  <2>. QED BY <1>19, <1>20, <2>1, <2>2, <2>3 DEF Caught, Content, ContentAs
<1>22. /\ Tidy(queued) /\ Caught(queued)
       /\ Others(merged, queued, {"recheck_list", "item", "dangling"})
  BY <1>18, <1>21, QueueTidy, QueueCaught, QueueOf
<1> HIDE DEF queued
<1>23. /\ Tidy(idle) /\ (path = "ok" => Caught(idle))
       /\ idle.users = queued.users /\ idle.needs_update = queued.needs_update
  BY <1>22, SetIdleTidy
<1> HIDE DEF idle
<1>24. /\ Tidy(e) /\ (path = "ok" => Caught(e))
       /\ Others(idle, e, {"known_items", "new_items", "up_items", "gone_items", "view",
                           "dangling", "freed", "item"})
  BY <1>23, MergeTidyCaught
<1> HIDE DEF e
<1>25. /\ queued.users = merged.users /\ queued.needs_update = merged.needs_update
       /\ e.users = idle.users /\ e.needs_update = idle.needs_update
  BY <1>22, <1>24 DEF Others, Fields
<1>. QED BY <1>1, <1>20, <1>23, <1>24, <1>25

LEMMA RescanTidy ==
    ASSUME NEW d, Tidy(d), disk \in [Names -> Vers], path \in {"ok", "noaccess", "missing"}
    PROVE  LET e == dir_rescan(d) IN
           /\ Tidy(e) /\ (path = "ok" => Caught(e)) /\ e.users = d.users
<1> DEFINE begun == [d EXCEPT !.needs_update = FALSE, !.error = FALSE]
           names == {n \in Names : disk[n] # Absent}
           failed == [begun EXCEPT !.error = TRUE]
           shut == [begun EXCEPT !.closing = TRUE]
           on == dir_set_scanning(begun, TRUE)
           merged == dir_merge_new(on)
           e == ScanNames(merged, names)
<1>1. dir_rescan(d) =
        CASE path = "missing" /\ CloseWhenMissing -> shut
          [] path = "missing" /\ ~CloseWhenMissing -> remove_missing(failed, {})
          [] path = "noaccess" -> failed
          [] path = "ok" -> e
  BY DEF dir_rescan
<1>2. Shape(d) /\ d.missed \in BOOLEAN
  BY DEF Tidy, Typed
<1>3. Shape(begun) /\ Others(d, begun, {"needs_update", "error"})
  BY <1>2 DEF Shape, Fields, Others
<1> HIDE DEF begun
<1>4. /\ Shape(failed) /\ Others(begun, failed, {"error"})
      /\ Shape(shut) /\ Others(begun, shut, {"closing"})
  BY <1>3 DEF Shape, Fields, Others
<1> HIDE DEF failed, shut, names
<1>5. /\ begun.missed = d.missed /\ failed.missed = d.missed /\ shut.missed = d.missed
      /\ begun.users = d.users /\ failed.users = d.users /\ shut.users = d.users
  BY <1>3, <1>4 DEF Others, Fields
<1>6. Others(d, begun, Rest) /\ Others(begun, failed, Rest) /\ Others(begun, shut, Rest)
  BY <1>3, <1>4 DEF Others, Rest
<1>7. Tidy(begun)
  BY <1>2, <1>3, <1>5, <1>6, RestTidy
<1>8. Tidy(failed) /\ Tidy(shut)
  BY <1>2, <1>4, <1>5, <1>6, <1>7, RestTidy
<1>9. CASE path = "missing" /\ CloseWhenMissing
  BY <1>1, <1>5, <1>8, <1>9
<1>10. CASE path = "missing" /\ ~CloseWhenMissing
  <2> DEFINE r == remove_missing(failed, {})
  <2>1. Tidy(r) /\ Others(failed, r, {"known_items", "view", "dangling", "freed", "item"})
    <3>1. Typed(failed)
      BY <1>8 DEF Tidy
    <3>. QED BY <1>8, <1>10, <3>1, RemoveMissingTidy, RemoveMissingIs
  <2> HIDE DEF r
  <2>2. r.users = failed.users
    BY <2>1 DEF Others, Fields
  <2>. QED BY <1>1, <1>5, <1>10, <2>1, <2>2 DEF r
<1>11. CASE path = "noaccess"
  BY <1>1, <1>5, <1>8, <1>11
<1>12. CASE path = "ok"
  <2>1. /\ Tidy(on) /\ on.scanning /\ Others(begun, on, {"scanning", "busy", "view"})
    BY <1>7, SetScanningTidyCaught
  <2> HIDE DEF on
  <2>2. /\ Tidy(merged) /\ ~Pending(merged)
        /\ Others(on, merged, {"known_items", "new_items", "up_items",
                                    "gone_items", "view", "dangling", "freed", "item"})
    BY <2>1, MergeTidyCaught
  <2> HIDE DEF merged
  <2>3. merged.scanning /\ merged.users = d.users
    BY <1>5, <2>1, <2>2 DEF Others, Fields
  <2>4. Tidy(e) /\ (path = "ok" => Caught(e)) /\ e.users = merged.users
    BY <2>2, <2>3, ScanNamesTidy DEF names
  <2> HIDE DEF e
  <2>. QED BY <1>1, <1>12, <2>3, <2>4
<1>. QED BY <1>9, <1>10, <1>11, <1>12

LEMMA UpdateTidy ==
    ASSUME NEW d, Tidy(d), disk \in [Names -> Vers], path \in {"ok", "noaccess", "missing"}
    PROVE  Tidy(update(d)) /\ (path = "ok" => Right(update(d))) /\ update(d).users = d.users
<1>1. CASE d.scanning
  <2> DEFINE e == [d EXCEPT !.needs_update = TRUE]
  <2>1. update(d) = e
    BY <1>1 DEF update
  <2>2. Shape(d) /\ d.missed \in BOOLEAN
    BY DEF Tidy, Typed
  <2>3. Shape(e) /\ Others(d, e, {"needs_update"}) /\ e.needs_update
    BY <2>2 DEF Shape, Fields, Others
  <2> HIDE DEF e
  <2>4. e.missed = d.missed /\ e.users = d.users
    BY <2>3 DEF Others, Fields
  <2>5. Others(d, e, Rest)
    BY <2>3 DEF Others, Rest
  <2>. QED BY <2>1, <2>2, <2>3, <2>4, <2>5, RestTidy DEF Right
<1>2. CASE ~d.scanning
  BY <1>2, RescanTidy DEF update, Right
<1>. QED BY <1>1, <1>2

LEMMA RecheckCallbackTidy ==
    ASSUME NEW d, Tidy(d), disk \in [Names -> Vers], path \in {"ok", "noaccess", "missing"},
           d.recheck_list # {}
    PROVE  LET e == recheck_callback(d) IN
           /\ Tidy(e) /\ (path = "ok" /\ Right(d) => Right(e))
<1> DEFINE e == RecheckOne(d)
<1>1. /\ Tidy(e) /\ (path = "ok" /\ Caught(d) => Caught(e))
      /\ e.users = d.users /\ e.missed = d.missed /\ e.needs_update = d.needs_update
  BY RecheckOneTidy
<1>2. recheck_callback(d) = IF e.recheck_list = {} /\ e.needs_update THEN dir_rescan(e) ELSE e
  BY DEF recheck_callback
<1> HIDE DEF e
<1>3. CASE e.recheck_list = {} /\ e.needs_update
  BY <1>1, <1>2, <1>3, RescanTidy DEF Right
<1>4. CASE ~(e.recheck_list = {} /\ e.needs_update)
  BY <1>1, <1>2, <1>4 DEF Right
<1>. QED BY <1>3, <1>4

\* Windows that go leave the rest as it was.
LEMMA LeaveTidy ==
    ASSUME NEW d, Tidy(d), NEW left, Shape(left), Others(d, left, {"users", "busy", "view"}),
           left.users \subseteq d.users,
           left.view \in [Users -> SUBSET (Items \X Vers)],
           \A u \in Users : left.view[u] = IF u \in left.users THEN d.view[u] ELSE {}
    PROVE  Tidy(left) /\ (Caught(d) => Caught(left))
<1>1. /\ left.known_items = d.known_items /\ left.new_items = d.new_items
      /\ left.up_items = d.up_items /\ left.gone_items = d.gone_items
      /\ left.item = d.item /\ left.recheck_list = d.recheck_list
      /\ left.scanning = d.scanning /\ left.missed = d.missed
      /\ left.dangling = d.dangling
  BY DEF Others, Fields
<1>2. Typed(d) /\ (CloseWhenMissing => ~d.dangling) /\ d.users \subseteq Users
  BY DEF Tidy, Typed, Unharmed
<1>3. Others(d, left, Rest \cup {"users", "view", "dangling"})
  BY DEF Others, Rest
<1>4. Tidy(left)
  <2>1. Drawable(d, left)
    BY <1>1, <1>2 DEF Drawable, Typed
  <2>. QED BY <1>3, <2>1, ViewTidy
<1>5. ASSUME Caught(d) PROVE Caught(left)
  <2>1. Content(left)
    BY <1>1, <1>5, ContentSame DEF Caught
  <2>2. Painted(d) => Painted(left)
    BY <1>1, <1>2 DEF Painted
  <2>. QED BY <1>1, <1>5, <2>1, <2>2 DEF Caught
<1>. QED BY <1>4, <1>5

LEMMA DetachTidy ==
    ASSUME NEW d, Tidy(d), disk \in [Names -> Vers], NEW u \in Users
    PROVE  LET e == dir_detach(d, u) IN
           Tidy(e) /\ e.missed = d.missed /\ (path = "ok" /\ Right(d) => Right(e))
<1> DEFINE left == [d EXCEPT !.users = @ \ {u}, !.busy = @ \ {u},
                             !.view = [@ EXCEPT ![u] = {}]]
           e == set_idle_callback(left)
<1>1. dir_detach(d, u) = e
  BY DEF dir_detach
<1>2. Typed(d) /\ Told(d)
  BY DEF Tidy
<1>3. /\ Shape(left) /\ Others(d, left, {"users", "busy", "view"})
      /\ left.users = d.users \ {u} /\ left.view = [d.view EXCEPT ![u] = {}]
  BY <1>2 DEF Typed, Shape, Fields, Others
<1> HIDE DEF left
<1>4. left.missed = d.missed /\ left.needs_update = d.needs_update
  BY <1>3 DEF Others, Fields
<1>5. /\ left.view \in [Users -> SUBSET (Items \X Vers)]
      /\ \A t \in Users : left.view[t] = IF t \in left.users THEN d.view[t] ELSE {}
  BY <1>2, <1>3 DEF Typed, Told
<1>6. Tidy(left) /\ (Caught(d) => Caught(left))
  BY <1>3, <1>5, LeaveTidy
<1>7. /\ Tidy(e) /\ (path = "ok" /\ Caught(left) => Caught(e))
      /\ e.users = left.users /\ e.missed = left.missed /\ e.needs_update = left.needs_update
  BY <1>6, SetIdleTidy
<1> HIDE DEF e
<1>. QED BY <1>1, <1>4, <1>6, <1>7 DEF Right

\* The end of a scan, told to some windows.
LEMMA EndScanTidy ==
    ASSUME NEW d, Tidy(d), NEW to, to \subseteq d.users
    PROVE  LET e == NotifyEndScan(d, to) IN
           /\ Tidy(e) /\ (Caught(d) => Caught(e))
           /\ e.missed = d.missed /\ e.needs_update = d.needs_update
<1> DEFINE e == NotifyEndScan(d, to)
<1>0. Typed(d) /\ Told(d) /\ Shape(d) /\ (CloseWhenMissing => ~d.dangling)
  BY DEF Tidy, Typed, Unharmed
<1>1. /\ Shape(e) /\ Others(d, e, {"view", "busy"})
      /\ e.view = [u \in Users |-> IF u \in to THEN Draw(d, u, d.known_items)
                                     ELSE d.view[u]]
  BY <1>0, EndScanIs
<1> HIDE DEF e
<1>2. /\ e.known_items = d.known_items /\ e.new_items = d.new_items
      /\ e.up_items = d.up_items /\ e.gone_items = d.gone_items
      /\ e.item = d.item /\ e.recheck_list = d.recheck_list
      /\ e.scanning = d.scanning /\ e.missed = d.missed /\ e.users = d.users
      /\ e.dangling = d.dangling /\ e.needs_update = d.needs_update
  BY <1>1 DEF Others, Fields
<1>3. Others(d, e, Rest \cup {"users", "view", "dangling"})
  BY <1>1 DEF Others, Rest
<1>4. /\ d.known_items \subseteq Items /\ d.users \subseteq Users
      /\ d.view \in [Users -> SUBSET (Items \X Vers)]
      /\ d.missed \in BOOLEAN /\ d.dangling \in BOOLEAN
  BY <1>0 DEF Typed
<1>5. \A u : /\ Draw(d, u, d.known_items) \subseteq Items \X Vers
             /\ \A p \in Draw(d, u, d.known_items) : p[1] \in d.known_items
  BY <1>0, <1>4, DrawnIs
<1>6. ASSUME NEW u \in Users
      PROVE  e.view[u] = IF u \in to THEN Draw(d, u, d.known_items) ELSE d.view[u]
  BY <1>1
<1>7. e.view \in [Users -> SUBSET (Items \X Vers)]
  BY <1>1, <1>4, <1>5
<1>8. \A u \in Users \ e.users : e.view[u] = {}
  BY <1>0, <1>2, <1>6 DEF Told
<1>9. ASSUME NEW u \in e.users, NEW p \in e.view[u]
      PROVE  p[1] \in d.known_items \/ \E t \in d.users : \E q \in d.view[t] : q[1] = p[1]
  BY <1>2, <1>4, <1>5, <1>6
<1>10. Tidy(e)
  <2>1. Drawable(d, e)
    BY <1>0, <1>2, <1>4, <1>7, <1>8, <1>9 DEF Drawable
  <2>. QED BY <1>1, <1>3, <2>1, ViewTidy
<1>11. ASSUME Caught(d) PROVE Caught(e)
  <2>1. Content(e)
    BY <1>2, <1>11, ContentSame DEF Caught
  <2>2. ASSUME Painted(d) PROVE Painted(e)
    <3>1. ASSUME NEW u \in e.users
          PROVE  /\ \A p \in e.view[u] : /\ p[1] \in e.known_items
                                         /\ Name(p[1]) \in Shows[u]
                                         /\ p[1] \in e.up_items \/ p[2] = e.item[p[1]].ver
                 /\ \A i \in e.known_items : Name(i) \in Shows[u]
                        => \E p \in e.view[u] : p[1] = i
                 /\ \A p, q \in e.view[u] : p[1] = q[1] => p = q
      <4>1. CASE u \in to
        <5>1. e.view[u] = Draw(d, u, d.known_items)
          BY <1>2, <1>4, <1>6, <4>1
        <5>2. LET V == Draw(d, u, d.known_items) IN
              /\ \A p \in V : /\ p[1] \in d.known_items /\ Name(p[1]) \in Shows[u]
                              /\ p[2] = d.item[p[1]].ver
              /\ \A i \in d.known_items : Name(i) \in Shows[u] => \E p \in V : p[1] = i
              /\ \A p, q \in V : p[1] = q[1] => p = q
          BY <1>0, DrawnPainted
        <5>. QED BY ONLY <1>2, <5>1, <5>2
      <4>2. CASE u \notin to
        <5>1. e.view[u] = d.view[u]
          BY <1>2, <1>4, <1>6, <4>2
        <5>. QED BY <1>2, <2>2, <5>1 DEF Painted
      <4>. QED BY <4>1, <4>2
    <3>. QED BY <3>1 DEF Painted
  <2>. QED BY <1>2, <1>11, <2>1, <2>2 DEF Caught
<1>. QED BY <1>2, <1>10, <1>11 DEF e

LEMMA AttachTidy ==
    ASSUME NEW d, Tidy(d), disk \in [Names -> Vers], path \in {"ok", "noaccess", "missing"},
           NEW u \in Users, u \notin d.users
    PROVE  LET e == dir_attach(d, u) IN
           Tidy(e) /\ (path = "ok" /\ Right(d) => Right(e))
<1> DEFINE joined == [d EXCEPT !.users = @ \cup {u}, !.busy = @ \cup {u},
                               !.view = [@ EXCEPT ![u] = {}]]
           added == NotifyAdd(joined, {u}, d.known_items)
           queued == QueueInteresting(added, {u})
           asked == IF d.needs_update /\ ~d.scanning THEN dir_rescan(added) ELSE queued
           set == set_idle_callback(asked)
           drawn == Draw(d, u, d.known_items)
<1>1. dir_attach(d, u) = IF set.scanning THEN set ELSE NotifyEndScan(set, {u})
  BY DEF dir_attach
<1>2. /\ Typed(d) /\ Told(d) /\ Shape(d) /\ (CloseWhenMissing => Unharmed(d))
      /\ d.view \in [Users -> SUBSET (Items \X Vers)] /\ d.known_items \subseteq Items
      /\ d.users \subseteq Users /\ d.missed \in BOOLEAN /\ d.dangling \in BOOLEAN
  BY DEF Tidy, Typed
<1>3. /\ Shape(joined) /\ Others(d, joined, {"users", "busy", "view"})
      /\ joined.users = d.users \cup {u} /\ joined.view = [d.view EXCEPT ![u] = {}]
  BY <1>2 DEF Shape, Fields, Others
<1> HIDE DEF joined
<1>4. joined.item = d.item /\ joined.freed = d.freed /\ joined.dangling = d.dangling
  BY <1>3 DEF Others, Fields
<1>5. /\ Shape(added) /\ Others(joined, added, {"view", "dangling"})
      /\ added.view = [t \in Users |-> IF t \in {u}
                           THEN joined.view[t] \cup Draw(joined, t, d.known_items)
                           ELSE joined.view[t]]
      /\ added.dangling = Uses(joined, d.known_items)
  <2>1. PICK to : to = {u}
    OBVIOUS
  <2>2. LET e == NotifyAdd(joined, to, d.known_items) IN
        /\ Shape(e) /\ Others(joined, e, {"view", "dangling"})
        /\ e.view = [t \in Users |-> IF t \in to
                           THEN joined.view[t] \cup Draw(joined, t, d.known_items)
                           ELSE joined.view[t]]
        /\ e.dangling = Uses(joined, d.known_items)
    <3>1. Shape(joined)
      BY <1>3
    <3>. QED BY ONLY <3>1, AddIs
  <2>. QED BY <2>1, <2>2
<1> HIDE DEF added
<1>6. /\ added.known_items = d.known_items /\ added.new_items = d.new_items
      /\ added.up_items = d.up_items /\ added.gone_items = d.gone_items
      /\ added.item = d.item /\ added.recheck_list = d.recheck_list
      /\ added.scanning = d.scanning /\ added.missed = d.missed
      /\ added.users = d.users \cup {u} /\ added.needs_update = d.needs_update
  BY <1>3, <1>5 DEF Others, Fields
<1>7. Others(d, added, Rest \cup {"users", "view", "dangling"})
  BY <1>3, <1>5 DEF Others, Rest
<1>8. ASSUME NEW t \in Users PROVE added.view[t] = IF t = u THEN drawn ELSE d.view[t]
  <2>1. joined.view[t] = IF t = u THEN {} ELSE d.view[t]
    BY <1>2, <1>3
  <2>2. Draw(joined, u, d.known_items) = drawn
    BY <1>4 DEF Draw
  <2>. QED BY <1>5, <2>1, <2>2
<1>9. drawn \subseteq Items \X Vers /\ \A p \in drawn : p[1] \in d.known_items
  BY <1>2, DrawnIs
<1>10. LET V == Draw(d, u, d.known_items) IN
       /\ \A p \in V : /\ p[1] \in d.known_items /\ Name(p[1]) \in Shows[u]
                       /\ p[2] = d.item[p[1]].ver
       /\ \A i \in d.known_items : Name(i) \in Shows[u] => \E p \in V : p[1] = i
       /\ \A p, q \in V : p[1] = q[1] => p = q
  BY <1>2, DrawnPainted
<1> HIDE DEF drawn
<1>11. Tidy(added)
  <2>1. added.view \in [Users -> SUBSET (Items \X Vers)]
    <3>1. added.view = [t \in Users |-> added.view[t]]
      BY <1>5
    <3>. QED BY <1>2, <1>8, <1>9, <3>1
  <2>2. added.dangling \in BOOLEAN /\ (CloseWhenMissing => ~added.dangling)
    BY <1>2, <1>4, <1>5 DEF Uses, Unharmed
  <2>3. \A t \in Users \ added.users : added.view[t] = {}
    BY <1>2, <1>6, <1>8 DEF Told
  <2>4. ASSUME NEW t \in added.users, NEW p \in added.view[t]
        PROVE  p[1] \in d.known_items \/ \E v \in d.users : \E q \in d.view[v] : q[1] = p[1]
    BY <1>2, <1>6, <1>8, <1>9
  <2>5. added.users \subseteq Users /\ added.missed \in BOOLEAN
    BY <1>2, <1>6
  <2>6. Shape(added)
    BY <1>5
  <2>7. \A t \in added.users : \A p \in added.view[t] :
            p[1] \in d.known_items \/ \E v \in d.users : \E q \in d.view[v] : q[1] = p[1]
    BY <2>4
  <2>8. Drawable(d, added)
    BY ONLY <2>1, <2>2, <2>3, <2>5, <2>7 DEF Drawable
  <2>9. Others(d, added, Rest \cup {"users", "view", "dangling"})
    BY <1>7
  <2>. QED BY <2>6, <2>8, <2>9, ViewTidy
<1>12. ASSUME Caught(d) PROVE Caught(added)
  <2>1. Content(added)
    BY <1>6, <1>12, ContentSame DEF Caught
  <2>2. ASSUME Painted(d) PROVE Painted(added)
    <3>1. ASSUME NEW t \in added.users
          PROVE  /\ \A p \in added.view[t] :
                       /\ p[1] \in added.known_items /\ Name(p[1]) \in Shows[t]
                       /\ p[1] \in added.up_items \/ p[2] = added.item[p[1]].ver
                 /\ \A i \in added.known_items : Name(i) \in Shows[t]
                        => \E p \in added.view[t] : p[1] = i
                 /\ \A p, q \in added.view[t] : p[1] = q[1] => p = q
      <4>1. CASE t = u
        <5>1. added.view[t] = Draw(d, u, d.known_items)
          BY <1>8, <4>1 DEF drawn
        <5>. QED BY ONLY <1>6, <1>10, <4>1, <5>1
      <4>2. CASE t # u
        <5>1. t \in d.users /\ added.view[t] = d.view[t]
          BY <1>2, <1>6, <1>8, <4>2
        <5>. QED BY <1>6, <2>2, <5>1 DEF Painted
      <4>. QED BY <4>1, <4>2
    <3>. QED BY <3>1 DEF Painted
  <2>. QED BY <1>6, <1>12, <2>1, <2>2 DEF Caught
<1>13. /\ Tidy(queued) /\ (Caught(added) => Caught(queued))
       /\ Others(added, queued, {"recheck_list", "item", "dangling"})
  <2>1. {u} \subseteq added.users
    BY <1>6
  <2>. QED BY <1>11, <2>1, QueueTidy, QueueCaught, QueueOf
<1> HIDE DEF queued
<1>14. /\ queued.users = added.users /\ queued.missed = added.missed
       /\ queued.needs_update = added.needs_update
  BY <1>13 DEF Others, Fields
<1>15. /\ Tidy(asked) /\ u \in asked.users
       /\ path = "ok" /\ Right(d) => Right(asked)
  <2>1. CASE d.needs_update /\ ~d.scanning
    <3>1. asked = dir_rescan(added)
      BY <2>1
    <3> HIDE DEF asked
    <3>2. Tidy(asked) /\ (path = "ok" => Caught(asked)) /\ asked.users = added.users
      BY <1>11, <3>1, RescanTidy
    <3>. QED BY <1>6, <3>2 DEF Right
  <2>2. CASE ~(d.needs_update /\ ~d.scanning)
    <3>1. asked = queued
      BY <2>2
    <3> HIDE DEF asked
    <3>. QED BY <1>6, <1>12, <1>13, <1>14, <3>1 DEF Right
  <2>. QED BY <2>1, <2>2
<1> HIDE DEF asked
<1>16. /\ Tidy(set) /\ u \in set.users /\ (path = "ok" /\ Right(d) => Right(set))
  <2>1. /\ Tidy(set) /\ (path = "ok" /\ Caught(asked) => Caught(set))
        /\ set.users = asked.users /\ set.missed = asked.missed
        /\ set.needs_update = asked.needs_update
    BY <1>15, SetIdleTidy
  <2> HIDE DEF set
  <2>. QED BY <1>15, <2>1 DEF Right
<1> HIDE DEF set
<1> DEFINE told == NotifyEndScan(set, {u})
<1>17. /\ Tidy(told) /\ (Caught(set) => Caught(told))
       /\ told.missed = set.missed /\ told.needs_update = set.needs_update
  <2>1. {u} \subseteq set.users
    BY <1>16
  <2>. QED BY <1>16, <2>1, EndScanTidy
<1> HIDE DEF told
<1>18. dir_attach(d, u) = IF set.scanning THEN set ELSE told
  BY <1>1 DEF told
<1>. QED BY <1>16, <1>17, <1>18 DEF Right

\* Room leaves memory for two items of the name.
LEMMA RoomIs ==
    ASSUME Typed(dir), NEW n \in Names, Room(n)
    PROVE  \E k, l \in Spare(dir, n) : k # l
<1> DEFINE R == {i \in Referenced(dir) : Name(i) = n}
           K == {k \in 1..Copies : <<n, k>> \in Referenced(dir)}
           f == [k \in K |-> <<n, k>>]
<1>1. Copies \in Nat
  BY DirectoryAssumption
<1>2. IsFiniteSet(1..Copies) /\ Cardinality(1..Copies) = Copies
  BY <1>1, FS_Interval
<1>3. IsFiniteSet(K) /\ Cardinality(K) \in Nat
  <2>1. K \in SUBSET (1..Copies)
    OBVIOUS
  <2> HIDE DEF K
  <2>. QED BY <1>2, <2>1, FS_Subset, FS_CardinalityType
<1>4. Referenced(dir) \subseteq Items
  <2>1. Range(dir.new_items) \subseteq Items
    BY DEF Typed, Range
  <2>2. InViews(dir, Users) \subseteq Items
    BY DEF InViews, Typed
  <2>. QED BY <2>1, <2>2 DEF Referenced, Typed
<1>5. Cardinality(R) = Cardinality(K)
  <2>1. f \in Bijection(K, R)
    <3>1. f \in [K -> R]
      BY DEF Name
    <3>2. \A k, l \in K : f[k] = f[l] => k = l
      OBVIOUS
    <3>3. \A i \in R : \E k \in K : f[k] = i
      <4> SUFFICES ASSUME NEW i \in R PROVE \E k \in K : f[k] = i
        OBVIOUS
      <4>1. i = <<n, i[2]>> /\ i[2] \in 1..Copies
        BY <1>4 DEF Items, Name
      <4>2. i[2] \in K
        BY <4>1
      <4>. QED BY <4>1, <4>2
    <3>. QED BY <3>1, <3>2, <3>3 DEF Bijection, Injection, Surjection, IsInjective
  <2>2. ExistsBijection(K, R)
    BY <2>1 DEF ExistsBijection
  <2> HIDE DEF R, K, f
  <2>. QED BY <1>3, <2>2, FS_Bijection
<1>6. Cardinality(K) + 2 <= Copies
  BY <1>5 DEF Room
<1>7. Spare(dir, n) = (1..Copies) \ K
  BY DEF Spare
<1> HIDE DEF R, K, f
<1>8. \E k \in 1..Copies : k \notin K
  <2>1. SUFFICES ASSUME 1..Copies \subseteq K PROVE FALSE
    OBVIOUS
  <2>2. Copies <= Cardinality(K)
    BY <1>2, <1>3, <2>1, FS_Subset
  <2>. QED BY ONLY <1>1, <1>3, <1>6, <2>2
<1>9. PICK k \in 1..Copies : k \notin K
  BY <1>8
<1>10. \E l \in 1..Copies : l \notin K \cup {k}
  <2>1. SUFFICES ASSUME 1..Copies \subseteq K \cup {k} PROVE FALSE
    OBVIOUS
  <2>2. IsFiniteSet(K \cup {k}) /\ Cardinality(K \cup {k}) = Cardinality(K) + 1
    BY <1>3, <1>9, FS_AddElement
  <2>3. Copies <= Cardinality(K \cup {k})
    BY <1>2, <2>1, <2>2, FS_Subset
  <2>. QED BY ONLY <1>1, <1>3, <1>6, <2>2, <2>3
<1>. QED BY <1>7, <1>9, <1>10

\* A window redraws what it is told has changed.
LEMMA RedrawTidy ==
    ASSUME NEW d, Tidy(d), NEW S, S \subseteq d.known_items
    PROVE  LET e == NotifyUpdate(d, S) IN Tidy(e) /\ (Right(d) => Right(e))
<1> DEFINE e == NotifyUpdate(d, S)
<1>0. /\ Typed(d) /\ Told(d) /\ Shape(d) /\ (CloseWhenMissing => Unharmed(d))
      /\ d.view \in [Users -> SUBSET (Items \X Vers)] /\ d.users \subseteq Users
      /\ d.missed \in BOOLEAN /\ d.dangling \in BOOLEAN
  BY DEF Tidy, Typed
<1>1. /\ Shape(e) /\ Others(d, e, {"view", "dangling"})
      /\ e.view = [u \in Users |-> IF u \in d.users
                                    THEN {Upd(d, S, p) : p \in d.view[u]} ELSE d.view[u]]
      /\ e.dangling = Uses(d, S)
  BY <1>0, UpdateIs
<1> HIDE DEF e
<1>2. /\ e.known_items = d.known_items /\ e.new_items = d.new_items
      /\ e.up_items = d.up_items /\ e.gone_items = d.gone_items
      /\ e.item = d.item /\ e.recheck_list = d.recheck_list
      /\ e.scanning = d.scanning /\ e.missed = d.missed /\ e.users = d.users
      /\ e.needs_update = d.needs_update
  BY <1>1 DEF Others, Fields
<1>3. Others(d, e, Rest \cup {"users", "view", "dangling"})
  BY <1>1 DEF Others
<1>4. ASSUME NEW u \in d.users
      PROVE  /\ \A q \in e.view[u] : \E p \in d.view[u] : q = Upd(d, S, p)
             /\ \A p \in d.view[u] : Upd(d, S, p) \in e.view[u]
             /\ \A p \in d.view[u] :
                   /\ Upd(d, S, p) \in Items \X Vers /\ Upd(d, S, p)[1] = p[1]
                   /\ Upd(d, S, p)[2] = IF p[1] \in S THEN d.item[p[1]].ver ELSE p[2]
  <2>1. e.view[u] = {Upd(d, S, p) : p \in d.view[u]} /\ d.view[u] \subseteq Items \X Vers
    BY <1>0, <1>1
  <2>. QED BY <1>0, <2>1, UpdOf
<1>5. ASSUME NEW u \in Users \ d.users PROVE e.view[u] = {}
  BY <1>0, <1>1 DEF Told
<1>6. Tidy(e)
  <2>1. e.view \in [Users -> SUBSET (Items \X Vers)]
    <3>1. e.view = [u \in Users |-> e.view[u]]
      BY <1>1
    <3>2. \A u \in Users : e.view[u] \subseteq Items \X Vers
      BY <1>4, <1>5
    <3>. QED BY <3>1, <3>2
  <2>2. \A u \in e.users : \A q \in e.view[u] :
            \E t \in d.users : \E p \in d.view[t] : p[1] = q[1]
    BY <1>2, <1>4
  <2>3. e.dangling \in BOOLEAN /\ (CloseWhenMissing => ~e.dangling)
    BY <1>0, <1>1 DEF Uses, Unharmed
  <2>4. Drawable(d, e)
    BY <1>0, <1>2, <1>5, <2>1, <2>2, <2>3 DEF Drawable
  <2>. QED BY <1>1, <1>3, <2>4, ViewTidy
<1>7. ASSUME Painted(d) PROVE Painted(e)
  <2>1. ASSUME NEW u \in d.users
        PROVE  /\ \A q \in e.view[u] :
                     /\ q[1] \in d.known_items /\ Name(q[1]) \in Shows[u]
                     /\ q[1] \in d.up_items \/ q[2] = d.item[q[1]].ver
               /\ \A i \in d.known_items : Name(i) \in Shows[u]
                      => \E q \in e.view[u] : q[1] = i
               /\ \A q, r \in e.view[u] : q[1] = r[1] => q = r
    <3>1. /\ \A p \in d.view[u] :
                /\ p[1] \in d.known_items /\ Name(p[1]) \in Shows[u]
                /\ p[1] \in d.up_items \/ p[2] = d.item[p[1]].ver
          /\ \A i \in d.known_items : Name(i) \in Shows[u] => \E p \in d.view[u] : p[1] = i
          /\ \A p, q \in d.view[u] : p[1] = q[1] => p = q
      BY <1>7 DEF Painted
    <3>2. ASSUME NEW q \in e.view[u]
          PROVE  /\ q[1] \in d.known_items /\ Name(q[1]) \in Shows[u]
                 /\ q[1] \in d.up_items \/ q[2] = d.item[q[1]].ver
      BY <1>4, <3>1
    <3>3. ASSUME NEW i \in d.known_items, Name(i) \in Shows[u]
          PROVE  \E q \in e.view[u] : q[1] = i
      BY <1>4, <3>1, <3>3
    <3>4. ASSUME NEW q \in e.view[u], NEW r \in e.view[u], q[1] = r[1] PROVE q = r
      BY <1>4, <3>1, <3>4
    <3>. QED BY <3>2, <3>3, <3>4
  <2>. QED BY <1>2, <2>1 DEF Painted
<1>8. Right(d) => Right(e)
  <2>1. Content(d) => Content(e)
    BY <1>2, ContentSame
  <2>. QED BY <1>2, <1>7, <2>1 DEF Right, Caught
<1>. QED BY <1>6, <1>8 DEF e

\* What the timers, the options and the ghost do not decide stays, and what a scan owed
\* is owed still.
LEMMA RestRight ==
    ASSUME NEW d, Tidy(d), NEW e, Shape(e), Others(d, e, Rest \ {"scanning"}),
           e.missed \in BOOLEAN, d.missed => e.missed, d.needs_update => e.needs_update
    PROVE  Tidy(e) /\ (Right(d) => Right(e))
<1>1. Others(d, e, Rest)
  BY DEF Others
<1>2. Tidy(e)
  BY <1>1, RestTidy
<1>3. Caught(d) => Caught(e)
  BY RestCaught
<1>. QED BY <1>2, <1>3 DEF Right

LEMMA InsertRight ==
    ASSUME NEW d, Tidy(d), disk \in [Names -> Vers], NEW n \in Names,
           \E k, l \in Spare(d, n) : k # l
    PROVE  LET e == insert_item(d, n) IN Tidy(e) /\ (path = "ok" /\ Right(d) => Right(e))
<1> DEFINE e == insert_item(d, n)
<1>1. Typed(d) /\ Apart(d) /\ Shape(d)
  BY DEF Tidy, Typed
<1>2. Tidy(e)
  BY InsertTidy
<1>3. Others(d, e, {"known_items", "new_items", "up_items", "gone_items", "freed",
                    "item", "notify_active"})
  BY <1>1, InsertIs
<1>4. ASSUME path = "ok", Caught(d) PROVE Caught(e)
  <2>1. ContentAs(d, d.recheck_list \cup {n})
    BY <1>4 DEF Caught, Content, ContentAs
  <2>. QED BY <1>1, <1>4, <2>1, InsertCaught DEF Caught
<1> HIDE DEF e
<1>5. e.missed = d.missed /\ e.needs_update = d.needs_update
  BY <1>3 DEF Others, Fields
<1>6. Tidy(e) /\ (path = "ok" /\ Right(d) => Right(e))
  BY <1>2, <1>4, <1>5 DEF Right
<1>. QED BY <1>6 DEF e

LEMMA MergeRight ==
    ASSUME NEW d, Tidy(d)
    PROVE  Tidy(dir_merge_new(d)) /\ (Right(d) => Right(dir_merge_new(d)))
<1>1. dir_merge_new(d).missed = d.missed /\ dir_merge_new(d).needs_update = d.needs_update
  BY MergeTidyCaught DEF Others, Fields
<1>. QED BY <1>1, MergeTidyCaught DEF Right

-----------------------------------------------------------------------------

LEMMA InitSound == Init => Sound
<1> SUFFICES ASSUME Init PROVE Sound
  OBVIOUS
<1>1. disk \in [Names -> Vers] /\ event \in BOOLEAN /\ path = "ok"
  <2>1. disk \in [Names -> Versions \cup {Absent}] /\ event = FALSE /\ path = "ok"
    BY DEF Init
  <2>2. Versions \cup {Absent} = Vers
    BY DEF Vers
  <2>. QED BY <2>1, <2>2
<1>2. /\ dir.users = {} /\ dir.recheck_list = {} /\ dir.known_items = {}
      /\ dir.new_items = <<>> /\ dir.up_items = {} /\ dir.gone_items = {} /\ dir.freed = {}
      /\ dir.needs_update = TRUE /\ dir.missed = FALSE /\ dir.dangling = FALSE
      /\ dir.item = [i \in Items |-> Blank] /\ dir.view = [u \in Users |-> {}]
  BY DEF Init
<1>3. Range(dir.new_items) = {}
  BY <1>2 DEF Range
<1>4. Shape(dir)
  BY InitGood DEF IInv, Good
<1>5. Typed(dir)
  <2>1. Blank \in Seen
    BY DEF Blank, Seen, Vers
  <2>2. dir.item \in [Items -> Seen] /\ dir.view \in [Users -> SUBSET (Items \X Vers)]
    BY <1>2, <2>1
  <2>3. dir.new_items \in Seq(Items)
    BY <1>2
  <2>4. /\ dir.dangling \in BOOLEAN /\ dir.missed \in BOOLEAN
        /\ dir.users \subseteq Users /\ dir.recheck_list \subseteq Names
        /\ dir.known_items \subseteq Items /\ dir.up_items \subseteq Items
        /\ dir.gone_items \subseteq Items /\ dir.freed \subseteq Items
    BY ONLY <1>2
  <2>. QED BY <1>4, <2>2, <2>3, <2>4 DEF Typed
<1>6. Roomy(dir) /\ Apart(dir) /\ Told(dir) /\ Marked(dir) /\ Examined(dir) /\ Unharmed(dir)
  BY <1>2, <1>3 DEF Roomy, Apart, Told, Marked, Examined, Unharmed
<1>7. Right(dir)
  BY <1>2 DEF Right
<1>. QED BY <1>1, <1>5, <1>6, <1>7 DEF Sound, Outside, Tidy

\* A handler runs while the files stand still.
LEMMA HandlerSound ==
    ASSUME Outside, NEW e, Tidy(e), dir' = e, disk' = disk, path' = path, event' \in BOOLEAN,
           path = "ok" /\ ~event' => Right(e)
    PROVE  Sound'
<1>1. Outside'
  BY DEF Outside
<1>2. Tidy(dir')
  OBVIOUS
<1>3. ASSUME path' = "ok", ~event' PROVE Right(dir)'
  <2>1. Right(e)
    BY <1>3
  <2>. QED BY <2>1 DEF Right, Caught, Content, ContentAs, Painted, Known
<1>. QED BY <1>1, <1>2, <1>3 DEF Sound

\* A change has an event on its way or is known to have gone unseen.
LEMMA NoticedSound ==
    ASSUME Sound, Noticed, disk' \in [Names -> Vers]
    PROVE  Sound'
<1>1. Tidy(dir) /\ event \in BOOLEAN
  BY DEF Sound, Outside
<1>2. PICK e : e = [dir EXCEPT !.missed = @ \/ dir.users = {}]
  OBVIOUS
<1>3. dir' = e /\ event' = (event \/ dir.users # {})
  BY <1>2 DEF Noticed
<1>4. Shape(dir) /\ dir.missed \in BOOLEAN
  BY <1>1 DEF Tidy, Typed
<1>5. Shape(e) /\ Others(dir, e, {"missed"}) /\ e.missed = (dir.missed \/ dir.users = {})
  BY <1>2, <1>4 DEF Shape, Fields, Others
<1>6. Tidy(e)
  <2>1. Others(dir, e, Rest)
    BY <1>5 DEF Others, Rest
  <2>2. e.missed \in BOOLEAN
    BY <1>5
  <2>. QED BY <1>1, <1>5, <2>1, <2>2, RestTidy
<1>7. Tidy(dir') /\ Outside'
  BY <1>1, <1>3, <1>6 DEF Outside
<1>8. ~event' => Right(dir)'
  BY <1>3, <1>5 DEF Right
<1>. QED BY <1>7, <1>8 DEF Sound

LEMMA StepSound == IInv /\ Sound /\ [Next]_vars => Sound'
<1> SUFFICES ASSUME IInv, Sound, [Next]_vars PROVE Sound'
  OBVIOUS
<1>0. /\ Outside /\ disk \in [Names -> Vers] /\ event \in BOOLEAN
      /\ Tidy(dir) /\ Typed(dir) /\ Shape(dir) /\ dir.missed \in BOOLEAN
      /\ path \in {"ok", "noaccess", "missing"}
      /\ path = "ok" /\ ~event => Right(dir)
  BY DEF Sound, Outside, Tidy, Typed, IInv
<1>1. ASSUME NEW u \in Users, Attach(u) PROVE Sound'
  <2>1. PICK looked \in {dir} \cup (IF path = "missing" THEN {} ELSE {update(dir)}) :
            dir' = dir_attach(looked, u)
    BY <1>1 DEF Attach
  <2>2. /\ Tidy(looked) /\ looked.users = dir.users
        /\ path = "ok" /\ ~event => Right(looked)
    <3>1. CASE looked = dir
      BY <1>0, <3>1
    <3>2. CASE looked = update(dir)
      BY <1>0, <3>2, UpdateTidy
    <3>. QED BY <2>1, <3>1, <3>2
  <2>3. PICK e : e = dir_attach(looked, u)
    OBVIOUS
  <2>4. u \notin looked.users
    BY <1>1, <2>2 DEF Attach
  <2>5. Tidy(e) /\ (path = "ok" /\ Right(looked) => Right(e))
    BY <1>0, <2>2, <2>3, <2>4, AttachTidy
  <2>6. dir' = e /\ disk' = disk /\ path' = path /\ event' = event
    BY <1>1, <2>1, <2>3 DEF Attach
  <2>. QED BY <1>0, <2>2, <2>5, <2>6, HandlerSound
<1>2. ASSUME NEW u \in Users, Detach(u) PROVE Sound'
  <2>1. PICK left : left = dir_detach(dir, u)
    OBVIOUS
  <2>2. Tidy(left) /\ left.missed = dir.missed /\ (path = "ok" /\ Right(dir) => Right(left))
    BY <1>0, <2>1, DetachTidy
  <2>3. disk' = disk /\ path' = path
    BY <1>2 DEF Detach
  <2>4. CASE left.users = {}
    <3>1. PICK e : e = [left EXCEPT !.missed = @ \/ event]
      OBVIOUS
    <3>2. dir' = e /\ event' = FALSE
      BY <1>2, <2>1, <2>4, <3>1 DEF Detach
    <3>3. Shape(left)
      BY <2>2 DEF Tidy, Typed
    <3>4. Shape(e) /\ Others(left, e, {"missed"}) /\ e.missed = (left.missed \/ event)
      BY <3>1, <3>3 DEF Shape, Fields, Others
    <3>5. /\ Others(left, e, Rest \ {"scanning"}) /\ e.missed \in BOOLEAN
          /\ left.missed => e.missed
          /\ e.needs_update = left.needs_update
      BY <1>0, <2>2, <3>4 DEF Others, Fields, Rest
    <3>6. Tidy(e) /\ (Right(left) => Right(e))
      BY <2>2, <3>4, <3>5, RestRight
    <3>7. path = "ok" => Right(e)
      <4>1. CASE event
        BY <3>4, <4>1 DEF Right
      <4>2. CASE ~event
        BY <1>0, <2>2, <3>6, <4>2
      <4>. QED BY <4>1, <4>2
    <3>. QED BY <1>0, <2>3, <3>2, <3>6, <3>7, HandlerSound
  <2>5. CASE left.users # {}
    <3>1. dir' = left /\ event' = event
      BY <1>2, <2>1, <2>5 DEF Detach
    <3>. QED BY <1>0, <2>2, <2>3, <3>1, HandlerSound
  <2>. QED BY <2>4, <2>5
<1>3. ASSUME Recheck PROVE Sound'
  <2>1. PICK e : e = recheck_callback(dir)
    OBVIOUS
  <2>2. dir.recheck_list # {}
    BY <1>3 DEF Recheck, IInv, Good, Working
  <2>3. Tidy(e) /\ (path = "ok" /\ Right(dir) => Right(e))
    BY <1>0, <2>1, <2>2, RecheckCallbackTidy
  <2>4. dir' = e /\ disk' = disk /\ path' = path /\ event' = event
    BY <1>3, <2>1 DEF Recheck
  <2>. QED BY <1>0, <2>3, <2>4, HandlerSound
<1>4. ASSUME MonitorEvent PROVE Sound'
  <2>1. PICK e : e = [dir EXCEPT !.needs_update = TRUE, !.rescan_timeout = TRUE]
    OBVIOUS
  <2>2. /\ Shape(e) /\ Others(dir, e, {"needs_update", "rescan_timeout"}) /\ e.needs_update
    BY <1>0, <2>1 DEF Shape, Fields, Others
  <2>3. Others(dir, e, Rest) /\ e.missed = dir.missed
    BY <2>2 DEF Others, Fields, Rest
  <2>4. Tidy(e)
    BY <1>0, <2>2, <2>3, RestTidy
  <2>5. Right(e)
    BY <2>2 DEF Right
  <2>6. dir' = e /\ disk' = disk /\ path' = path /\ event' = FALSE
    BY <1>4, <2>1 DEF MonitorEvent
  <2>. QED BY <1>0, <2>4, <2>5, <2>6, HandlerSound
<1>5. ASSUME RescanTimeout PROVE Sound'
  <2>1. PICK d : d = IF ~dir.scanning /\ dir.needs_update THEN dir_rescan(dir) ELSE dir
    OBVIOUS
  <2>2. Tidy(d) /\ (path = "ok" /\ ~event => Right(d))
    <3>1. CASE ~dir.scanning /\ dir.needs_update
      BY <1>0, <2>1, <3>1, RescanTidy DEF Right
    <3>2. CASE ~(~dir.scanning /\ dir.needs_update)
      BY <1>0, <2>1, <3>2
    <3>. QED BY <3>1, <3>2
  <2>3. PICK e : e = [d EXCEPT !.rescan_timeout = d.scanning]
    OBVIOUS
  <2>4. Shape(d) /\ d.missed \in BOOLEAN
    BY <2>2 DEF Tidy, Typed
  <2>5. Shape(e) /\ Others(d, e, {"rescan_timeout"})
    BY <2>3, <2>4 DEF Shape, Fields, Others
  <2>6. /\ Others(d, e, Rest \ {"scanning"}) /\ e.missed = d.missed
        /\ e.needs_update = d.needs_update
    BY <2>5 DEF Others, Fields, Rest
  <2>7. Tidy(e) /\ (Right(d) => Right(e))
    BY <2>2, <2>4, <2>5, <2>6, RestRight
  <2>8. dir' = e /\ disk' = disk /\ path' = path /\ event' = event
    BY <1>5, <2>1, <2>3 DEF RescanTimeout
  <2>. QED BY <1>0, <2>2, <2>7, <2>8, HandlerSound
<1>6. ASSUME NotifyTimeout PROVE Sound'
  <2>1. PICK d : d = dir_merge_new(dir)
    OBVIOUS
  <2>2. Tidy(d) /\ (Right(dir) => Right(d))
    BY <1>0, <2>1, MergeRight
  <2>3. PICK e : e = [d EXCEPT !.notify_active = FALSE]
    OBVIOUS
  <2>4. Shape(d) /\ d.missed \in BOOLEAN
    BY <2>2 DEF Tidy, Typed
  <2>5. Shape(e) /\ Others(d, e, {"notify_active"})
    BY <2>3, <2>4 DEF Shape, Fields, Others
  <2>6. /\ Others(d, e, Rest \ {"scanning"}) /\ e.missed = d.missed
        /\ e.needs_update = d.needs_update
    BY <2>5 DEF Others, Fields, Rest
  <2>7. Tidy(e) /\ (Right(d) => Right(e))
    BY <2>2, <2>4, <2>5, <2>6, RestRight
  <2>8. dir' = e /\ disk' = disk /\ path' = path /\ event' = event
    BY <1>6, <2>1, <2>3 DEF NotifyTimeout
  <2>. QED BY <1>0, <2>2, <2>7, <2>8, HandlerSound
<1>7. ASSUME CloseMissing PROVE Sound'
  <2>1. PICK left : left = [dir EXCEPT !.users = {}, !.busy = {},
                                       !.view = [u \in Users |-> {}]]
    OBVIOUS
  <2>2. /\ Shape(left) /\ Others(dir, left, {"users", "busy", "view"})
        /\ left.users = {} /\ left.view = [u \in Users |-> {}]
    BY <1>0, <2>1 DEF Shape, Fields, Others
  <2>3. left.missed = dir.missed /\ left.needs_update = dir.needs_update
    BY <2>2 DEF Others, Fields
  <2>4. /\ left.users \subseteq dir.users
        /\ left.view \in [Users -> SUBSET (Items \X Vers)]
        /\ \A u \in Users : left.view[u] = IF u \in left.users THEN dir.view[u] ELSE {}
    BY <2>2
  <2>5. Tidy(left) /\ (Caught(dir) => Caught(left))
    BY <1>0, <2>2, <2>4, LeaveTidy
  <2>6. PICK shut : shut = set_idle_callback(left)
    OBVIOUS
  <2>7. /\ Tidy(shut) /\ (path = "ok" /\ Caught(left) => Caught(shut))
        /\ shut.missed = left.missed /\ shut.needs_update = left.needs_update
    BY <1>0, <2>5, <2>6, SetIdleTidy
  <2>8. path = "ok" /\ ~event => Right(shut)
    BY <1>0, <2>3, <2>5, <2>7 DEF Right
  <2>9. PICK e : e = [shut EXCEPT !.closing = FALSE, !.missed = @ \/ event]
    OBVIOUS
  <2>10. Shape(shut) /\ shut.missed \in BOOLEAN
    BY <2>7 DEF Tidy, Typed
  <2>11. /\ Shape(e) /\ Others(shut, e, {"closing", "missed"})
         /\ e.missed = (shut.missed \/ event)
    BY <2>9, <2>10 DEF Shape, Fields, Others
  <2>12. /\ Others(shut, e, Rest \ {"scanning"}) /\ e.missed \in BOOLEAN
         /\ shut.missed => e.missed
         /\ e.needs_update = shut.needs_update
    BY <1>0, <2>10, <2>11 DEF Others, Fields, Rest
  <2>13. Tidy(e) /\ (Right(shut) => Right(e))
    BY <2>7, <2>11, <2>12, RestRight
  <2>14. path = "ok" => Right(e)
    <3>1. CASE event
      BY <2>11, <3>1 DEF Right
    <3>2. CASE ~event
      BY <2>8, <2>13, <3>2
    <3>. QED BY <3>1, <3>2
  <2>15. dir' = e /\ disk' = disk /\ path' = path /\ event' = FALSE
    BY <1>7, <2>1, <2>6, <2>9 DEF CloseMissing
  <2>. QED BY <1>0, <2>13, <2>14, <2>15, HandlerSound
<1>8. ASSUME Update PROVE Sound'
  <2>1. PICK e : e = update(dir)
    OBVIOUS
  <2>2. Tidy(e) /\ (path = "ok" => Right(e))
    BY <1>0, <2>1, UpdateTidy
  <2>3. dir' = e /\ disk' = disk /\ path' = path /\ event' = event
    BY <1>8, <2>1 DEF Update
  <2>. QED BY <1>0, <2>2, <2>3, HandlerSound
<1>9. ASSUME NEW n \in Names, CheckThis(n) PROVE Sound'
  <2>1. PICK e : e = insert_item(dir, n)
    OBVIOUS
  <2>2. \E k, l \in Spare(dir, n) : k # l
    BY <1>0, <1>9, RoomIs DEF CheckThis
  <2>3. Tidy(e) /\ (path = "ok" /\ Right(dir) => Right(e))
    BY <1>0, <2>1, <2>2, InsertRight
  <2>4. dir' = e /\ disk' = disk /\ path' = path /\ event' = event
    BY <1>9, <2>1 DEF CheckThis
  <2>. QED BY <1>0, <2>3, <2>4, HandlerSound
<1>10. ASSUME NEW n \in Names, UpdateItem(n) PROVE Sound'
  <2>1. PICK d : d = insert_item(dir, n)
    OBVIOUS
  <2>2. \E k, l \in Spare(dir, n) : k # l
    BY <1>0, <1>10, RoomIs DEF UpdateItem
  <2>3. Tidy(d) /\ (path = "ok" /\ Right(dir) => Right(d))
    BY <1>0, <2>1, <2>2, InsertRight
  <2>4. PICK e : e = dir_merge_new(d)
    OBVIOUS
  <2>5. Tidy(e) /\ (Right(d) => Right(e))
    BY <2>3, <2>4, MergeRight
  <2>6. dir' = e /\ disk' = disk /\ path' = path /\ event' = event
    BY <1>10, <2>1, <2>4 DEF UpdateItem
  <2>. QED BY <1>0, <2>3, <2>5, <2>6, HandlerSound
<1>11. ASSUME NEW n \in Names, ForceUpdate(n) PROVE Sound'
  <2>1. PICK S : S = Known(dir, n)
    OBVIOUS
  <2>2. S \subseteq dir.known_items
    BY <2>1 DEF Known
  <2>3. PICK e : e = NotifyUpdate(dir, S)
    OBVIOUS
  <2>4. Tidy(e) /\ (Right(dir) => Right(e))
    BY <1>0, <2>2, <2>3, RedrawTidy
  <2>5. dir' = e /\ disk' = disk /\ path' = path /\ event' = event
    BY <1>11, <2>1, <2>3 DEF ForceUpdate
  <2>. QED BY <1>0, <2>4, <2>5, HandlerSound
<1>12. ASSUME NEW n \in Names, ChangeFile(n) PROVE Sound'
  <2>1. PICK v \in Versions \cup {Absent} : disk' = [disk EXCEPT ![n] = v]
    BY <1>12 DEF ChangeFile
  <2>2. v \in Vers
    BY <2>1 DEF Vers
  <2>3. disk' \in [Names -> Vers]
    BY <1>0, <2>1, <2>2
  <2>. QED BY <1>12, <2>3, NoticedSound DEF ChangeFile
<1>13. ASSUME ChangePath PROVE Sound'
  <2>1. disk' = disk \/ disk' = [n \in Names |-> Absent]
    BY <1>13 DEF ChangePath
  <2>2. disk' \in [Names -> Vers]
    BY <1>0, <2>1 DEF Vers
  <2>. QED BY <1>13, <2>2, NoticedSound DEF ChangePath
<1>14. CASE UNCHANGED vars
  <2>1. PICK e : e = dir
    OBVIOUS
  <2>2. dir' = e /\ disk' = disk /\ path' = path /\ event' = event
    BY <1>14, <2>1 DEF vars
  <2>. QED BY <1>0, <2>1, <2>2, HandlerSound
<1>. QED BY <1>1, <1>2, <1>3, <1>4, <1>5, <1>6, <1>7, <1>8, <1>9, <1>10, <1>11,
            <1>12, <1>13, <1>14 DEF Next

LEMMA InductiveSound == Spec => [](IInv /\ Sound)
<1>1. Init => IInv /\ Sound
  BY InitGood, InitSound
<1>2. (IInv /\ Sound) /\ [Next]_vars => (IInv /\ Sound)'
  BY StepGood, StepSound
<1>. QED BY <1>1, <1>2, PTL DEF Spec

-----------------------------------------------------------------------------

\* With close_dir_when_missing on, no window is given an item that diritem_free has freed
\* or meets one in its view, and no list keeps one (the counts of dir_merge_new and
\* remove_missing, and the names if_deleted goes by).
THEOREM NoFreedItemUsedHolds == CloseWhenMissing => (Spec => []NoFreedItemUsed)
<1> SUFFICES ASSUME CloseWhenMissing PROVE Spec => []NoFreedItemUsed
  OBVIOUS
<1>1. Sound => NoFreedItemUsed
  BY DEF Sound, Tidy, Unharmed, NoFreedItemUsed
<1>. QED BY <1>1, InductiveSound, PTL

\* When nothing is under way or owed, the lists are those of the files, and the windows
\* show them.
LEMMA QuietIs ==
    ASSUME IInv, Sound, Quiet, NEW u \in Settled
    PROVE  /\ u \in dir.users /\ Caught(dir) /\ Painted(dir)
           /\ dir.recheck_list = {} /\ dir.up_items = {} /\ dir.known_items \subseteq Items
<1>1. path = "ok" /\ ~dir.missed /\ u \in dir.users
  BY DEF Settled
<1>2. ~dir.needs_update
  BY <1>1 DEF Quiet, IInv, Good, Owed
<1>3. dir.recheck_list = {} /\ dir.up_items = {}
  BY <1>1 DEF Quiet, IInv, Good, Working, Flushed, Pending
<1>4. Caught(dir)
  BY <1>1, <1>2 DEF Sound, Right, Quiet
<1>5. Painted(dir)
  BY <1>4 DEF Caught, Quiet
<1>. QED BY <1>1, <1>3, <1>4, <1>5 DEF Sound, Tidy, Typed

\* Once everything is quiet each window shows each file it should, once, whatever was
\* lost, repeated or told out of order on the way (dir_merge_new, dir_rescan, dir_attach).
THEOREM QuietMeansCompleteHolds == Spec => []QuietMeansComplete
<1>1. IInv /\ Sound => QuietMeansComplete
  <2> SUFFICES ASSUME IInv, Sound, Quiet, NEW u \in Settled
               PROVE  /\ Shown(u) = ShouldShow(u)
                      /\ \A p, q \in dir.view[u] : Name(p[1]) = Name(q[1]) => p = q
    BY DEF QuietMeansComplete
  <2>1. /\ u \in dir.users /\ Content(dir) /\ Painted(dir) /\ dir.known_items \subseteq Items
    BY QuietIs DEF Caught
  <2>2. \A i, j \in dir.known_items : Name(i) = Name(j) => i = j
    BY DEF Sound, Tidy, Apart
  <2>3. /\ \A p \in dir.view[u] : p[1] \in dir.known_items /\ Name(p[1]) \in Shows[u]
        /\ \A i \in dir.known_items : Name(i) \in Shows[u] => \E p \in dir.view[u] : p[1] = i
        /\ \A p, q \in dir.view[u] : p[1] = q[1] => p = q
    BY <2>1 DEF Painted
  <2>4. \A n \in Names : (\E i \in dir.known_items : Name(i) = n) <=> disk[n] # Absent
    BY <2>1 DEF Content, ContentAs, Known
  <2>5. \A i \in dir.known_items : Name(i) \in Names
    BY <2>1 DEF Items, Name
  <2>6. Shows[u] \subseteq Names
    <3>1. u \in Users
      BY <2>1 DEF Sound, Tidy, Typed
    <3>. QED BY <3>1, DirectoryAssumption
  <2>7. ASSUME NEW n \in Shown(u) PROVE n \in ShouldShow(u)
    BY <2>3, <2>4, <2>5, <2>7 DEF Shown, ShouldShow
  <2>8. ASSUME NEW n \in ShouldShow(u) PROVE n \in Shown(u)
    BY <2>3, <2>4, <2>6, <2>8 DEF Shown, ShouldShow
  <2>9. \A p, q \in dir.view[u] : Name(p[1]) = Name(q[1]) => p = q
    BY <2>2, <2>3
  <2>. QED BY <2>7, <2>8, <2>9
<1>. QED BY <1>1, InductiveSound, PTL

\* Once everything is quiet an item that no scan means to examine is displayed as the file
\* is on disk: no restat result and no redraw is lost (insert_item, delayed_notify).
THEOREM QuietMeansFreshHolds == Spec => []QuietMeansFresh
<1>1. IInv /\ Sound => QuietMeansFresh
  <2> SUFFICES ASSUME IInv, Sound, Quiet, NEW u \in Settled, NEW p \in dir.view[u],
                      ~dir.item[p[1]].need
               PROVE  p[2] = disk[Name(p[1])]
    BY DEF QuietMeansFresh
  <2>1. /\ u \in dir.users /\ Content(dir) /\ Painted(dir)
        /\ dir.recheck_list = {} /\ dir.up_items = {}
    BY QuietIs DEF Caught
  <2>2. p[1] \in dir.known_items /\ p[2] = dir.item[p[1]].ver
    BY <2>1 DEF Painted
  <2>3. dir.item[p[1]].ver = disk[Name(p[1])]
    BY <2>1, <2>2 DEF Content, ContentAs
  <2>. QED BY <2>2, <2>3
<1>. QED BY <1>1, InductiveSound, PTL

LEMMA CountOK == (changes \in 0..MaxChanges) /\ [Next]_vars => (changes \in 0..MaxChanges)'
<1> SUFFICES ASSUME changes \in 0..MaxChanges, [Next]_vars PROVE changes' \in 0..MaxChanges
  OBVIOUS
<1>1. CASE changes' = changes
  BY <1>1
<1>2. CASE changes < MaxChanges /\ changes' = changes + 1
  BY <1>2, DirectoryAssumption
<1>3. changes' = changes \/ (changes < MaxChanges /\ changes' = changes + 1)
  BY DEF Next, Attach, Detach, Recheck, MonitorEvent, RescanTimeout, NotifyTimeout,
         CloseMissing, Update, CheckThis, UpdateItem, ForceUpdate, ChangeFile, ChangePath,
         Noticed, vars
<1>. QED BY <1>1, <1>2, <1>3

\* Every variable and every field of a Directory is of its type.
THEOREM TypeCorrect == Spec => []TypeOK
<1>1. Init => changes \in 0..MaxChanges
  BY DirectoryAssumption DEF Init
<1>2. IInv /\ Sound /\ changes \in 0..MaxChanges => TypeOK
  <2> SUFFICES ASSUME IInv, Sound, changes \in 0..MaxChanges PROVE TypeOK
    OBVIOUS
  <2>1. /\ disk \in [Names -> Versions \cup {Absent}] /\ event \in BOOLEAN
        /\ Typed(dir) /\ Apart(dir)
    BY DEF Sound, Outside, Tidy, Vers
  <2>2. dir.busy \subseteq Users
    BY <2>1 DEF IInv, Good, Busy, Typed
  <2>. QED BY <2>1, <2>2 DEF TypeOK, IInv, Good, Typed, Shape, Apart, Seen, Vers
<1>. QED BY <1>1, <1>2, CountOK, InductiveSound, PTL DEF Spec
=============================================================================
