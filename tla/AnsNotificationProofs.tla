------------------------- MODULE AnsNotificationProofs -------------------------
(* Theorems about AnsNotification, for any threads, requests and starts of the *)
(* service: a call is carried as it was made, and what the service is asked to *)
(* publish is what the client lets through.                                    *)
EXTENDS AnsNotification, SequenceTheorems, TLAPS

----------------------------------------------------------------------------
(* The tables, joined by the name of the method.                               *)

Has(table, part) == \A row \in DOMAIN part : row \in DOMAIN table /\ table[row] = part[row]

LEMMA JoinedHas ==
  ASSUME NEW tables, NEW i \in DOMAIN tables,
         \A j \in DOMAIN tables : j # i => DOMAIN tables[i] \cap DOMAIN tables[j] = {}
  PROVE  Has(Joined(tables), tables[i])
<1> SUFFICES ASSUME NEW row \in DOMAIN tables[i]
             PROVE  row \in DOMAIN Joined(tables) /\ Joined(tables)[row] = tables[i][row]
  BY DEF Has
<1>1. row \in UNION {DOMAIN tables[j] : j \in DOMAIN tables}
  OBVIOUS
<1>2. (CHOOSE j \in DOMAIN tables : row \in DOMAIN tables[j]) = i
  OBVIOUS
<1> QED BY <1>1, <1>2 DEF Joined

(* No client function is in two of the nine tables, so each row is found.      *)
LEMMA ClientRows ==
  /\ Has(Client, ClientSlots)
  /\ Has(Client, ClientPublish)
  /\ Has(Client, ClientAgents)
  /\ Has(Client, ClientSubscribe)
  /\ Has(Client, ClientRemove)
  /\ Has(Client, ClientBadge)
  /\ Has(Client, ClientDistributed)
  /\ Has(Client, ClientReminders)
  /\ Has(Client, ClientByUser)
  /\ DOMAIN Client \subseteq DOMAIN ClientSlots \cup DOMAIN ClientPublish
      \cup DOMAIN ClientAgents \cup DOMAIN ClientSubscribe
      \cup DOMAIN ClientRemove \cup DOMAIN ClientBadge
      \cup DOMAIN ClientDistributed \cup DOMAIN ClientReminders
      \cup DOMAIN ClientByUser
<1> DEFINE tables == <<ClientSlots, ClientPublish, ClientAgents,
                       ClientSubscribe, ClientRemove, ClientBadge,
                       ClientDistributed, ClientReminders, ClientByUser>>
           from9 == DOMAIN ClientByUser
           from8 == DOMAIN ClientReminders \cup from9
           from7 == DOMAIN ClientDistributed \cup from8
           from6 == DOMAIN ClientBadge \cup from7
           from5 == DOMAIN ClientRemove \cup from6
           from4 == DOMAIN ClientSubscribe \cup from5
           from3 == DOMAIN ClientAgents \cup from4
           from2 == DOMAIN ClientPublish \cup from3
<1>1. DOMAIN ClientSlots \cap from2 = {}
  BY DEF ClientSlots, ClientPublish, ClientAgents, ClientSubscribe,
         ClientRemove, ClientBadge, ClientDistributed, ClientReminders,
         ClientByUser
<1>2. DOMAIN ClientPublish \cap from3 = {}
  BY DEF ClientPublish, ClientAgents, ClientSubscribe, ClientRemove,
         ClientBadge, ClientDistributed, ClientReminders, ClientByUser
<1>3. DOMAIN ClientAgents \cap from4 = {}
  BY DEF ClientAgents, ClientSubscribe, ClientRemove, ClientBadge,
         ClientDistributed, ClientReminders, ClientByUser
<1>4. DOMAIN ClientSubscribe \cap from5 = {}
  BY DEF ClientSubscribe, ClientRemove, ClientBadge, ClientDistributed,
         ClientReminders, ClientByUser
<1>5. DOMAIN ClientRemove \cap from6 = {}
  BY DEF ClientRemove, ClientBadge, ClientDistributed, ClientReminders,
         ClientByUser
<1>6. DOMAIN ClientBadge \cap from7 = {}
  BY DEF ClientBadge, ClientDistributed, ClientReminders, ClientByUser
<1>7. DOMAIN ClientDistributed \cap from8 = {}
  BY DEF ClientDistributed, ClientReminders, ClientByUser
<1>8. DOMAIN ClientReminders \cap from9 = {}
  BY DEF ClientReminders, ClientByUser
<1>9. Client = Joined(tables)
  BY DEF Client
<1>10. DOMAIN tables = 1 .. 9
  OBVIOUS
<1>11. /\ tables[1] = ClientSlots /\ tables[2] = ClientPublish
       /\ tables[3] = ClientAgents /\ tables[4] = ClientSubscribe
       /\ tables[5] = ClientRemove /\ tables[6] = ClientBadge
       /\ tables[7] = ClientDistributed /\ tables[8] = ClientReminders
       /\ tables[9] = ClientByUser
  OBVIOUS
<1> HIDE DEF tables
<1>12. ASSUME NEW i \in DOMAIN tables, NEW j \in DOMAIN tables, i < j
      PROVE  DOMAIN tables[i] \cap DOMAIN tables[j] = {}
  BY <1>1, <1>2, <1>3, <1>4, <1>5, <1>6, <1>7, <1>8, <1>10, <1>11, <1>12
<1>13. \A i \in DOMAIN tables : Has(Client, tables[i])
  <2> TAKE i \in DOMAIN tables
  <2>1. ASSUME NEW j \in DOMAIN tables, j # i
        PROVE  DOMAIN tables[i] \cap DOMAIN tables[j] = {}
    BY <1>10, <1>12, <2>1
  <2> QED BY <1>9, <2>1, JoinedHas
<1>14. \A row \in DOMAIN Client : \E i \in DOMAIN tables : row \in DOMAIN tables[i]
  BY <1>9 DEF Joined
<1> QED BY <1>10, <1>11, <1>13, <1>14

(* So it is with the handlers of the stub,                                     *)
LEMMA StubRows ==
  /\ Has(AnsManagerStub, HandlePublish)
  /\ Has(AnsManagerStub, HandleSlots)
  /\ Has(AnsManagerStub, HandleActive)
  /\ Has(AnsManagerStub, HandlePolicy)
  /\ Has(AnsManagerStub, HandleRemove)
  /\ Has(AnsManagerStub, HandleEnable)
  /\ Has(AnsManagerStub, HandleSubscribe)
  /\ Has(AnsManagerStub, HandleAllowed)
  /\ Has(AnsManagerStub, HandleReminders)
  /\ Has(AnsManagerStub, HandleByUser)
  /\ Has(AnsManagerStub, HandleBundleSlots)
  /\ DOMAIN AnsManagerStub \subseteq DOMAIN HandlePublish
      \cup DOMAIN HandleSlots \cup DOMAIN HandleActive \cup DOMAIN HandlePolicy
      \cup DOMAIN HandleRemove \cup DOMAIN HandleEnable
      \cup DOMAIN HandleSubscribe \cup DOMAIN HandleAllowed
      \cup DOMAIN HandleReminders \cup DOMAIN HandleByUser
      \cup DOMAIN HandleBundleSlots
<1> DEFINE tables == <<HandlePublish, HandleSlots, HandleActive, HandlePolicy,
                       HandleRemove, HandleEnable, HandleSubscribe,
                       HandleAllowed, HandleReminders, HandleByUser,
                       HandleBundleSlots>>
           from11 == DOMAIN HandleBundleSlots
           from10 == DOMAIN HandleByUser \cup from11
           from9 == DOMAIN HandleReminders \cup from10
           from8 == DOMAIN HandleAllowed \cup from9
           from7 == DOMAIN HandleSubscribe \cup from8
           from6 == DOMAIN HandleEnable \cup from7
           from5 == DOMAIN HandleRemove \cup from6
           from4 == DOMAIN HandlePolicy \cup from5
           from3 == DOMAIN HandleActive \cup from4
           from2 == DOMAIN HandleSlots \cup from3
<1>1. DOMAIN HandlePublish \cap from2 = {}
  BY DEF HandlePublish, HandleSlots, HandleActive, HandlePolicy, HandleRemove,
         HandleEnable, HandleSubscribe, HandleAllowed, HandleReminders,
         HandleByUser, HandleBundleSlots
<1>2. DOMAIN HandleSlots \cap from3 = {}
  BY DEF HandleSlots, HandleActive, HandlePolicy, HandleRemove, HandleEnable,
         HandleSubscribe, HandleAllowed, HandleReminders, HandleByUser,
         HandleBundleSlots
<1>3. DOMAIN HandleActive \cap from4 = {}
  BY DEF HandleActive, HandlePolicy, HandleRemove, HandleEnable,
         HandleSubscribe, HandleAllowed, HandleReminders, HandleByUser,
         HandleBundleSlots
<1>4. DOMAIN HandlePolicy \cap from5 = {}
  BY DEF HandlePolicy, HandleRemove, HandleEnable, HandleSubscribe,
         HandleAllowed, HandleReminders, HandleByUser, HandleBundleSlots
<1>5. DOMAIN HandleRemove \cap from6 = {}
  BY DEF HandleRemove, HandleEnable, HandleSubscribe, HandleAllowed,
         HandleReminders, HandleByUser, HandleBundleSlots
<1>6. DOMAIN HandleEnable \cap from7 = {}
  BY DEF HandleEnable, HandleSubscribe, HandleAllowed, HandleReminders,
         HandleByUser, HandleBundleSlots
<1>7. DOMAIN HandleSubscribe \cap from8 = {}
  BY DEF HandleSubscribe, HandleAllowed, HandleReminders, HandleByUser,
         HandleBundleSlots
<1>8. DOMAIN HandleAllowed \cap from9 = {}
  BY DEF HandleAllowed, HandleReminders, HandleByUser, HandleBundleSlots
<1>9. DOMAIN HandleReminders \cap from10 = {}
  BY DEF HandleReminders, HandleByUser, HandleBundleSlots
<1>10. DOMAIN HandleByUser \cap from11 = {}
  BY DEF HandleByUser, HandleBundleSlots
<1>11. AnsManagerStub = Joined(tables)
  BY DEF AnsManagerStub
<1>12. DOMAIN tables = 1 .. 11
  OBVIOUS
<1>13. /\ tables[1] = HandlePublish /\ tables[2] = HandleSlots
       /\ tables[3] = HandleActive /\ tables[4] = HandlePolicy
       /\ tables[5] = HandleRemove /\ tables[6] = HandleEnable
       /\ tables[7] = HandleSubscribe /\ tables[8] = HandleAllowed
       /\ tables[9] = HandleReminders /\ tables[10] = HandleByUser
       /\ tables[11] = HandleBundleSlots
  OBVIOUS
<1> HIDE DEF tables
<1>14. ASSUME NEW i \in DOMAIN tables, NEW j \in DOMAIN tables, i < j
      PROVE  DOMAIN tables[i] \cap DOMAIN tables[j] = {}
  BY <1>1, <1>2, <1>3, <1>4, <1>5, <1>6, <1>7, <1>8, <1>9, <1>10, <1>12,
     <1>13, <1>14
<1>15. \A i \in DOMAIN tables : Has(AnsManagerStub, tables[i])
  <2> TAKE i \in DOMAIN tables
  <2>1. ASSUME NEW j \in DOMAIN tables, j # i
        PROVE  DOMAIN tables[i] \cap DOMAIN tables[j] = {}
    BY <1>12, <1>14, <2>1
  <2> QED BY <1>11, <2>1, JoinedHas
<1>16. \A row \in DOMAIN AnsManagerStub : \E i \in DOMAIN tables : row \in DOMAIN tables[i]
  BY <1>11 DEF Joined
<1> QED BY <1>12, <1>13, <1>15, <1>16

(* and with the methods of the proxy.                                          *)
LEMMA ProxyRows ==
  /\ Has(AnsManagerProxy, ProxyPublish)
  /\ Has(AnsManagerProxy, ProxyCancel)
  /\ Has(AnsManagerProxy, ProxySlots)
  /\ Has(AnsManagerProxy, ProxySlotGroups)
  /\ Has(AnsManagerProxy, ProxyActive)
  /\ Has(AnsManagerProxy, ProxyAgents)
  /\ Has(AnsManagerProxy, ProxyPolicy)
  /\ Has(AnsManagerProxy, ProxyRemove)
  /\ Has(AnsManagerProxy, ProxyUpdate)
  /\ Has(AnsManagerProxy, ProxyEnable)
  /\ Has(AnsManagerProxy, ProxyBadge)
  /\ Has(AnsManagerProxy, ProxySubscribe)
  /\ Has(AnsManagerProxy, ProxyAllowed)
  /\ Has(AnsManagerProxy, ProxyGroups)
  /\ Has(AnsManagerProxy, ProxyDistributed)
  /\ Has(AnsManagerProxy, ProxyDump)
  /\ Has(AnsManagerProxy, ProxyReminders)
  /\ Has(AnsManagerProxy, ProxyAllReminders)
  /\ Has(AnsManagerProxy, ProxyByUser)
  /\ Has(AnsManagerProxy, ProxyBundleSlots)
  /\ DOMAIN AnsManagerProxy \subseteq DOMAIN ProxyPublish
      \cup DOMAIN ProxyCancel \cup DOMAIN ProxySlots \cup DOMAIN ProxySlotGroups
      \cup DOMAIN ProxyActive \cup DOMAIN ProxyAgents \cup DOMAIN ProxyPolicy
      \cup DOMAIN ProxyRemove \cup DOMAIN ProxyUpdate \cup DOMAIN ProxyEnable
      \cup DOMAIN ProxyBadge \cup DOMAIN ProxySubscribe \cup DOMAIN ProxyAllowed
      \cup DOMAIN ProxyGroups \cup DOMAIN ProxyDistributed \cup DOMAIN ProxyDump
      \cup DOMAIN ProxyReminders \cup DOMAIN ProxyAllReminders
      \cup DOMAIN ProxyByUser \cup DOMAIN ProxyBundleSlots
<1> DEFINE tables == <<ProxyPublish, ProxyCancel, ProxySlots, ProxySlotGroups,
                       ProxyActive, ProxyAgents, ProxyPolicy, ProxyRemove,
                       ProxyUpdate, ProxyEnable, ProxyBadge, ProxySubscribe,
                       ProxyAllowed, ProxyGroups, ProxyDistributed, ProxyDump,
                       ProxyReminders, ProxyAllReminders, ProxyByUser,
                       ProxyBundleSlots>>
           from20 == DOMAIN ProxyBundleSlots
           from19 == DOMAIN ProxyByUser \cup from20
           from18 == DOMAIN ProxyAllReminders \cup from19
           from17 == DOMAIN ProxyReminders \cup from18
           from16 == DOMAIN ProxyDump \cup from17
           from15 == DOMAIN ProxyDistributed \cup from16
           from14 == DOMAIN ProxyGroups \cup from15
           from13 == DOMAIN ProxyAllowed \cup from14
           from12 == DOMAIN ProxySubscribe \cup from13
           from11 == DOMAIN ProxyBadge \cup from12
           from10 == DOMAIN ProxyEnable \cup from11
           from9 == DOMAIN ProxyUpdate \cup from10
           from8 == DOMAIN ProxyRemove \cup from9
           from7 == DOMAIN ProxyPolicy \cup from8
           from6 == DOMAIN ProxyAgents \cup from7
           from5 == DOMAIN ProxyActive \cup from6
           from4 == DOMAIN ProxySlotGroups \cup from5
           from3 == DOMAIN ProxySlots \cup from4
           from2 == DOMAIN ProxyCancel \cup from3
<1>1. DOMAIN ProxyPublish \cap from2 = {}
  BY DEF ProxyPublish, ProxyCancel, ProxySlots, ProxySlotGroups, ProxyActive,
         ProxyAgents, ProxyPolicy, ProxyRemove, ProxyUpdate, ProxyEnable,
         ProxyBadge, ProxySubscribe, ProxyAllowed, ProxyGroups,
         ProxyDistributed, ProxyDump, ProxyReminders, ProxyAllReminders,
         ProxyByUser, ProxyBundleSlots
<1>2. DOMAIN ProxyCancel \cap from3 = {}
  BY DEF ProxyCancel, ProxySlots, ProxySlotGroups, ProxyActive, ProxyAgents,
         ProxyPolicy, ProxyRemove, ProxyUpdate, ProxyEnable, ProxyBadge,
         ProxySubscribe, ProxyAllowed, ProxyGroups, ProxyDistributed,
         ProxyDump, ProxyReminders, ProxyAllReminders, ProxyByUser,
         ProxyBundleSlots
<1>3. DOMAIN ProxySlots \cap from4 = {}
  BY DEF ProxySlots, ProxySlotGroups, ProxyActive, ProxyAgents, ProxyPolicy,
         ProxyRemove, ProxyUpdate, ProxyEnable, ProxyBadge, ProxySubscribe,
         ProxyAllowed, ProxyGroups, ProxyDistributed, ProxyDump,
         ProxyReminders, ProxyAllReminders, ProxyByUser, ProxyBundleSlots
<1>4. DOMAIN ProxySlotGroups \cap from5 = {}
  BY DEF ProxySlotGroups, ProxyActive, ProxyAgents, ProxyPolicy, ProxyRemove,
         ProxyUpdate, ProxyEnable, ProxyBadge, ProxySubscribe, ProxyAllowed,
         ProxyGroups, ProxyDistributed, ProxyDump, ProxyReminders,
         ProxyAllReminders, ProxyByUser, ProxyBundleSlots
<1>5. DOMAIN ProxyActive \cap from6 = {}
  BY DEF ProxyActive, ProxyAgents, ProxyPolicy, ProxyRemove, ProxyUpdate,
         ProxyEnable, ProxyBadge, ProxySubscribe, ProxyAllowed, ProxyGroups,
         ProxyDistributed, ProxyDump, ProxyReminders, ProxyAllReminders,
         ProxyByUser, ProxyBundleSlots
<1>6. DOMAIN ProxyAgents \cap from7 = {}
  BY DEF ProxyAgents, ProxyPolicy, ProxyRemove, ProxyUpdate, ProxyEnable,
         ProxyBadge, ProxySubscribe, ProxyAllowed, ProxyGroups,
         ProxyDistributed, ProxyDump, ProxyReminders, ProxyAllReminders,
         ProxyByUser, ProxyBundleSlots
<1>7. DOMAIN ProxyPolicy \cap from8 = {}
  BY DEF ProxyPolicy, ProxyRemove, ProxyUpdate, ProxyEnable, ProxyBadge,
         ProxySubscribe, ProxyAllowed, ProxyGroups, ProxyDistributed,
         ProxyDump, ProxyReminders, ProxyAllReminders, ProxyByUser,
         ProxyBundleSlots
<1>8. DOMAIN ProxyRemove \cap from9 = {}
  BY DEF ProxyRemove, ProxyUpdate, ProxyEnable, ProxyBadge, ProxySubscribe,
         ProxyAllowed, ProxyGroups, ProxyDistributed, ProxyDump,
         ProxyReminders, ProxyAllReminders, ProxyByUser, ProxyBundleSlots
<1>9. DOMAIN ProxyUpdate \cap from10 = {}
  BY DEF ProxyUpdate, ProxyEnable, ProxyBadge, ProxySubscribe, ProxyAllowed,
         ProxyGroups, ProxyDistributed, ProxyDump, ProxyReminders,
         ProxyAllReminders, ProxyByUser, ProxyBundleSlots
<1>10. DOMAIN ProxyEnable \cap from11 = {}
  BY DEF ProxyEnable, ProxyBadge, ProxySubscribe, ProxyAllowed, ProxyGroups,
         ProxyDistributed, ProxyDump, ProxyReminders, ProxyAllReminders,
         ProxyByUser, ProxyBundleSlots
<1>11. DOMAIN ProxyBadge \cap from12 = {}
  BY DEF ProxyBadge, ProxySubscribe, ProxyAllowed, ProxyGroups,
         ProxyDistributed, ProxyDump, ProxyReminders, ProxyAllReminders,
         ProxyByUser, ProxyBundleSlots
<1>12. DOMAIN ProxySubscribe \cap from13 = {}
  BY DEF ProxySubscribe, ProxyAllowed, ProxyGroups, ProxyDistributed,
         ProxyDump, ProxyReminders, ProxyAllReminders, ProxyByUser,
         ProxyBundleSlots
<1>13. DOMAIN ProxyAllowed \cap from14 = {}
  BY DEF ProxyAllowed, ProxyGroups, ProxyDistributed, ProxyDump,
         ProxyReminders, ProxyAllReminders, ProxyByUser, ProxyBundleSlots
<1>14. DOMAIN ProxyGroups \cap from15 = {}
  BY DEF ProxyGroups, ProxyDistributed, ProxyDump, ProxyReminders,
         ProxyAllReminders, ProxyByUser, ProxyBundleSlots
<1>15. DOMAIN ProxyDistributed \cap from16 = {}
  BY DEF ProxyDistributed, ProxyDump, ProxyReminders, ProxyAllReminders,
         ProxyByUser, ProxyBundleSlots
<1>16. DOMAIN ProxyDump \cap from17 = {}
  BY DEF ProxyDump, ProxyReminders, ProxyAllReminders, ProxyByUser,
         ProxyBundleSlots
<1>17. DOMAIN ProxyReminders \cap from18 = {}
  BY DEF ProxyReminders, ProxyAllReminders, ProxyByUser, ProxyBundleSlots
<1>18. DOMAIN ProxyAllReminders \cap from19 = {}
  BY DEF ProxyAllReminders, ProxyByUser, ProxyBundleSlots
<1>19. DOMAIN ProxyByUser \cap from20 = {}
  BY DEF ProxyByUser, ProxyBundleSlots
<1>20. AnsManagerProxy = Joined(tables)
  BY DEF AnsManagerProxy
<1>21. DOMAIN tables = 1 .. 20
  OBVIOUS
<1>22. /\ tables[1] = ProxyPublish /\ tables[2] = ProxyCancel
       /\ tables[3] = ProxySlots /\ tables[4] = ProxySlotGroups
       /\ tables[5] = ProxyActive /\ tables[6] = ProxyAgents
       /\ tables[7] = ProxyPolicy /\ tables[8] = ProxyRemove
       /\ tables[9] = ProxyUpdate /\ tables[10] = ProxyEnable
       /\ tables[11] = ProxyBadge /\ tables[12] = ProxySubscribe
       /\ tables[13] = ProxyAllowed /\ tables[14] = ProxyGroups
       /\ tables[15] = ProxyDistributed /\ tables[16] = ProxyDump
       /\ tables[17] = ProxyReminders /\ tables[18] = ProxyAllReminders
       /\ tables[19] = ProxyByUser /\ tables[20] = ProxyBundleSlots
  OBVIOUS
<1> HIDE DEF tables
<1>23. ASSUME NEW i \in DOMAIN tables, NEW j \in DOMAIN tables, i < j
      PROVE  DOMAIN tables[i] \cap DOMAIN tables[j] = {}
  BY <1>1, <1>2, <1>3, <1>4, <1>5, <1>6, <1>7, <1>8, <1>9, <1>10, <1>11,
     <1>12, <1>13, <1>14, <1>15, <1>16, <1>17, <1>18, <1>19, <1>21, <1>22,
     <1>23
<1>24. \A i \in DOMAIN tables : Has(AnsManagerProxy, tables[i])
  <2> TAKE i \in DOMAIN tables
  <2>1. ASSUME NEW j \in DOMAIN tables, j # i
        PROVE  DOMAIN tables[i] \cap DOMAIN tables[j] = {}
    BY <1>21, <1>23, <2>1
  <2> QED BY <1>20, <2>1, JoinedHas
<1>25. \A row \in DOMAIN AnsManagerProxy : \E i \in DOMAIN tables : row \in DOMAIN tables[i]
  BY <1>20 DEF Joined
<1> QED BY <1>21, <1>22, <1>24, <1>25

----------------------------------------------------------------------------
(* A handler fits a method: it reads from the parcel of the call, in the same  *)
(* places, what the method writes, and the method finds what it awaits, when   *)
(* the service did the call and when it refused.                               *)
Begins(awaited, written) ==
  \A i \in DOMAIN awaited : /\ i \in DOMAIN written
                            /\ awaited[i].type = written[i].type
                            /\ awaited[i].name = written[i].name

SameItems(written, read) == DOMAIN written = DOMAIN read /\ Begins(read, written)

Fits(method, handler) ==
  /\ handler.from = "data"
  /\ SameItems(method.writes, handler.reads)
  /\ SameItems(handler.writes \o handler.writesIfOk, method.awaits \o method.awaitsIfOk)
  /\ Begins(method.awaits \o <<>>, handler.writes \o <<>>)
  /\ "null" \notin Names(method.awaits \o method.awaitsIfOk)
  /\ handler.returns # "result" => "result" \in Names(method.awaits \o <<>>)

(* Parcels of one and of two items.                                            *)
LEMMA Shorts ==
  ASSUME NEW a, NEW b
  PROVE  /\ <<>> \o <<>> = <<>>
         /\ <<a>> \o <<>> = <<a>>
         /\ <<>> \o <<a>> = <<a>>
         /\ <<a>> \o <<b>> = <<a, b>>
<1> DEFINE S == {a, b}
<1>1. <<>> \in Seq(S) /\ <<a>> \in Seq(S) /\ <<b>> \in Seq(S)
  OBVIOUS
<1>2. <<>> \o <<>> = <<>> /\ <<a>> \o <<>> = <<a>> /\ <<>> \o <<a>> = <<a>>
  BY <1>1, ConcatEmptySeq
<1>3. <<a>> \o <<b>> = <<a, b>>
  <2> HIDE DEF S
  <2>1. <<a>> \o <<b>> \in Seq(S) /\ Len(<<a>> \o <<b>>) = 2
    BY <1>1, ConcatProperties
  <2>2. (<<a>> \o <<b>>)[1] = a /\ (<<a>> \o <<b>>)[2] = b
    BY <1>1, ConcatProperties
  <2>3. <<a, b>> \in Seq(S) /\ Len(<<a, b>>) = 2
    BY DEF S
  <2>4. \A i \in 1 .. Len(<<a>> \o <<b>>) : (<<a>> \o <<b>>)[i] = <<a, b>>[i]
    BY <2>1, <2>2
  <2> QED BY <2>1, <2>3, <2>4, SeqEqual
<1> QED BY <1>2, <1>3

Agree(a, b) == a.type = b.type /\ a.name = b.name

LEMMA SameItemsOf ==
  /\ SameItems(<<>>, <<>>)
  /\ \A a, x : Agree(a, x) => SameItems(<<a>>, <<x>>)
  /\ \A a, b, x, y : Agree(a, x) /\ Agree(b, y) => SameItems(<<a, b>>, <<x, y>>)
  /\ \A a, b, c, x, y, z :
       Agree(a, x) /\ Agree(b, y) /\ Agree(c, z) => SameItems(<<a, b, c>>, <<x, y, z>>)
BY DEF SameItems, Begins, Agree

(* The pairs of a method and a handler.                                        *)
LEMMA DoesFits ==
  ASSUME NEW writes, NEW reads, SameItems(writes, reads)
  PROVE  Fits(Tells(writes), Does(reads))
<1>1. "result" \in Names(<<Result>>) /\ "null" \notin Names(<<Result>>)
  BY DEF Names, Result, I32, Item
<1> QED BY <1>1, Shorts, SameItemsOf DEF Fits, Tells, Asks, Does, Answers, Agree, SameItems

LEMMA AnswersFits ==
  ASSUME NEW writes, NEW reads, SameItems(writes, reads),
         NEW put, put.name # "null"
  PROVE  /\ Fits(Gets(writes, <<put>>), Answers(reads, <<put>>, <<>>))
         /\ Fits(Asks(writes, <<>>, <<put>>), Answers(reads, <<put>>, <<>>))
         /\ Fits(Asks(writes, <<>>, <<put>>), Answers(reads, <<>>, <<put>>))
<1>1. "result" \in Names(<<Result>>) /\ "result" \in Names(<<Result, put>>)
  BY DEF Names, Result, I32, Item
<1>2. "null" \notin Names(<<Result>>) /\ "null" \notin Names(<<Result, put>>)
  BY DEF Names, Result, I32, Item
<1>3. /\ SameItems(<<Result, put>>, <<Result, put>>)
      /\ Begins(<<Result, put>>, <<Result, put>>)
      /\ Begins(<<Result>>, <<Result, put>>)
      /\ Begins(<<Result>>, <<Result>>)
  BY DEF SameItems, Begins
<1>4. <<Result, put>> \o <<>> = <<Result, put>>
  BY <1>3, ConcatEmptySeq
<1>5. Fits(Gets(writes, <<put>>), Answers(reads, <<put>>, <<>>))
  BY <1>1, <1>2, <1>3, <1>4, Shorts DEF Fits, Gets, Asks, Answers
<1>6. Fits(Asks(writes, <<>>, <<put>>), Answers(reads, <<put>>, <<>>))
  BY <1>1, <1>2, <1>3, <1>4, Shorts DEF Fits, Asks, Answers
<1>7. Fits(Asks(writes, <<>>, <<put>>), Answers(reads, <<>>, <<put>>))
  BY <1>1, <1>2, <1>3, <1>4, Shorts DEF Fits, Asks, Answers
<1> QED BY <1>5, <1>6, <1>7

LEMMA ReturnsFits ==
  ASSUME NEW writes, NEW reads, SameItems(writes, reads)
  PROVE  /\ Fits(Untold(writes, <<>>), Returns(reads, <<>>))
         /\ \A put : put.name # "null" => Fits(Untold(writes, <<put>>), Returns(reads, <<put>>))
<1>1. Fits(Untold(writes, <<>>), Returns(reads, <<>>))
  BY Shorts DEF Fits, Untold, Returns, SameItems, Begins, Names
<1>2. ASSUME NEW put, put.name # "null"
      PROVE  Fits(Untold(writes, <<put>>), Returns(reads, <<put>>))
  <2>1. "null" \notin Names(<<put>>) /\ SameItems(<<put>>, <<put>>) /\ Begins(<<put>>, <<put>>)
    BY <1>2 DEF Names, SameItems, Begins
  <2> QED BY <2>1, Shorts DEF Fits, Untold, Returns
<1> QED BY <1>1, <1>2
(* The methods whose handler fits. Every method does but the two about private *)
(* notifications, which no client function goes by.                            *)
Fitting ==
  {m \in DOMAIN AnsManagerProxy \cap DOMAIN AnsManagerStub : Fits(AnsManagerProxy[m], AnsManagerStub[m])}

LEMMA FittingOf ==
  ASSUME NEW m, NEW methods, NEW handlers,
         Has(AnsManagerProxy, methods), Has(AnsManagerStub, handlers),
         m \in DOMAIN methods, m \in DOMAIN handlers, Fits(methods[m], handlers[m])
  PROVE  m \in Fitting
BY DEF Has, Fitting

LEMMA ProxyPublishFits ==
  DOMAIN ProxyPublish \subseteq Fitting
<1>1. Fits(ProxyPublish["Publish"], HandlePublish["Publish"])
  BY DoesFits, SameItemsOf DEF ProxyPublish, HandlePublish, Agree, Item, Str,
     Obj, Ref
<1>2. Fits(ProxyPublish["PublishToDevice"], HandlePublish["PublishToDevice"])
  BY DoesFits, SameItemsOf DEF ProxyPublish, HandlePublish, Agree, Item, Str,
     Obj, Ref
<1>3. Fits(ProxyPublish["Cancel"], HandlePublish["Cancel"])
  BY DoesFits, SameItemsOf DEF ProxyPublish, HandlePublish, Agree, Item, Str,
     I32
<1>4. Has(AnsManagerProxy, ProxyPublish) /\ Has(AnsManagerStub, HandlePublish)
  BY ProxyRows, StubRows
<1> QED BY <1>1, <1>2, <1>3, <1>4, FittingOf DEF ProxyPublish, HandlePublish

LEMMA ProxyCancelFits ==
  DOMAIN ProxyCancel \subseteq Fitting
<1>1. Fits(ProxyCancel["CancelAll"], HandlePublish["CancelAll"])
  BY DoesFits, SameItemsOf DEF ProxyCancel, HandlePublish
<1>2. Fits(ProxyCancel["CancelAsBundle"], HandlePublish["CancelAsBundle"])
  BY DoesFits, SameItemsOf DEF ProxyCancel, HandlePublish, Agree, Item, Str,
     I32
<1>3. Fits(ProxyCancel["AddSlotByType"], HandlePublish["AddSlotByType"])
  BY DoesFits, SameItemsOf DEF ProxyCancel, HandlePublish, Agree, Item, I32
<1>4. Fits(ProxyCancel["AddSlots"], HandlePublish["AddSlots"])
  BY DoesFits, SameItemsOf DEF ProxyCancel, HandlePublish, Agree, Item,
     Vector, Filled
<1>5. Has(AnsManagerProxy, ProxyCancel) /\ Has(AnsManagerStub, HandlePublish)
  BY ProxyRows, StubRows
<1> QED BY <1>1, <1>2, <1>3, <1>4, <1>5, FittingOf DEF ProxyCancel,
         HandlePublish

LEMMA ProxySlotsFits ==
  DOMAIN ProxySlots \subseteq Fitting
<1>1. Fits(ProxySlots["RemoveSlotByType"], HandlePublish["RemoveSlotByType"])
  BY DoesFits, SameItemsOf DEF ProxySlots, HandlePublish, Agree, Item, I32
<1>2. Fits(ProxySlots["RemoveAllSlots"], HandleSlots["RemoveAllSlots"])
  BY DoesFits, SameItemsOf DEF ProxySlots, HandleSlots
<1>3. Fits(ProxySlots["AddSlotGroups"], HandleSlots["AddSlotGroups"])
  BY DoesFits, SameItemsOf DEF ProxySlots, HandleSlots, Agree, Item, Vector,
     Filled
<1>4. Fits(ProxySlots["GetSlotByType"], HandleSlots["GetSlotByType"])
  BY AnswersFits, SameItemsOf DEF ProxySlots, HandleSlots, Agree, Item, I32,
     Obj
<1>5. Has(AnsManagerProxy, ProxySlots) /\ Has(AnsManagerStub, HandlePublish) /\ Has(AnsManagerStub, HandleSlots)
  BY ProxyRows, StubRows
<1> QED BY <1>1, <1>2, <1>3, <1>4, <1>5, FittingOf DEF ProxySlots,
         HandlePublish, HandleSlots

LEMMA ProxySlotGroupsFits ==
  DOMAIN ProxySlotGroups \subseteq Fitting
<1>1. Fits(ProxySlotGroups["GetSlots"], HandleSlots["GetSlots"])
  BY AnswersFits, SameItemsOf DEF ProxySlotGroups, HandleSlots, Agree, Item,
     Vector
<1>2. Fits(ProxySlotGroups["GetSlotGroup"], HandleSlots["GetSlotGroup"])
  BY AnswersFits, SameItemsOf DEF ProxySlotGroups, HandleSlots, Agree, Item,
     Str, Named, Obj
<1>3. Fits(ProxySlotGroups["GetSlotGroups"], HandleSlots["GetSlotGroups"])
  BY AnswersFits, SameItemsOf DEF ProxySlotGroups, HandleSlots, Agree, Item,
     Vector
<1>4. Fits(ProxySlotGroups["GetSlotNumAsBundle"], HandleSlots["GetSlotNumAsBundle"])
  BY AnswersFits, SameItemsOf DEF ProxySlotGroups, HandleSlots, Agree, Item,
     U64, Strong, StrongRef
<1>5. Has(AnsManagerProxy, ProxySlotGroups) /\ Has(AnsManagerStub, HandleSlots)
  BY ProxyRows, StubRows
<1> QED BY <1>1, <1>2, <1>3, <1>4, <1>5, FittingOf DEF ProxySlotGroups,
         HandleSlots

LEMMA ProxyActiveFits ==
  DOMAIN ProxyActive \subseteq Fitting
<1>1. Fits(ProxyActive["RemoveSlotGroups"], HandleSlots["RemoveSlotGroups"])
  BY DoesFits, SameItemsOf DEF ProxyActive, HandleSlots, Agree, Item, Strs,
     NamedAll
<1>2. Fits(ProxyActive["GetActiveNotifications"], HandleActive["GetActiveNotifications"])
  BY AnswersFits, SameItemsOf DEF ProxyActive, HandleActive, Agree, Item,
     Vector
<1>3. Fits(ProxyActive["GetActiveNotificationNums"], HandleActive["GetActiveNotificationNums"])
  BY AnswersFits, SameItemsOf DEF ProxyActive, HandleActive, Agree, Item, U64
<1>4. Fits(ProxyActive["GetAllActiveNotifications"], HandleActive["GetAllActiveNotifications"])
  BY AnswersFits, SameItemsOf DEF ProxyActive, HandleActive, Agree, Item,
     Vector
<1>5. Fits(ProxyActive["GetSpecialActiveNotifications"], HandleActive["GetSpecialActiveNotifications"])
  BY AnswersFits, SameItemsOf DEF ProxyActive, HandleActive, Agree, Item,
     Strs, NamedAll, Vector
<1>6. Has(AnsManagerProxy, ProxyActive) /\ Has(AnsManagerStub, HandleSlots) /\ Has(AnsManagerStub, HandleActive)
  BY ProxyRows, StubRows
<1> QED BY <1>1, <1>2, <1>3, <1>4, <1>5, <1>6, FittingOf DEF ProxyActive,
         HandleSlots, HandleActive

LEMMA ProxyAgentsFits ==
  DOMAIN ProxyAgents \subseteq Fitting
<1>1. Fits(ProxyAgents["SetNotificationAgent"], HandleActive["SetNotificationAgent"])
  BY DoesFits, SameItemsOf DEF ProxyAgents, HandleActive, Agree, Item, Str,
     Named
<1>2. Fits(ProxyAgents["GetNotificationAgent"], HandleActive["GetNotificationAgent"])
  BY AnswersFits, SameItemsOf DEF ProxyAgents, HandleActive, Agree, Item, Str
<1>3. Fits(ProxyAgents["CanPublishAsBundle"], HandleActive["CanPublishAsBundle"])
  BY AnswersFits, SameItemsOf DEF ProxyAgents, HandleActive, Agree, Item, Str,
     Named, Bool
<1>4. Fits(ProxyAgents["PublishAsBundle"], HandleActive["PublishAsBundle"])
  BY DoesFits, SameItemsOf DEF ProxyAgents, HandleActive, Agree, Item, Str,
     Named, Obj, Ref
<1>5. Has(AnsManagerProxy, ProxyAgents) /\ Has(AnsManagerStub, HandleActive)
  BY ProxyRows, StubRows
<1> QED BY <1>1, <1>2, <1>3, <1>4, <1>5, FittingOf DEF ProxyAgents,
         HandleActive

LEMMA ProxyPolicyFits ==
  DOMAIN ProxyPolicy \ {"SetPrivateNotificationsAllowed", "GetPrivateNotificationsAllowed"} \subseteq Fitting
<1>1. Fits(ProxyPolicy["SetNotificationBadgeNum"], HandleActive["SetNotificationBadgeNum"])
  BY DoesFits, SameItemsOf DEF ProxyPolicy, HandleActive, Agree, Item, I32
<1>2. Fits(ProxyPolicy["GetBundleImportance"], HandlePolicy["GetBundleImportance"])
  BY AnswersFits, SameItemsOf DEF ProxyPolicy, HandlePolicy, Agree, Item, I32
<1>3. Fits(ProxyPolicy["HasNotificationPolicyAccessPermission"], HandlePolicy["HasNotificationPolicyAccessPermission"])
  BY AnswersFits, SameItemsOf DEF ProxyPolicy, HandlePolicy, Agree, Item, Bool
<1>4. Has(AnsManagerProxy, ProxyPolicy) /\ Has(AnsManagerStub, HandleActive) /\ Has(AnsManagerStub, HandlePolicy)
  BY ProxyRows, StubRows
<1> QED BY <1>1, <1>2, <1>3, <1>4, FittingOf DEF ProxyPolicy, HandleActive,
         HandlePolicy

LEMMA ProxyRemoveFits ==
  DOMAIN ProxyRemove \subseteq Fitting
<1>1. Fits(ProxyRemove["RemoveNotification"], HandleRemove["RemoveNotification"])
  BY DoesFits, SameItemsOf DEF ProxyRemove, HandleRemove, Agree, Item, Str,
     I32, Strong, StrongRef
<1>2. Fits(ProxyRemove["RemoveAllNotifications"], HandleRemove["RemoveAllNotifications"])
  BY DoesFits, SameItemsOf DEF ProxyRemove, HandleRemove, Agree, Item, Strong,
     StrongRef
<1>3. Fits(ProxyRemove["Delete"], HandleRemove["Delete"])
  BY DoesFits, SameItemsOf DEF ProxyRemove, HandleRemove, Agree, Item, Str,
     Named
<1>4. Fits(ProxyRemove["DeleteByBundle"], HandleRemove["DeleteByBundle"])
  BY DoesFits, SameItemsOf DEF ProxyRemove, HandleRemove, Agree, Item, Strong,
     StrongRef
<1>5. Has(AnsManagerProxy, ProxyRemove) /\ Has(AnsManagerStub, HandleRemove)
  BY ProxyRows, StubRows
<1> QED BY <1>1, <1>2, <1>3, <1>4, <1>5, FittingOf DEF ProxyRemove,
         HandleRemove

LEMMA ProxyUpdateFits ==
  DOMAIN ProxyUpdate \subseteq Fitting
<1>1. Fits(ProxyUpdate["DeleteAll"], HandleRemove["DeleteAll"])
  BY DoesFits, SameItemsOf DEF ProxyUpdate, HandleRemove
<1>2. Fits(ProxyUpdate["GetSlotsByBundle"], HandleRemove["GetSlotsByBundle"])
  BY AnswersFits, SameItemsOf DEF ProxyUpdate, HandleRemove, Agree, Item, Obj,
     Ref, Vector
<1>3. Fits(ProxyUpdate["UpdateSlots"], HandleRemove["UpdateSlots"])
  BY DoesFits, SameItemsOf DEF ProxyUpdate, HandleRemove, Agree, Item, Obj,
     Ref, Vector, Filled
<1>4. Has(AnsManagerProxy, ProxyUpdate) /\ Has(AnsManagerStub, HandleRemove)
  BY ProxyRows, StubRows
<1> QED BY <1>1, <1>2, <1>3, <1>4, FittingOf DEF ProxyUpdate, HandleRemove

LEMMA ProxyEnableFits ==
  DOMAIN ProxyEnable \subseteq Fitting
<1>1. Fits(ProxyEnable["UpdateSlotGroups"], HandleEnable["UpdateSlotGroups"])
  BY DoesFits, SameItemsOf DEF ProxyEnable, HandleEnable, Agree, Item, Obj,
     Ref, Vector, Filled
<1>2. Fits(ProxyEnable["RequestEnableNotification"], HandleEnable["RequestEnableNotification"])
  BY DoesFits, SameItemsOf DEF ProxyEnable, HandleEnable, Agree, Item, Str
<1>3. Fits(ProxyEnable["SetNotificationsEnabledForBundle"], HandleEnable["SetNotificationsEnabledForBundle"])
  BY DoesFits, SameItemsOf DEF ProxyEnable, HandleEnable, Agree, Item, Str,
     Bool
<1>4. Fits(ProxyEnable["SetNotificationsEnabledForAllBundles"], HandleEnable["SetNotificationsEnabledForAllBundles"])
  BY DoesFits, SameItemsOf DEF ProxyEnable, HandleEnable, Agree, Item, Str,
     Bool
<1>5. Has(AnsManagerProxy, ProxyEnable) /\ Has(AnsManagerStub, HandleEnable)
  BY ProxyRows, StubRows
<1> QED BY <1>1, <1>2, <1>3, <1>4, <1>5, FittingOf DEF ProxyEnable,
         HandleEnable

LEMMA ProxyBadgeFits ==
  DOMAIN ProxyBadge \subseteq Fitting
<1>1. Fits(ProxyBadge["SetNotificationsEnabledForSpecialBundle"], HandleEnable["SetNotificationsEnabledForSpecialBundle"])
  BY DoesFits, SameItemsOf DEF ProxyBadge, HandleEnable, Agree, Item, Str,
     Bool, Obj, Ref
<1>2. Fits(ProxyBadge["SetShowBadgeEnabledForBundle"], HandleEnable["SetShowBadgeEnabledForBundle"])
  BY DoesFits, SameItemsOf DEF ProxyBadge, HandleEnable, Agree, Item, Bool,
     Obj, Ref
<1>3. Fits(ProxyBadge["GetShowBadgeEnabledForBundle"], HandleSubscribe["GetShowBadgeEnabledForBundle"])
  BY AnswersFits, SameItemsOf DEF ProxyBadge, HandleSubscribe, Agree, Item,
     Bool, Obj, Ref
<1>4. Fits(ProxyBadge["GetShowBadgeEnabled"], HandleSubscribe["GetShowBadgeEnabled"])
  BY AnswersFits, SameItemsOf DEF ProxyBadge, HandleSubscribe, Agree, Item,
     Bool
<1>5. Has(AnsManagerProxy, ProxyBadge) /\ Has(AnsManagerStub, HandleEnable) /\ Has(AnsManagerStub, HandleSubscribe)
  BY ProxyRows, StubRows
<1> QED BY <1>1, <1>2, <1>3, <1>4, <1>5, FittingOf DEF ProxyBadge,
         HandleEnable, HandleSubscribe

LEMMA ProxySubscribeFits ==
  DOMAIN ProxySubscribe \subseteq Fitting
<1>1. Fits(ProxySubscribe["Subscribe"], HandleSubscribe["Subscribe"])
  BY DoesFits, SameItemsOf DEF ProxySubscribe, HandleSubscribe, Agree, Item,
     Remote, OptObj
<1>2. Fits(ProxySubscribe["Unsubscribe"], HandleSubscribe["Unsubscribe"])
  BY DoesFits, SameItemsOf DEF ProxySubscribe, HandleSubscribe, Agree, Item,
     Remote, OptObj
<1>3. Fits(ProxySubscribe["AreNotificationsSuspended"], HandleSubscribe["AreNotificationsSuspended"])
  BY AnswersFits, SameItemsOf DEF ProxySubscribe, HandleSubscribe, Agree,
     Item, Bool
<1>4. Has(AnsManagerProxy, ProxySubscribe) /\ Has(AnsManagerStub, HandleSubscribe)
  BY ProxyRows, StubRows
<1> QED BY <1>1, <1>2, <1>3, <1>4, FittingOf DEF ProxySubscribe,
         HandleSubscribe

LEMMA ProxyAllowedFits ==
  DOMAIN ProxyAllowed \subseteq Fitting
<1>1. Fits(ProxyAllowed["GetCurrentAppSorting"], HandleSubscribe["GetCurrentAppSorting"])
  BY AnswersFits, SameItemsOf DEF ProxyAllowed, HandleSubscribe, Agree, Item,
     Obj
<1>2. Fits(ProxyAllowed["IsAllowedNotify"], HandleAllowed["IsAllowedNotify"])
  BY AnswersFits, SameItemsOf DEF ProxyAllowed, HandleAllowed, Agree, Item,
     Bool
<1>3. Fits(ProxyAllowed["IsAllowedNotifySelf"], HandleAllowed["IsAllowedNotifySelf"])
  BY AnswersFits, SameItemsOf DEF ProxyAllowed, HandleAllowed, Agree, Item,
     Bool
<1>4. Fits(ProxyAllowed["IsSpecialBundleAllowedNotify"], HandleAllowed["IsSpecialBundleAllowedNotify"])
  BY AnswersFits, SameItemsOf DEF ProxyAllowed, HandleAllowed, Agree, Item,
     Bool, Obj, Ref
<1>5. Has(AnsManagerProxy, ProxyAllowed) /\ Has(AnsManagerStub, HandleSubscribe) /\ Has(AnsManagerStub, HandleAllowed)
  BY ProxyRows, StubRows
<1> QED BY <1>1, <1>2, <1>3, <1>4, <1>5, FittingOf DEF ProxyAllowed,
         HandleSubscribe, HandleAllowed

LEMMA ProxyGroupsFits ==
  DOMAIN ProxyGroups \subseteq Fitting
<1>1. Fits(ProxyGroups["CancelGroup"], HandleAllowed["CancelGroup"])
  BY DoesFits, SameItemsOf DEF ProxyGroups, HandleAllowed, Agree, Item, Str
<1>2. Fits(ProxyGroups["RemoveGroupByBundle"], HandleAllowed["RemoveGroupByBundle"])
  BY DoesFits, SameItemsOf DEF ProxyGroups, HandleAllowed, Agree, Item, Str,
     Obj
<1>3. Fits(ProxyGroups["SetDoNotDisturbDate"], HandlePolicy["SetDoNotDisturbDate"])
  BY DoesFits, SameItemsOf DEF ProxyGroups, HandlePolicy, Agree, Item, Obj,
     Ref
<1>4. Fits(ProxyGroups["GetDoNotDisturbDate"], HandlePolicy["GetDoNotDisturbDate"])
  BY AnswersFits, SameItemsOf DEF ProxyGroups, HandlePolicy, Agree, Item, Obj
<1>5. Has(AnsManagerProxy, ProxyGroups) /\ Has(AnsManagerStub, HandleAllowed) /\ Has(AnsManagerStub, HandlePolicy)
  BY ProxyRows, StubRows
<1> QED BY <1>1, <1>2, <1>3, <1>4, <1>5, FittingOf DEF ProxyGroups,
         HandleAllowed, HandlePolicy

LEMMA ProxyDistributedFits ==
  DOMAIN ProxyDistributed \subseteq Fitting
<1>1. Fits(ProxyDistributed["DoesSupportDoNotDisturbMode"], HandlePolicy["DoesSupportDoNotDisturbMode"])
  BY AnswersFits, SameItemsOf DEF ProxyDistributed, HandlePolicy, Agree, Item,
     Bool
<1>2. Fits(ProxyDistributed["IsDistributedEnabled"], HandleAllowed["IsDistributedEnabled"])
  BY AnswersFits, SameItemsOf DEF ProxyDistributed, HandleAllowed, Agree,
     Item, Bool
<1>3. Fits(ProxyDistributed["EnableDistributed"], HandleAllowed["EnableDistributed"])
  BY DoesFits, SameItemsOf DEF ProxyDistributed, HandleAllowed, Agree, Item,
     Bool
<1>4. Fits(ProxyDistributed["EnableDistributedByBundle"], HandleAllowed["EnableDistributedByBundle"])
  BY DoesFits, SameItemsOf DEF ProxyDistributed, HandleAllowed, Agree, Item,
     Bool, Obj, Ref
<1>5. Has(AnsManagerProxy, ProxyDistributed) /\ Has(AnsManagerStub, HandlePolicy) /\ Has(AnsManagerStub, HandleAllowed)
  BY ProxyRows, StubRows
<1> QED BY <1>1, <1>2, <1>3, <1>4, <1>5, FittingOf DEF ProxyDistributed,
         HandlePolicy, HandleAllowed

LEMMA ProxyDumpFits ==
  DOMAIN ProxyDump \subseteq Fitting
<1>1. Fits(ProxyDump["EnableDistributedSelf"], HandleReminders["EnableDistributedSelf"])
  BY DoesFits, SameItemsOf DEF ProxyDump, HandleReminders, Agree, Item, Bool
<1>2. Fits(ProxyDump["IsDistributedEnableByBundle"], HandleReminders["IsDistributedEnableByBundle"])
  BY AnswersFits, SameItemsOf DEF ProxyDump, HandleReminders, Agree, Item,
     Bool, Obj, Ref
<1>3. Fits(ProxyDump["GetDeviceRemindType"], HandleReminders["GetDeviceRemindType"])
  BY AnswersFits, SameItemsOf DEF ProxyDump, HandleReminders, Agree, Item, I32
<1>4. Fits(ProxyDump["ShellDump"], HandleReminders["ShellDump"])
  BY AnswersFits, SameItemsOf DEF ProxyDump, HandleReminders, Agree, Item,
     Str, Strs
<1>5. Has(AnsManagerProxy, ProxyDump) /\ Has(AnsManagerStub, HandleReminders)
  BY ProxyRows, StubRows
<1> QED BY <1>1, <1>2, <1>3, <1>4, <1>5, FittingOf DEF ProxyDump,
         HandleReminders

LEMMA ProxyRemindersFits ==
  DOMAIN ProxyReminders \subseteq Fitting
<1>1. Fits(ProxyReminders["PublishContinuousTaskNotification"], HandlePolicy["PublishContinuousTaskNotification"])
  BY DoesFits, SameItemsOf DEF ProxyReminders, HandlePolicy, Agree, Item, Obj,
     Ref
<1>2. Fits(ProxyReminders["CancelContinuousTaskNotification"], HandlePolicy["CancelContinuousTaskNotification"])
  BY DoesFits, SameItemsOf DEF ProxyReminders, HandlePolicy, Agree, Item, Str,
     I32
<1>3. Fits(ProxyReminders["PublishReminder"], HandleReminders["PublishReminder"])
  BY ReturnsFits, SameItemsOf DEF ProxyReminders, HandleReminders, Agree,
     Item, I32, Kinded
<1>4. Fits(ProxyReminders["CancelReminder"], HandleReminders["CancelReminder"])
  BY ReturnsFits, SameItemsOf DEF ProxyReminders, HandleReminders, Agree,
     Item, I32
<1>5. Has(AnsManagerProxy, ProxyReminders) /\ Has(AnsManagerStub, HandlePolicy) /\ Has(AnsManagerStub, HandleReminders)
  BY ProxyRows, StubRows
<1> QED BY <1>1, <1>2, <1>3, <1>4, <1>5, FittingOf DEF ProxyReminders,
         HandlePolicy, HandleReminders

LEMMA ProxyAllRemindersFits ==
  DOMAIN ProxyAllReminders \subseteq Fitting
<1>1. Fits(ProxyAllReminders["CancelAllReminders"], HandleByUser["CancelAllReminders"])
  BY ReturnsFits, SameItemsOf DEF ProxyAllReminders, HandleByUser
<1>2. Fits(ProxyAllReminders["GetValidReminders"], HandleByUser["GetValidReminders"])
  BY ReturnsFits, SameItemsOf DEF ProxyAllReminders, HandleByUser, Agree,
     Item, Reminders
<1>3. Has(AnsManagerProxy, ProxyAllReminders) /\ Has(AnsManagerStub, HandleByUser)
  BY ProxyRows, StubRows
<1> QED BY <1>1, <1>2, <1>3, FittingOf DEF ProxyAllReminders, HandleByUser

LEMMA ProxyByUserFits ==
  DOMAIN ProxyByUser \subseteq Fitting
<1>1. Fits(ProxyByUser["IsSupportTemplate"], HandleByUser["IsSupportTemplate"])
  BY AnswersFits, SameItemsOf DEF ProxyByUser, HandleByUser, Agree, Item, Str,
     Bool
<1>2. Fits(ProxyByUser["IsSpecialUserAllowedNotify"], HandleByUser["IsSpecialUserAllowedNotify"])
  BY AnswersFits, SameItemsOf DEF ProxyByUser, HandleByUser, Agree, Item, I32,
     Bool
<1>3. Fits(ProxyByUser["SetNotificationsEnabledByUser"], HandleByUser["SetNotificationsEnabledByUser"])
  BY DoesFits, SameItemsOf DEF ProxyByUser, HandleByUser, Agree, Item, I32,
     Bool
<1>4. Fits(ProxyByUser["DeleteAllByUser"], HandleBundleSlots["DeleteAllByUser"])
  BY DoesFits, SameItemsOf DEF ProxyByUser, HandleBundleSlots, Agree, Item,
     I32
<1>5. Has(AnsManagerProxy, ProxyByUser) /\ Has(AnsManagerStub, HandleByUser) /\ Has(AnsManagerStub, HandleBundleSlots)
  BY ProxyRows, StubRows
<1> QED BY <1>1, <1>2, <1>3, <1>4, <1>5, FittingOf DEF ProxyByUser,
         HandleByUser, HandleBundleSlots

LEMMA ProxyBundleSlotsFits ==
  DOMAIN ProxyBundleSlots \subseteq Fitting
<1>1. Fits(ProxyBundleSlots["SetDoNotDisturbDateByUser"], HandleBundleSlots["SetDoNotDisturbDateByUser"])
  BY DoesFits, SameItemsOf DEF ProxyBundleSlots, HandleBundleSlots, Agree,
     Item, I32, Obj, Ref
<1>2. Fits(ProxyBundleSlots["GetDoNotDisturbDateByUser"], HandleBundleSlots["GetDoNotDisturbDateByUser"])
  BY AnswersFits, SameItemsOf DEF ProxyBundleSlots, HandleBundleSlots, Agree,
     Item, I32, Obj
<1>3. Fits(ProxyBundleSlots["SetEnabledForBundleSlot"], HandleBundleSlots["SetEnabledForBundleSlot"])
  BY DoesFits, SameItemsOf DEF ProxyBundleSlots, HandleBundleSlots, Agree,
     Item, I32, Bool, Strong, StrongRef
<1>4. Fits(ProxyBundleSlots["GetEnabledForBundleSlot"], HandleBundleSlots["GetEnabledForBundleSlot"])
  BY AnswersFits, SameItemsOf DEF ProxyBundleSlots, HandleBundleSlots, Agree,
     Item, I32, Bool, Strong, StrongRef
<1>5. Has(AnsManagerProxy, ProxyBundleSlots) /\ Has(AnsManagerStub, HandleBundleSlots)
  BY ProxyRows, StubRows
<1> QED BY <1>1, <1>2, <1>3, <1>4, <1>5, FittingOf DEF ProxyBundleSlots,
         HandleBundleSlots
(* A request is written as an object, by four methods.                         *)
Carriers == {"Publish", "PublishToDevice", "PublishAsBundle", "PublishContinuousTaskNotification"}

RequestIsObject(m, method) ==
  \A i \in DOMAIN method.writes :
    method.writes[i].name = "request" => method.writes[i].type = "parcelable" /\ m \in Carriers

LEMMA RequestIsAnObject ==
  \A m \in DOMAIN AnsManagerProxy : RequestIsObject(m, AnsManagerProxy[m])
<1>1. \A m \in DOMAIN ProxyPublish : RequestIsObject(m, ProxyPublish[m])
  BY DEF ProxyPublish, RequestIsObject, Carriers, Tells, Asks, Item, Str, I32,
         Ref
<1>2. \A m \in DOMAIN ProxyCancel : RequestIsObject(m, ProxyCancel[m])
  BY DEF ProxyCancel, RequestIsObject, Carriers, Tells, Asks, Item, Str, I32,
         Filled
<1>3. \A m \in DOMAIN ProxySlots : RequestIsObject(m, ProxySlots[m])
  BY DEF ProxySlots, RequestIsObject, Carriers, Asks, Tells, Item, I32, Obj,
         Filled
<1>4. \A m \in DOMAIN ProxySlotGroups : RequestIsObject(m, ProxySlotGroups[m])
  BY DEF ProxySlotGroups, RequestIsObject, Carriers, Asks, Gets, Item, Named,
         U64, Obj, StrongRef, Vector
<1>5. \A m \in DOMAIN ProxyActive : RequestIsObject(m, ProxyActive[m])
  BY DEF ProxyActive, RequestIsObject, Carriers, Tells, Gets, Asks, Item,
         NamedAll, U64, Vector
<1>6. \A m \in DOMAIN ProxyAgents : RequestIsObject(m, ProxyAgents[m])
  BY DEF ProxyAgents, RequestIsObject, Carriers, Tells, Gets, Asks, Item, Str,
         Named, Bool, Ref
<1>7. \A m \in DOMAIN ProxyPolicy : RequestIsObject(m, ProxyPolicy[m])
  BY DEF ProxyPolicy, RequestIsObject, Carriers, Tells, Gets, Asks, Item, I32,
         Bool
<1>8. \A m \in DOMAIN ProxyRemove : RequestIsObject(m, ProxyRemove[m])
  <2>1. RequestIsObject("RemoveNotification", ProxyRemove["RemoveNotification"])
    BY DEF ProxyRemove, RequestIsObject, Tells, Asks, Item, Str, I32,
           StrongRef
  <2>2. RequestIsObject("RemoveAllNotifications", ProxyRemove["RemoveAllNotifications"])
    BY DEF ProxyRemove, RequestIsObject, Tells, Asks, Item, StrongRef
  <2>3. RequestIsObject("Delete", ProxyRemove["Delete"])
    BY DEF ProxyRemove, RequestIsObject, Tells, Asks, Item, Named
  <2>4. RequestIsObject("DeleteByBundle", ProxyRemove["DeleteByBundle"])
    BY DEF ProxyRemove, RequestIsObject, Tells, Asks, Item, StrongRef
  <2> QED BY <2>1, <2>2, <2>3, <2>4 DEF ProxyRemove
<1>9. \A m \in DOMAIN ProxyUpdate : RequestIsObject(m, ProxyUpdate[m])
  BY DEF ProxyUpdate, RequestIsObject, Carriers, Tells, Gets, Asks, Item, Ref,
         Vector, Filled
<1>10. \A m \in DOMAIN ProxyEnable : RequestIsObject(m, ProxyEnable[m])
  BY DEF ProxyEnable, RequestIsObject, Carriers, Tells, Asks, Item, Str, Bool,
         Ref, Filled
<1>11. \A m \in DOMAIN ProxyBadge : RequestIsObject(m, ProxyBadge[m])
  BY DEF ProxyBadge, RequestIsObject, Carriers, Tells, Gets, Asks, Item, Str,
         Bool, Ref
<1>12. \A m \in DOMAIN ProxySubscribe : RequestIsObject(m, ProxySubscribe[m])
  BY DEF ProxySubscribe, RequestIsObject, Carriers, Tells, Gets, Asks, Item,
         Bool, Remote, OptObj
<1>13. \A m \in DOMAIN ProxyAllowed : RequestIsObject(m, ProxyAllowed[m])
  BY DEF ProxyAllowed, RequestIsObject, Carriers, Gets, Asks, Item, Bool, Obj,
         Ref
<1>14. \A m \in DOMAIN ProxyGroups : RequestIsObject(m, ProxyGroups[m])
  BY DEF ProxyGroups, RequestIsObject, Carriers, Asks, Tells, Item, Str, Obj,
         Ref
<1>15. \A m \in DOMAIN ProxyDistributed : RequestIsObject(m, ProxyDistributed[m])
  BY DEF ProxyDistributed, RequestIsObject, Carriers, Tells, Gets, Asks, Item,
         Bool, Ref
<1>16. \A m \in DOMAIN ProxyDump : RequestIsObject(m, ProxyDump[m])
  BY DEF ProxyDump, RequestIsObject, Carriers, Asks, Tells, Gets, Item, Str,
         Strs, I32, Bool, Ref
<1>17. \A m \in DOMAIN ProxyReminders : RequestIsObject(m, ProxyReminders[m])
  BY DEF ProxyReminders, RequestIsObject, Carriers, Tells, Untold, Asks, Item,
         Str, I32, Ref, Kinded
<1>18. \A m \in DOMAIN ProxyAllReminders : RequestIsObject(m, ProxyAllReminders[m])
  BY DEF ProxyAllReminders, RequestIsObject, Carriers, Untold, Item, Reminders
<1>19. \A m \in DOMAIN ProxyByUser : RequestIsObject(m, ProxyByUser[m])
  BY DEF ProxyByUser, RequestIsObject, Carriers, Tells, Gets, Asks, Item, Str,
         I32, Bool
<1>20. \A m \in DOMAIN ProxyBundleSlots : RequestIsObject(m, ProxyBundleSlots[m])
  <2>1. RequestIsObject("SetDoNotDisturbDateByUser", ProxyBundleSlots["SetDoNotDisturbDateByUser"])
    BY DEF ProxyBundleSlots, RequestIsObject, Tells, Asks, Item, I32, Ref
  <2>2. RequestIsObject("GetDoNotDisturbDateByUser", ProxyBundleSlots["GetDoNotDisturbDateByUser"])
    BY DEF ProxyBundleSlots, RequestIsObject, Asks, Item, I32, Obj
  <2>3. RequestIsObject("SetEnabledForBundleSlot", ProxyBundleSlots["SetEnabledForBundleSlot"])
    BY DEF ProxyBundleSlots, RequestIsObject, Tells, Asks, Item, I32, Bool,
           StrongRef
  <2>4. RequestIsObject("GetEnabledForBundleSlot", ProxyBundleSlots["GetEnabledForBundleSlot"])
    BY DEF ProxyBundleSlots, RequestIsObject, Gets, Asks, Item, I32, Bool,
           StrongRef
  <2> QED BY <2>1, <2>2, <2>3, <2>4 DEF ProxyBundleSlots
<1> QED BY <1>1, <1>2, <1>3, <1>4, <1>5, <1>6, <1>7, <1>8, <1>9, <1>10, <1>11,
         <1>12, <1>13, <1>14, <1>15, <1>16, <1>17, <1>18, <1>19, <1>20,
         ProxyRows DEF Has

(* Every client function goes by a method whose handler fits. A function that  *)
(* passes a request on makes it local, unless it names the device.             *)
GoesByFitting(name, call) ==
  /\ call.via \in Fitting
  /\ call.via \in Carriers => call.local \/ name = "PublishNotificationToDevice"

LEMMA ClientFits ==
  \A name \in DOMAIN Client : GoesByFitting(name, Client[name])
<1>1. \A name \in DOMAIN ClientSlots : GoesByFitting(name, ClientSlots[name])
  BY ProxyCancelFits, ProxySlotsFits, ProxySlotGroupsFits, ProxyActiveFits
  DEF ClientSlots, GoesByFitting, Carriers, Plain, ForBundle, Calls,
     ProxyCancel, ProxySlots, ProxySlotGroups, ProxyActive
<1>2. \A name \in DOMAIN ClientPublish : GoesByFitting(name, ClientPublish[name])
  BY ProxyPublishFits, ProxyCancelFits, ProxyActiveFits DEF ClientPublish,
     GoesByFitting, Carriers, Plain, Publishes, Localised, Calls,
     ProxyPublish, ProxyCancel, ProxyActive
<1>3. \A name \in DOMAIN ClientAgents : GoesByFitting(name, ClientAgents[name])
  BY ProxyActiveFits, ProxyAgentsFits, ProxyPolicyFits, ProxyEnableFits,
     ProxyAllowedFits DEF ClientAgents, GoesByFitting, Carriers, Plain,
     NeedsName, Publishes, Localised, Calls, ProxyActive, ProxyAgents,
     ProxyPolicy, ProxyEnable, ProxyAllowed
<1>4. \A name \in DOMAIN ClientSubscribe : GoesByFitting(name, ClientSubscribe[name])
  BY ProxyPolicyFits, ProxyRemoveFits, ProxySubscribeFits
  DEF ClientSubscribe, GoesByFitting, Carriers, Plain, NeedsName,
     ForBundle, Calls, ProxyPolicy, ProxyRemove, ProxySubscribe
<1>5. \A name \in DOMAIN ClientRemove : GoesByFitting(name, ClientRemove[name])
  BY ProxyActiveFits, ProxyRemoveFits, ProxyUpdateFits, ProxyEnableFits,
     ProxyAllowedFits DEF ClientRemove, GoesByFitting, Carriers, Plain,
     ForBundle, Calls, ProxyActive, ProxyRemove, ProxyUpdate, ProxyEnable,
     ProxyAllowed
<1>6. \A name \in DOMAIN ClientBadge : GoesByFitting(name, ClientBadge[name])
  BY ProxyEnableFits, ProxyBadgeFits, ProxyGroupsFits DEF ClientBadge,
     GoesByFitting, Carriers, Plain, NeedsName, ForBundle, Calls, ProxyEnable,
     ProxyBadge, ProxyGroups
<1>7. \A name \in DOMAIN ClientDistributed : GoesByFitting(name, ClientDistributed[name])
  BY ProxyDistributedFits, ProxyDumpFits, ProxyRemindersFits
  DEF ClientDistributed, GoesByFitting, Carriers, Plain, Publishes,
     Localised, Calls, ProxyDistributed, ProxyDump, ProxyReminders
<1>8. \A name \in DOMAIN ClientReminders : GoesByFitting(name, ClientReminders[name])
  BY ProxyDumpFits, ProxyRemindersFits, ProxyAllRemindersFits
  DEF ClientReminders, GoesByFitting, Carriers, Plain, Calls, ProxyDump,
     ProxyReminders, ProxyAllReminders
<1>9. \A name \in DOMAIN ClientByUser : GoesByFitting(name, ClientByUser[name])
  <2>1. ClientByUser["IsSupportTemplate"].via = "IsSupportTemplate"
    BY DEF ClientByUser, Plain, Calls
  <2>2. ClientByUser["IsAllowedNotifyOfUser"].via = "IsSpecialUserAllowedNotify"
    BY DEF ClientByUser, ForUser, Calls
  <2>3. ClientByUser["SetNotificationsEnabledForAllBundlesOfUser"].via = "SetNotificationsEnabledByUser"
    BY DEF ClientByUser, ForUser, Calls
  <2>4. ClientByUser["RemoveNotificationsOfUser"].via = "DeleteAllByUser"
    BY DEF ClientByUser, ForUser, Calls
  <2>5. ClientByUser["SetDoNotDisturbDateOfUser"].via = "SetDoNotDisturbDate"
    BY DEF ClientByUser, ForUser, Calls
  <2>6. ClientByUser["GetDoNotDisturbDateOfUser"].via = "GetDoNotDisturbDate"
    BY DEF ClientByUser, ForUser, Calls
  <2>7. ClientByUser["SetEnabledForBundleSlot"].via = "SetEnabledForBundleSlot"
    BY DEF ClientByUser, ForBundle, Calls
  <2>8. ClientByUser["GetEnabledForBundleSlot"].via = "GetEnabledForBundleSlot"
    BY DEF ClientByUser, ForBundle, Calls
  <2>9. DOMAIN ClientByUser = {"IsSupportTemplate", "IsAllowedNotifyOfUser",
           "SetNotificationsEnabledForAllBundlesOfUser",
           "RemoveNotificationsOfUser", "SetDoNotDisturbDateOfUser",
           "GetDoNotDisturbDateOfUser", "SetEnabledForBundleSlot",
           "GetEnabledForBundleSlot"}
    BY DEF ClientByUser
  <2>10. {"IsSupportTemplate", "IsSpecialUserAllowedNotify",
           "SetNotificationsEnabledByUser", "DeleteAllByUser",
           "SetDoNotDisturbDate", "GetDoNotDisturbDate",
           "SetEnabledForBundleSlot", "GetEnabledForBundleSlot"}
           \subseteq Fitting \ Carriers
    BY ProxyGroupsFits, ProxyByUserFits, ProxyBundleSlotsFits DEF Carriers,
       ProxyGroups, ProxyByUser, ProxyBundleSlots
  <2> QED
    BY <2>1, <2>2, <2>3, <2>4, <2>5, <2>6, <2>7, <2>8, <2>9, <2>10
    DEF GoesByFitting
<1> QED BY <1>1, <1>2, <1>3, <1>4, <1>5, <1>6, <1>7, <1>8, <1>9,
         ClientRows DEF Has
----------------------------------------------------------------------------
(* What crosses. A reader that begins as the writer did gets the values that   *)
(* were written, and fails only at a null.                                     *)
LEMMA ReadOfWritten ==
  ASSUME NEW items, NEW gets, Begins(gets, items), NEW value
  PROVE  /\ Names(gets) \subseteq Names(items)
         /\ DOMAIN ReadValue(Written(items, value), gets) = Names(gets)
         /\ \A n \in Names(gets) : ReadValue(Written(items, value), gets)[n] = value[n]
         /\ Reads(Written(items, value), gets) <=> \A n \in Names(gets) : value[n] # "null"
<1>1. ASSUME NEW i \in DOMAIN gets
      PROVE  /\ i \in DOMAIN items /\ i \in DOMAIN Written(items, value)
             /\ items[i].name = gets[i].name
             /\ Written(items, value)[i].type = gets[i].type
             /\ Written(items, value)[i].value = value[gets[i].name]
  BY DEF Begins, Written
<1>2. Names(gets) \subseteq Names(items)
  BY <1>1 DEF Names
<1>3. DOMAIN ReadValue(Written(items, value), gets) = Names(gets)
  BY DEF ReadValue, Names
<1>4. ASSUME NEW n \in Names(gets)
      PROVE  ReadValue(Written(items, value), gets)[n] = value[n]
  <2> DEFINE i == CHOOSE j \in DOMAIN gets : gets[j].name = n
  <2>1. i \in DOMAIN gets /\ gets[i].name = n
    BY DEF Names
  <2> QED BY <1>1, <2>1 DEF ReadValue, Names
<1>5. Reads(Written(items, value), gets) <=> \A n \in Names(gets) : value[n] # "null"
  BY <1>1 DEF Reads, Names
<1> QED BY <1>2, <1>3, <1>4, <1>5

(* The handler of a call reads what the proxy was handed.                      *)
LEMMA ServedIsHanded ==
  ASSUME NEW name \in DOMAIN Client, NEW args,
         LET parcel == Written(Method(name).writes, Handed(name, args))
         IN  Reads(parcel, AnsManagerStub[Client[name].via].reads)
  PROVE  /\ \A n \in DOMAIN Handed(name, args) : Handed(name, args)[n] # "null"
         /\ LET parcel == Written(Method(name).writes, Handed(name, args))
            IN  ReadValue(parcel, AnsManagerStub[Client[name].via].reads) = Handed(name, args)
<1> DEFINE writes == Method(name).writes
           reads == AnsManagerStub[Client[name].via].reads
           handed == Handed(name, args)
           got == ReadValue(Written(writes, handed), reads)
<1>1. SameItems(writes, reads)
  BY ClientFits DEF GoesByFitting, Fitting, Fits, Method
<1>2. Names(reads) = Names(writes) /\ Begins(reads, writes)
  BY <1>1 DEF SameItems, Begins, Names
<1>3. DOMAIN handed = Names(writes) /\ handed = [n \in Names(writes) |-> handed[n]]
  BY DEF Handed
<1>4. got = [n \in Names(reads) |-> got[n]]
  <2> DEFINE Of(n) == LET i == CHOOSE j \in DOMAIN reads : reads[j].name = n
                      IN  IF Written(writes, handed)[i].type = reads[i].type
                          THEN Written(writes, handed)[i].value ELSE "garbled"
  <2>1. got = [n \in Names(reads) |-> Of(n)]
    BY DEF ReadValue, Names
  <2> HIDE DEF Of, got
  <2> QED BY <2>1
<1> HIDE DEF writes, handed, reads
<1>5. /\ \A n \in Names(reads) : got[n] = handed[n]
      /\ Reads(Written(writes, handed), reads) => \A n \in Names(reads) : handed[n] # "null"
  BY <1>2, ReadOfWritten
<1>6. Reads(Written(writes, handed), reads)
  BY DEF writes, handed, reads
<1> HIDE DEF got
<1>7. got = handed
  BY <1>2, <1>3, <1>4, <1>5
<1>8. \A n \in DOMAIN handed : handed[n] # "null"
  BY <1>2, <1>3, <1>5, <1>6
<1> QED BY <1>7, <1>8 DEF got, writes, handed, reads

(* The caller is told what the service answered.                               *)
LEMMA OutcomeIsTheAnswer ==
  ASSUME NEW name \in DOMAIN Client
  PROVE  /\ Outcome(name, "OK") = "OK"
         /\ Outcome(name, "refused") \in {"TRANSACT_FAILED", "PARCELABLE_FAILED", "refused"}
         /\ Outcome(name, "unread") = "TRANSACT_FAILED"
<1> DEFINE method == Method(name)
           handler == AnsManagerStub[Client[name].via]
           Sent(answer) == handler.writes \o (IF answer = "OK" THEN handler.writesIfOk ELSE <<>>)
           Gotten(answer) == method.awaits \o (IF answer = "OK" THEN method.awaitsIfOk ELSE <<>>)
           Value(answer) ==
             [n \in Names(Sent(answer)) |->
                IF n = "result" THEN answer
                ELSE IF answer = "refused" /\ n \in {"slot", "group", "sortingMap"} THEN "null"
                ELSE n]
           Got(answer) == ReadValue(Reply(name, answer), Gotten(answer))
<1>1. Fits(method, handler)
  BY ClientFits DEF GoesByFitting, Fitting, Method
<1>2. \A answer : Reply(name, answer) = Written(Sent(answer), Value(answer))
  BY DEF Reply
<1>3. ASSUME NEW answer, answer \in {"OK", "refused"}
      PROVE  Begins(Gotten(answer), Sent(answer))
  BY <1>1, <1>3 DEF Fits, SameItems
<1>4. ASSUME NEW answer, answer \in {"OK", "refused"}
      PROVE  /\ Names(Gotten(answer)) \subseteq Names(Sent(answer))
             /\ DOMAIN Got(answer) = Names(Gotten(answer))
             /\ \A n \in Names(Gotten(answer)) : Got(answer)[n] = Value(answer)[n]
             /\ Reads(Reply(name, answer), Gotten(answer))
                  <=> \A n \in Names(Gotten(answer)) : Value(answer)[n] # "null"
  <2> HIDE DEF Gotten, Sent, Value
  <2> QED BY <1>2, <1>3, <1>4, ReadOfWritten
<1>5. Outcome(name, "OK") = "OK"
  <2>1. "null" \notin Names(Gotten("OK"))
    BY <1>1 DEF Fits
  <2>2. \A n \in Names(Gotten("OK")) : Value("OK")[n] = IF n = "result" THEN "OK" ELSE n
    BY <1>4
  <2>3. Outcome(name, "OK") =
          IF ~Reads(Reply(name, "OK"), Gotten("OK")) THEN "PARCELABLE_FAILED"
          ELSE IF \E n \in DOMAIN Got("OK") \ {"result"} : Got("OK")[n] # n THEN "garbled"
          ELSE IF "result" \in DOMAIN Got("OK") THEN Got("OK")["result"] ELSE "OK"
    BY DEF Outcome
  <2> HIDE DEF Gotten, Sent, Value, Got
  <2> QED BY <1>4, <2>1, <2>2, <2>3
<1>6. Outcome(name, "refused") \in {"TRANSACT_FAILED", "PARCELABLE_FAILED", "refused"}
  <2>1. CASE handler.returns = "result"
    BY <2>1 DEF Outcome
  <2>2. CASE handler.returns # "result"
    <3>1. "result" \in Names(Gotten("refused"))
      BY <1>1, <2>2 DEF Fits
    <3>2. \A n \in Names(Gotten("refused")) :
            Value("refused")[n] = IF n = "result" THEN "refused"
                                  ELSE IF n \in {"slot", "group", "sortingMap"} THEN "null" ELSE n
      BY <1>4
    <3>3. Outcome(name, "refused") =
            IF ~Reads(Reply(name, "refused"), Gotten("refused")) THEN "PARCELABLE_FAILED"
            ELSE IF \E n \in DOMAIN Got("refused") \ {"result"} : Got("refused")[n] # n THEN "garbled"
            ELSE IF "result" \in DOMAIN Got("refused") THEN Got("refused")["result"] ELSE "OK"
      BY <2>2 DEF Outcome
    <3> HIDE DEF Gotten, Sent, Value, Got
    <3> QED BY <1>4, <3>1, <3>2, <3>3
  <2> QED BY <2>1, <2>2
<1>7. Outcome(name, "unread") = "TRANSACT_FAILED"
  BY DEF Outcome
<1> QED BY <1>5, <1>6, <1>7

----------------------------------------------------------------------------
(* What a call may pass, and what is handed to the proxy.                      *)
LEMMA ArgumentsOfACall ==
  ASSUME NEW name \in DOMAIN Client, NEW args \in ArgumentsOf[name]
  PROVE  /\ DOMAIN args = Arguments(name)
         /\ "request" \in DOMAIN args => args["request"] \in DOMAIN Kinds \cup {"uncopied"}
<1>1. args \in Usual(name) \cup Odd(name)
  BY DEF ArgumentsOf
<1>2. ASSUME NEW usual \in Usual(name)
      PROVE  /\ DOMAIN usual = Arguments(name)
             /\ "request" \in DOMAIN usual => usual["request"] \in DOMAIN Kinds
  BY DEF Usual
<1>3. OddValues(name, "request") \subseteq {"uncopied"}
  <2> DEFINE writes == Method(name).writes
             type == IF "request" \in Names(writes) THEN ItemOf(writes, "request").type ELSE "none"
  <2>1. type \in {"none", "parcelable"}
    <3> SUFFICES ASSUME "request" \in Names(writes)
                 PROVE  ItemOf(writes, "request").type = "parcelable"
      OBVIOUS
    <3>1. PICK i \in DOMAIN writes : writes[i].name = "request"
      BY DEF Names
    <3>2. ItemOf(writes, "request") \in ToSet(writes) /\ ItemOf(writes, "request").name = "request"
      BY <3>1 DEF ItemOf, ToSet
    <3>3. PICK j \in DOMAIN writes : writes[j] = ItemOf(writes, "request")
      BY <3>2 DEF ToSet
    <3>4. RequestIsObject(Client[name].via, Method(name))
      BY ClientFits, RequestIsAnObject DEF GoesByFitting, Fitting, Method
    <3> QED BY <3>2, <3>3, <3>4 DEF RequestIsObject
  <2> QED BY <2>1 DEF OddValues
<1>4. CASE args \in Odd(name)
  <2>1. PICK arg \in Arguments(name) :
          args \in {[usual EXCEPT ![arg] = odd] : usual \in Usual(name), odd \in OddValues(name, arg)}
    BY <1>4 DEF Odd
  <2>2. PICK usual \in Usual(name), odd \in OddValues(name, arg) : args = [usual EXCEPT ![arg] = odd]
    BY <2>1
  <2> QED BY <1>2, <1>3, <2>2
<1> QED BY <1>1, <1>2, <1>4

LEMMA SetDistributedKeeps ==
  ASSUME NEW request \in DOMAIN Kinds
  PROVE  /\ SetDistributed(request) \in DOMAIN Kinds
         /\ ~Kinds[SetDistributed(request)].distributed
         /\ CheckRequest(SetDistributed(request)) = CheckRequest(request)
<1> DEFINE local == SetDistributed(request)
<1>1. local \in DOMAIN Kinds /\ Kinds[local] = [Kinds[request] EXCEPT !.distributed = FALSE]
  BY ClientAssumption DEF ClientAssumption, SetDistributed
<1>2. Kinds[request] \in Requests
  BY ClientAssumption DEF ClientAssumption
<1> HIDE DEF local
<1>3. /\ Kinds[local].content = Kinds[request].content
      /\ Kinds[local].big = Kinds[request].big
      /\ Kinds[local].actionBeyondButtons = Kinds[request].actionBeyondButtons
      /\ ~Kinds[local].distributed
  BY <1>1, <1>2 DEF Requests
<1>4. CheckRequest(local) = CheckRequest(request)
  BY <1>3 DEF CheckRequest, CanPublishMediaContent, CheckImageSize, CheckImageSizeForContent
<1> QED BY <1>1, <1>3, <1>4 DEF local

(* A request the client lets through may be published by the service.          *)
LEMMA HandedIsPublishable ==
  ASSUME NEW name \in DOMAIN Client, NEW args \in ArgumentsOf[name],
         CheckEarly(name, args) = "OK",
         "request" \in DOMAIN Handed(name, args), Handed(name, args)["request"] # "null"
  PROVE  LET request == Handed(name, args)["request"]
         IN  /\ CheckRequest(request) = "OK"
             /\ IsNonDistributedNotificationType(request) =>
                  \/ ~Kinds[request].distributed
                  \/ name = "PublishNotificationToDevice" /\ args["deviceId"] = "empty"
<1> DEFINE given == args["request"]
           isolated == Client[name].local /\ IsNonDistributedNotificationType(given)
<1>1. "request" \in Names(Method(name).writes)
  BY DEF Handed
<1>2. /\ given # "uncopied"
      /\ Handed(name, args)["request"] = IF isolated THEN SetDistributed(given) ELSE given
  BY <1>1 DEF Handed
<1>3. "request" \in DOMAIN args /\ given \in DOMAIN Kinds
  BY <1>1, <1>2, ArgumentsOfACall DEF Arguments
<1>4. /\ CheckRequest(given) = "OK"
      /\ IsNonDistributedNotificationType(given) /\ name = "PublishNotificationToDevice" =>
           args["deviceId"] = "empty"
  BY <1>2, <1>3 DEF CheckEarly
<1>5. Client[name].local \/ name = "PublishNotificationToDevice"
  <2>1. Client[name].via \in Carriers
    BY <1>1, ClientFits, RequestIsAnObject
    DEF GoesByFitting, Fitting, Method, RequestIsObject, Names
  <2> QED BY <2>1, ClientFits DEF GoesByFitting
<1>6. CASE isolated
  BY <1>2, <1>3, <1>4, <1>6, SetDistributedKeeps
<1>7. CASE ~isolated
  BY <1>2, <1>4, <1>5, <1>7
<1> QED BY <1>6, <1>7

----------------------------------------------------------------------------
(* The types. A thread has arguments a client function takes, and what the     *)
(* service read of them; what it may be told are these.                        *)
Passed == {Nothing} \cup UNION {ArgumentsOf[name] : name \in DOMAIN Client}
Parcels ==
  {Nothing} \cup UNION {{Handed(name, args) : args \in ArgumentsOf[name]} : name \in DOMAIN Client}

Errors ==
  {"none", "OK", "refused", "INVALID_PARAM", "ICON_OVER_SIZE", "PICTURE_OVER_SIZE", "NO_MEMORY",
   "NOT_CONNECTED", "TRANSACT_FAILED", "PARCELABLE_FAILED"}

Thread ==
  [pc : {"idle", "asked", "watching", "connected", "sent", "answered", "told"},
   name : {"none"} \cup DOMAIN Client,
   args : Passed,
   answer : {"none", "OK", "refused", "unread"},
   served : Parcels,
   told : Errors]

TypeOK ==
  /\ handle \in 0 .. MaxStart
  /\ watched \in 0 .. MaxStart
  /\ service \in [gen : 1 .. MaxStart, up : BOOLEAN]
  /\ thread \in [Threads -> Thread]
  /\ alive \in BOOLEAN

(* What holds of a thread alone: a call that is under way passed the checks,   *)
(* what was served of it is what was handed on, without a null, and what it    *)
(* was told is no better than what the service answered.                       *)
Calling == {"asked", "watching", "connected", "sent", "answered"}

Sound(state) ==
  /\ state.pc = "idle" => state = Idle
  /\ state.pc \in Calling =>
       /\ state.name \in DOMAIN Client
       /\ state.args \in ArgumentsOf[state.name]
       /\ CheckEarly(state.name, state.args) = "OK"
  /\ state.pc \in Calling \ {"answered"} => state.answer = "none"
  /\ state.pc = "answered" => state.answer # "none"
  /\ state.served # Nothing =>
       /\ state.pc = "answered"
       /\ state.served = Handed(state.name, state.args)
       /\ \A n \in DOMAIN state.served : state.served[n] # "null"
  /\ state.pc = "told" =>
       /\ state.told = "OK" => state.answer = "OK"
       /\ state.answer = "OK" => state.told \in {"OK", "TRANSACT_FAILED"}

(* What holds of the handle: one thread at a time looks it up, and until that  *)
(* thread watches it nobody does; a death that is heard is that of the handle. *)
HandleInv ==
  /\ \A t, u \in Threads : thread[t].pc = "watching" /\ thread[u].pc = "watching" => t = u
  /\ Locked => handle # 0 /\ watched = 0
  /\ watched \in {0, handle}
  /\ handle <= service.gen

CallInv == \A t \in Threads : Sound(thread[t])

Inv == TypeOK /\ CallInv /\ HandleInv

LEMMA IdleIsSound == Idle \in Thread /\ Sound(Idle)
<1>1. Nothing \in Passed /\ Nothing \in Parcels
  BY DEF Passed, Parcels
<1>2. Idle.pc = "idle" /\ Idle.answer = "none" /\ Idle.served = Nothing
  BY DEF Idle
<1>3. Idle \in Thread
  BY <1>1 DEF Idle, Thread, Errors
<1>4. Sound(Idle)
  BY <1>2 DEF Sound, Calling
<1> QED BY <1>3, <1>4

(* A thread that is told an error by the client, or by the death of the        *)
(* service, is told no better than it was answered.                            *)
LEMMA OutcomesAreSound ==
  ASSUME NEW state \in Thread, NEW error \in Errors,
         error = "OK" => state.answer = "OK",
         state.answer = "OK" => error \in {"OK", "TRANSACT_FAILED"}
  PROVE  /\ Outcomes(state, error) \in Thread /\ Sound(Outcomes(state, error))
         /\ Outcomes(state, error).pc = "told"
<1> DEFINE next == Outcomes(state, error)
<1>1. Nothing \in Passed /\ Nothing \in Parcels
  BY DEF Passed, Parcels
<1>2. /\ next.pc = "told" /\ next.answer = state.answer /\ next.served = Nothing
      /\ next.told = error
  BY DEF Outcomes, Idle
<1>3. next \in Thread
  BY <1>1 DEF Outcomes, Idle, Thread
<1> HIDE DEF next
<1>4. Sound(next)
  BY <1>2 DEF Sound, Calling
<1> QED BY <1>2, <1>3, <1>4 DEF next

(* A thread that goes on in its call.                                          *)
LEMMA GoesIsSound ==
  ASSUME NEW state \in Thread, Sound(state), state.pc \in Calling \ {"answered"},
         NEW pc \in Calling \ {"answered"}
  PROVE  [state EXCEPT !.pc = pc] \in Thread /\ Sound([state EXCEPT !.pc = pc])
<1> DEFINE next == [state EXCEPT !.pc = pc]
<1>1. /\ next \in Thread /\ next.pc = pc /\ next.name = state.name /\ next.args = state.args
      /\ next.answer = state.answer /\ next.served = state.served
  BY DEF Thread, Calling
<1> HIDE DEF next
<1>2. Sound(next)
  BY <1>1 DEF Sound, Calling
<1> QED BY <1>1, <1>2 DEF next

(* One thread changes, to a sound state that does not watch.                   *)
LEMMA OneThread ==
  ASSUME thread \in [Threads -> Thread], CallInv, NEW t \in Threads,
         NEW state \in Thread, Sound(state), thread' = [thread EXCEPT ![t] = state]
  PROVE  thread' \in [Threads -> Thread] /\ CallInv'
BY DEF CallInv

LEMMA NoOneElseWatches ==
  ASSUME thread \in [Threads -> Thread], HandleInv, NEW t \in Threads,
         NEW state \in Thread, state.pc # "watching", thread' = [thread EXCEPT ![t] = state],
         UNCHANGED <<handle, watched, service>>
  PROVE  HandleInv'
BY DEF HandleInv, Locked

LEMMA InitInv == Init => Inv
<1> SUFFICES ASSUME Init PROVE Inv
  OBVIOUS
<1>1. TypeOK
  BY IdleIsSound, ClientAssumption DEF Init, TypeOK, ClientAssumption
<1>2. CallInv
  BY IdleIsSound DEF Init, CallInv
<1>3. HandleInv
  BY DEF Init, HandleInv, Locked, Idle
<1> QED BY <1>1, <1>2, <1>3 DEF Inv

LEMMA CallKeeps ==
  ASSUME Inv, NEW t \in Threads, NEW name \in DOMAIN Client, NEW args \in ArgumentsOf[name],
         Call(t, name, args)
  PROVE  Inv'
<1> DEFINE error == CheckEarly(name, args)
           asked == [thread[t] EXCEPT !.pc = "asked", !.name = name, !.args = args]
<1>1. thread[t] \in Thread /\ thread[t] = Idle
  BY DEF Inv, TypeOK, CallInv, Sound, Call, At
<1>2. PICK state \in Thread : Sound(state) /\ state.pc # "watching" /\ thread' = [thread EXCEPT ![t] = state]
  <2>1. CASE error = "OK"
    <3>1. thread' = [thread EXCEPT ![t] = asked]
      BY <2>1 DEF Call, Inv, TypeOK
    <3>2. thread[t].answer = "none" /\ thread[t].served = Nothing /\ args \in Passed
      BY <1>1 DEF Idle, Passed
    <3>3. /\ asked.pc = "asked" /\ asked.name = name /\ asked.args = args
          /\ asked.answer = "none" /\ asked.served = Nothing /\ asked \in Thread
      BY <1>1, <3>2 DEF Thread
    <3> HIDE DEF asked
    <3>4. Sound(asked)
      BY <2>1, <3>3 DEF Sound, Calling
    <3> QED BY <3>1, <3>3, <3>4
  <2>2. CASE error # "OK"
    <3>1. thread' = [thread EXCEPT ![t] = Outcomes(thread[t], error)]
      BY <2>2 DEF Call, Told, Inv, TypeOK
    <3>2. error \in {"OK", "INVALID_PARAM", "ICON_OVER_SIZE", "PICTURE_OVER_SIZE"}
      BY DEF CheckEarly, CheckRequest, CheckImageSize, CheckImageSizeForContent
    <3>3. thread[t].answer = "none"
      BY <1>1 DEF Idle
    <3> HIDE DEF error
    <3>4. /\ error \in Errors
          /\ error = "OK" => thread[t].answer = "OK"
          /\ thread[t].answer = "OK" => error \in {"OK", "TRANSACT_FAILED"}
      BY <2>2, <3>2, <3>3 DEF Errors
    <3>5. /\ Outcomes(thread[t], error) \in Thread /\ Sound(Outcomes(thread[t], error))
          /\ Outcomes(thread[t], error).pc # "watching"
      BY <1>1, <3>4, OutcomesAreSound
    <3> QED BY <3>1, <3>5
  <2> QED BY <2>1, <2>2
<1>3. thread' \in [Threads -> Thread] /\ CallInv'
  BY <1>2, OneThread DEF Inv, TypeOK
<1>4. HandleInv'
  BY <1>2, NoOneElseWatches DEF Inv, TypeOK, Call
<1> QED BY <1>3, <1>4 DEF Inv, TypeOK, Call

(* A thread that takes the handle, looks it up, or is told there is none.      *)
LEMMA GetAnsManagerProxyKeeps ==
  ASSUME Inv, NEW t \in Threads, GetAnsManagerProxy(t)
  PROVE  Inv'
<1>1. /\ thread[t] \in Thread /\ Sound(thread[t])
      /\ thread[t].pc \in Calling \ {"answered"} /\ thread[t].answer = "none"
  BY DEF Inv, TypeOK, CallInv, Sound, Calling, GetAnsManagerProxy, At
<1>2. CASE handle # 0 /\ Goes(t, "connected") /\ UNCHANGED handle
  <2>1. PICK state \in Thread : Sound(state) /\ state.pc = "connected" /\ thread' = [thread EXCEPT ![t] = state]
    <3> DEFINE state == [thread[t] EXCEPT !.pc = "connected"]
    <3>1. thread' = [thread EXCEPT ![t] = state]
      BY <1>2 DEF Goes, Inv, TypeOK
    <3>2. state \in Thread /\ Sound(state)
      BY <1>1, GoesIsSound DEF Calling
    <3>3. state.pc = "connected"
      BY <1>1 DEF Thread
    <3> QED BY <3>1, <3>2, <3>3
  <2>2. thread' \in [Threads -> Thread] /\ CallInv'
    BY <2>1, OneThread DEF Inv, TypeOK
  <2>3. HandleInv'
    BY <1>2, <2>1, NoOneElseWatches DEF Inv, TypeOK, GetAnsManagerProxy
  <2> QED BY <1>2, <2>2, <2>3 DEF Inv, TypeOK, GetAnsManagerProxy
<1>3. CASE handle = 0 /\ ~Locked /\ service.up /\ handle' = service.gen /\ Goes(t, "watching")
  <2> DEFINE state == [thread[t] EXCEPT !.pc = "watching"]
  <2>1. thread' = [thread EXCEPT ![t] = state]
    BY <1>3 DEF Goes, Inv, TypeOK
  <2>2. state \in Thread /\ Sound(state)
    BY <1>1, GoesIsSound DEF Calling
  <2> HIDE DEF state
  <2>3. thread' \in [Threads -> Thread] /\ CallInv'
    BY <2>1, <2>2, OneThread DEF Inv, TypeOK
  <2>4. handle' \in 1 .. MaxStart /\ watched' = 0 /\ service' = service /\ alive' = alive
    BY <1>3 DEF Inv, TypeOK, HandleInv, GetAnsManagerProxy
  <2>5. \A u \in Threads : thread'[u].pc = "watching" => u = t
    BY <1>3, <2>1 DEF Locked, Inv, TypeOK
  <2>6. HandleInv'
    BY <1>3, <2>4, <2>5 DEF HandleInv, Inv, TypeOK
  <2>7. handle' \in 0 .. MaxStart /\ watched' \in 0 .. MaxStart
    BY <2>4, ClientAssumption DEF ClientAssumption
  <2> QED BY <2>3, <2>4, <2>6, <2>7 DEF Inv, TypeOK
<1>4. CASE Told(t, "NOT_CONNECTED") /\ UNCHANGED handle
  <2> DEFINE state == Outcomes(thread[t], "NOT_CONNECTED")
  <2>1. thread' = [thread EXCEPT ![t] = state]
    BY <1>4 DEF Told, Inv, TypeOK
  <2>2. state \in Thread /\ Sound(state) /\ state.pc = "told"
    BY <1>1, OutcomesAreSound DEF Errors
  <2> HIDE DEF state
  <2>3. thread' \in [Threads -> Thread] /\ CallInv'
    BY <2>1, <2>2, OneThread DEF Inv, TypeOK
  <2>4. HandleInv'
    BY <1>4, <2>1, <2>2, NoOneElseWatches DEF Inv, TypeOK, GetAnsManagerProxy
  <2> QED BY <1>4, <2>3, <2>4 DEF Inv, TypeOK, GetAnsManagerProxy
<1> QED BY <1>2, <1>3, <1>4 DEF GetAnsManagerProxy

LEMMA AddDeathRecipientKeeps ==
  ASSUME Inv, NEW t \in Threads, AddDeathRecipient(t)
  PROVE  Inv'
<1> DEFINE state == [thread[t] EXCEPT !.pc = "connected"]
<1>1. thread[t] \in Thread /\ Sound(thread[t]) /\ thread[t].pc = "watching"
  BY DEF Inv, TypeOK, CallInv, AddDeathRecipient, At
<1>2. thread' = [thread EXCEPT ![t] = state]
  BY DEF AddDeathRecipient, Goes, Inv, TypeOK
<1>3. state \in Thread /\ Sound(state)
  BY <1>1, GoesIsSound DEF Calling
<1>4. state.pc = "connected"
  BY <1>1 DEF Thread
<1> HIDE DEF state
<1>5. thread' \in [Threads -> Thread] /\ CallInv'
  BY <1>2, <1>3, OneThread DEF Inv, TypeOK
<1>6. \A u \in Threads : thread'[u].pc # "watching"
  BY <1>1, <1>2, <1>4 DEF Inv, TypeOK, HandleInv
<1>7. /\ watched' \in {0, handle} /\ handle' = handle /\ service' = service /\ alive' = alive
  BY DEF AddDeathRecipient
<1>8. HandleInv'
  BY <1>6, <1>7 DEF HandleInv, Inv, Locked
<1>9. watched' \in 0 .. MaxStart
  BY <1>7, ClientAssumption DEF Inv, TypeOK, ClientAssumption
<1> QED BY <1>5, <1>7, <1>8, <1>9 DEF Inv, TypeOK

(* The call by the handle: the application ends, the client tells an error, or *)
(* the parcel is sent.                                                         *)
LEMMA TransactKeeps ==
  ASSUME Inv, NEW t \in Threads, Transact(t)
  PROVE  Inv'
<1> DEFINE name == thread[t].name
           error == CheckLate(name, thread[t].args)
<1>1. /\ thread[t] \in Thread /\ Sound(thread[t])
      /\ thread[t].pc = "connected" /\ thread[t].answer = "none"
  BY DEF Inv, TypeOK, CallInv, Sound, Calling, Transact, At
<1>2. UNCHANGED <<handle, watched, service>> /\ alive' \in BOOLEAN
  BY DEF Transact
<1>3. CASE UNCHANGED thread
  BY <1>2, <1>3 DEF Inv, TypeOK, CallInv, HandleInv, Locked
<1>4. ASSUME NEW told \in Errors \ {"OK"}, Told(t, told)
      PROVE  Inv'
  <2> DEFINE state == Outcomes(thread[t], told)
  <2>1. thread' = [thread EXCEPT ![t] = state]
    BY <1>4 DEF Told, Inv, TypeOK
  <2>2. state \in Thread /\ Sound(state) /\ state.pc = "told"
    BY <1>1, OutcomesAreSound
  <2> HIDE DEF state
  <2>3. thread' \in [Threads -> Thread] /\ CallInv'
    BY <2>1, <2>2, OneThread DEF Inv, TypeOK
  <2>4. HandleInv'
    BY <1>2, <2>1, <2>2, NoOneElseWatches DEF Inv, TypeOK
  <2> QED BY <1>2, <2>3, <2>4 DEF Inv, TypeOK
<1>5. CASE Goes(t, "sent")
  <2> DEFINE state == [thread[t] EXCEPT !.pc = "sent"]
  <2>1. thread' = [thread EXCEPT ![t] = state]
    BY <1>5 DEF Goes, Inv, TypeOK
  <2>2. state \in Thread /\ Sound(state)
    BY <1>1, GoesIsSound DEF Calling
  <2>3. state.pc = "sent"
    BY <1>1 DEF Thread
  <2> HIDE DEF state
  <2>4. thread' \in [Threads -> Thread] /\ CallInv'
    BY <2>1, <2>2, OneThread DEF Inv, TypeOK
  <2>5. HandleInv'
    BY <1>2, <2>1, <2>2, <2>3, NoOneElseWatches DEF Inv, TypeOK
  <2> QED BY <1>2, <2>4, <2>5 DEF Inv, TypeOK
<1>6. error \in {"OK", "NO_MEMORY", "INVALID_PARAM"}
  BY DEF CheckLate
<1>7. \/ UNCHANGED thread
      \/ error # "OK" /\ Told(t, error)
      \/ Told(t, "INVALID_PARAM")
      \/ Goes(t, "sent")
      \/ Told(t, "TRANSACT_FAILED")
  BY DEF Transact
<1> HIDE DEF error
<1>8. error # "OK" => error \in Errors \ {"OK"}
  BY <1>6 DEF Errors
<1>9. {"INVALID_PARAM", "TRANSACT_FAILED"} \subseteq Errors \ {"OK"}
  BY DEF Errors
<1> QED BY <1>3, <1>4, <1>5, <1>7, <1>8, <1>9

(* The handler serves the call, or cannot read it.                             *)
LEMMA OnRemoteRequestKeeps ==
  ASSUME Inv, NEW t \in Threads, OnRemoteRequest(t)
  PROVE  Inv'
<1> DEFINE name == thread[t].name
           args == thread[t].args
           handler == AnsManagerStub[Client[name].via]
           parcel == Written(Method(name).writes, Handed(name, args))
           Answered(result, served) ==
             [thread[t] EXCEPT !.pc = "answered", !.answer = result, !.served = served]
           Unread == [thread[t] EXCEPT !.pc = "answered", !.answer = "unread"]
<1>1. /\ thread[t] \in Thread /\ Sound(thread[t]) /\ thread[t].pc = "sent"
      /\ name \in DOMAIN Client /\ args \in ArgumentsOf[name] /\ CheckEarly(name, args) = "OK"
      /\ thread[t].served = Nothing
  BY DEF Inv, TypeOK, CallInv, Sound, Calling, OnRemoteRequest, At
<1>2. UNCHANGED <<handle, watched, service, alive>>
  BY DEF OnRemoteRequest
<1>3. ASSUME NEW state \in Thread, state.pc = "answered", state.name = name, state.args = args,
             state.answer # "none",
             state.served # Nothing => /\ state.served = Handed(name, args)
                                       /\ \A n \in DOMAIN state.served : state.served[n] # "null",
             thread' = [thread EXCEPT ![t] = state]
      PROVE  Inv'
  <2>1. Sound(state)
    BY <1>1, <1>3 DEF Sound, Calling
  <2>2. thread' \in [Threads -> Thread] /\ CallInv'
    BY <1>3, <2>1, OneThread DEF Inv, TypeOK
  <2>3. HandleInv'
    BY <1>2, <1>3, NoOneElseWatches DEF Inv, TypeOK
  <2> QED BY <1>2, <2>2, <2>3 DEF Inv, TypeOK
<1>4. ASSUME Reads(parcel, handler.reads), NEW result \in {"OK", "refused"},
             thread' = [thread EXCEPT ![t] = Answered(result, ReadValue(parcel, handler.reads))]
      PROVE  Inv'
  <2> DEFINE served == ReadValue(parcel, handler.reads)
             state == Answered(result, served)
  <2>1. served = Handed(name, args) /\ \A n \in DOMAIN served : served[n] # "null"
    BY <1>1, <1>4, ServedIsHanded
  <2>2. served \in Parcels
    BY <1>1, <2>1 DEF Parcels, Passed
  <2> HIDE DEF served
  <2>3. /\ state.pc = "answered" /\ state.name = name /\ state.args = args
        /\ state.answer = result /\ state.served = served /\ state \in Thread
    BY <1>1, <2>2 DEF Thread
  <2>4. thread' = [thread EXCEPT ![t] = state]
    BY <1>4 DEF served
  <2> HIDE DEF state
  <2> QED BY <1>3, <2>1, <2>3, <2>4
<1>5. CASE thread' = [thread EXCEPT ![t] = Unread]
  <2>1. /\ Unread.pc = "answered" /\ Unread.name = name /\ Unread.args = args
        /\ Unread.answer = "unread" /\ Unread.served = Nothing /\ Unread \in Thread
    BY <1>1 DEF Thread
  <2> HIDE DEF Unread
  <2> QED BY <1>3, <1>5, <2>1
<1>6. \/ /\ Reads(parcel, handler.reads)
         /\ \E result \in {"OK", "refused"} :
              thread' = [thread EXCEPT ![t] = Answered(result, ReadValue(parcel, handler.reads))]
      \/ thread' = [thread EXCEPT ![t] = Unread]
  BY DEF OnRemoteRequest
<1> QED BY <1>4, <1>5, <1>6

LEMMA ReceiveKeeps ==
  ASSUME Inv, NEW t \in Threads, Receive(t)
  PROVE  Inv'
<1> DEFINE error == Outcome(thread[t].name, thread[t].answer)
           state == Outcomes(thread[t], error)
<1>1. /\ thread[t] \in Thread /\ thread[t].name \in DOMAIN Client
      /\ thread[t].answer \in {"OK", "refused", "unread"}
  BY DEF Inv, TypeOK, CallInv, Sound, Thread, Calling, Receive, At
<1>2. thread' = [thread EXCEPT ![t] = state]
  BY DEF Receive, Told, Inv, TypeOK
<1>3. /\ error \in Errors
      /\ error = "OK" <=> thread[t].answer = "OK"
  BY <1>1, OutcomeIsTheAnswer DEF Errors
<1> HIDE DEF error
<1>4. state \in Thread /\ Sound(state) /\ state.pc = "told"
  BY <1>1, <1>3, OutcomesAreSound
<1> HIDE DEF state
<1>5. thread' \in [Threads -> Thread] /\ CallInv'
  BY <1>2, <1>4, OneThread DEF Inv, TypeOK
<1>6. HandleInv'
  BY <1>2, <1>4, NoOneElseWatches DEF Inv, TypeOK, Receive
<1> QED BY <1>5, <1>6 DEF Inv, TypeOK, Receive

LEMMA ReturnKeeps ==
  ASSUME Inv, NEW t \in Threads, Return(t)
  PROVE  Inv'
<1>1. thread' = [thread EXCEPT ![t] = Idle] /\ Idle.pc = "idle"
  BY DEF Return, Idle
<1>2. thread' \in [Threads -> Thread] /\ CallInv'
  BY <1>1, IdleIsSound, OneThread DEF Inv, TypeOK
<1>3. HandleInv'
  BY <1>1, IdleIsSound, NoOneElseWatches DEF Inv, TypeOK, Return
<1> QED BY <1>2, <1>3 DEF Inv, TypeOK, Return

(* The service dies: a call that it had not answered is told so, and of those  *)
(* it had answered some may be.                                                *)
LEMMA ServiceDiesKeeps ==
  ASSUME Inv, ServiceDies
  PROVE  Inv'
<1>1. PICK lost \in SUBSET {t \in Threads : thread[t].pc = "answered"} :
        thread' = [t \in Threads |-> IF thread[t].pc = "sent" \/ t \in lost
                                     THEN Outcomes(thread[t], "TRANSACT_FAILED")
                                     ELSE thread[t]]
  BY DEF ServiceDies
<1>2. ASSUME NEW t \in Threads
      PROVE  /\ thread'[t] \in Thread /\ Sound(thread'[t])
             /\ thread'[t].pc = "watching" <=> thread[t].pc = "watching"
  <2>1. thread[t] \in Thread /\ Sound(thread[t])
    BY DEF Inv, TypeOK, CallInv
  <2>2. CASE thread[t].pc = "sent" \/ t \in lost
    <3>1. thread'[t] = Outcomes(thread[t], "TRANSACT_FAILED")
      BY <1>1, <2>2
    <3> QED BY <2>1, <2>2, <3>1, OutcomesAreSound DEF Errors
  <2>3. CASE ~(thread[t].pc = "sent" \/ t \in lost)
    BY <1>1, <2>1, <2>3
  <2> QED BY <2>2, <2>3
<1>3. thread' \in [Threads -> Thread]
  BY <1>1, <1>2
<1>4. CallInv'
  BY <1>2 DEF CallInv
<1>5. service' \in [gen : 1 .. MaxStart, up : BOOLEAN] /\ service'.gen = service.gen
  BY DEF ServiceDies, Inv, TypeOK
<1>6. UNCHANGED <<handle, watched, alive>>
  BY DEF ServiceDies
<1>7. HandleInv'
  BY <1>2, <1>5, <1>6 DEF Inv, HandleInv, Locked
<1> QED BY <1>3, <1>4, <1>5, <1>6, <1>7 DEF Inv, TypeOK

LEMMA ServiceStartsKeeps ==
  ASSUME Inv, ServiceStarts
  PROVE  Inv'
<1>1. service' \in [gen : 1 .. MaxStart, up : BOOLEAN] /\ service'.gen = service.gen + 1
  <2>1. service.gen + 1 \in 1 .. MaxStart
    BY ClientAssumption DEF ServiceStarts, Inv, TypeOK, ClientAssumption
  <2> QED BY <2>1 DEF ServiceStarts
<1>2. UNCHANGED <<handle, watched, thread, alive>>
  BY DEF ServiceStarts
<1>3. handle <= service.gen + 1
  BY ClientAssumption DEF Inv, TypeOK, HandleInv, ClientAssumption
<1>4. HandleInv'
  BY <1>1, <1>2, <1>3 DEF Inv, HandleInv, Locked
<1> QED BY <1>1, <1>2, <1>4 DEF Inv, TypeOK, CallInv

(* The handle is dropped, by its death or with the application.                *)
LEMMA ResetAnsManagerProxyKeeps ==
  ASSUME Inv, ResetAnsManagerProxy
  PROVE  Inv'
<1>1. 0 \in 0 .. MaxStart /\ 0 <= service.gen
  BY ClientAssumption DEF Inv, TypeOK, ClientAssumption
<1>2. ~Locked /\ handle' = 0 /\ watched' = 0 /\ UNCHANGED <<service, thread, alive>>
  BY DEF ResetAnsManagerProxy
<1> QED BY <1>1, <1>2 DEF Inv, TypeOK, CallInv, HandleInv, Locked

LEMMA RestartKeeps ==
  ASSUME Inv, Restart
  PROVE  Inv'
<1>1. 0 \in 0 .. MaxStart /\ 0 <= service.gen
  BY ClientAssumption DEF Inv, TypeOK, ClientAssumption
<1>2. /\ handle' = 0 /\ watched' = 0 /\ UNCHANGED service /\ alive' = TRUE
      /\ thread' = [t \in Threads |-> Idle]
  BY DEF Restart
<1>3. \A t \in Threads : thread'[t].pc # "watching"
  BY <1>2 DEF Idle
<1>4. thread' \in [Threads -> Thread] /\ CallInv'
  BY <1>2, IdleIsSound DEF CallInv
<1>5. HandleInv'
  BY <1>1, <1>2, <1>3 DEF HandleInv, Locked
<1> QED BY <1>1, <1>2, <1>4, <1>5 DEF Inv, TypeOK

LEMMA NextKeeps == Inv /\ [Next]_vars => Inv'
<1> SUFFICES ASSUME Inv, [Next]_vars PROVE Inv'
  OBVIOUS
<1>1. CASE \E t \in Threads, name \in DOMAIN Client : \E args \in ArgumentsOf[name] : Call(t, name, args)
  BY <1>1, CallKeeps
<1>2. CASE \E t \in Threads : Proceeds(t)
  BY <1>2, GetAnsManagerProxyKeeps, AddDeathRecipientKeeps, TransactKeeps, OnRemoteRequestKeeps,
     ReceiveKeeps, ReturnKeeps DEF Proceeds
<1>3. CASE UNCHANGED vars
  BY <1>3 DEF vars, Inv, TypeOK, CallInv, HandleInv, Locked
<1> QED
  BY <1>1, <1>2, <1>3, ServiceDiesKeeps, ServiceStartsKeeps, ResetAnsManagerProxyKeeps, RestartKeeps
  DEF Next

LEMMA SpecInv == Spec => []Inv
BY InitInv, NextKeeps, PTL DEF Spec

----------------------------------------------------------------------------
(* A thread of the application is always in one of the stages of a call, with  *)
(* arguments that a client function takes, and with what was handed on for     *)
(* them; the handle, the watch and the service keep to their starts.           *)
THEOREM FrameworkIsTyped == Spec => []TypeOK
<1>1. Inv => TypeOK
  BY DEF Inv
<1> QED BY <1>1, SpecInv, PTL

(* Whatever a client function writes into a parcel, the handler of its method  *)
(* reads in the same places and types, and what the handler answers, the       *)
(* method awaits: the two files, which list the methods apart, agree in all    *)
(* that the client uses (ans_manager_proxy.cpp, ans_manager_stub.cpp).         *)
THEOREM EveryCallFits ==
  \A name \in DOMAIN Client : Fits(Method(name), AnsManagerStub[Client[name].via])
BY ClientFits DEF GoesByFitting, Fitting, Method

(* A call is carried as it was made: the service is asked what the client was  *)
(* asked, and the caller is told what the service answered, or that the way    *)
(* there failed.                                                               *)
THEOREM EveryCallIsCarried == Spec => []CallIsCarried
<1>1. Inv => CallIsCarried
  <2> SUFFICES ASSUME Inv, NEW t \in Threads
               PROVE  /\ thread[t].served # Nothing =>
                           thread[t].served = Handed(thread[t].name, thread[t].args)
                      /\ thread[t].pc = "told" =>
                           /\ thread[t].told = "OK" => thread[t].answer = "OK"
                           /\ thread[t].answer = "OK" => thread[t].told \in {"OK", "TRANSACT_FAILED"}
                           /\ thread[t].told # "garbled"
    BY DEF CallIsCarried
  <2>1. Sound(thread[t]) /\ thread[t].told \in Errors
    BY DEF Inv, TypeOK, CallInv, Thread
  <2> QED BY <2>1 DEF Sound, Errors
<1> QED BY <1>1, SpecInv, PTL

(* A request that reaches the service passed the checks of the client, also    *)
(* after its distribution was taken from it.                                   *)
THEOREM ServedRequestsArePublishable == Spec => []ServedIsPublishable
<1>1. Inv => ServedIsPublishable
  <2> SUFFICES ASSUME Inv, NEW t \in Threads, "request" \in DOMAIN thread[t].served
               PROVE  LET request == thread[t].served["request"]
                      IN  /\ CheckRequest(request) = "OK"
                          /\ IsNonDistributedNotificationType(request) =>
                               \/ ~Kinds[request].distributed
                               \/ /\ thread[t].name = "PublishNotificationToDevice"
                                  /\ thread[t].args["deviceId"] = "empty"
    BY DEF ServedIsPublishable
  <2>1. thread[t].served # Nothing
    BY DEF Nothing
  <2>2. /\ thread[t].name \in DOMAIN Client /\ thread[t].args \in ArgumentsOf[thread[t].name]
        /\ CheckEarly(thread[t].name, thread[t].args) = "OK"
        /\ thread[t].served = Handed(thread[t].name, thread[t].args)
        /\ thread[t].served["request"] # "null"
    BY <2>1 DEF Inv, CallInv, Sound, Calling
  <2> QED BY <2>2, HandedIsPublishable
<1> QED BY <1>1, SpecInv, PTL

(* Threads that ask for the service at the same time do not look it up twice:  *)
(* the look-up and the watch are under one lock (ans_notification.cpp:1055).   *)
OneLooksUp == \A t, u \in Threads : thread[t].pc = "watching" /\ thread[u].pc = "watching" => t = u

THEOREM TheLookUpIsExclusive == Spec => []OneLooksUp
<1>1. Inv => OneLooksUp
  BY DEF Inv, HandleInv, OneLooksUp
<1> QED BY <1>1, SpecInv, PTL

(* The handle the threads share changes from none to the one of the service    *)
(* that runs, and back only when its own service is dead or with the           *)
(* application: a death that is heard late drops no handle of a later start.   *)
HandleChanges ==
  handle' # handle =>
    IF handle = 0 THEN service.up /\ handle' = service.gen
    ELSE handle' = 0 /\ (~alive \/ ~Runs(handle))

THEOREM ALiveHandleIsKept == Spec => [][HandleChanges]_vars
<1>1. Inv /\ [Next]_vars => [HandleChanges]_vars
  <2> SUFFICES ASSUME Inv, Next, handle' # handle
               PROVE  IF handle = 0 THEN service.up /\ handle' = service.gen
                      ELSE handle' = 0 /\ (~alive \/ ~Runs(handle))
    BY DEF HandleChanges, vars
  <2>1. CASE \E t \in Threads, name \in DOMAIN Client : \E args \in ArgumentsOf[name] : Call(t, name, args)
    BY <2>1 DEF Call
  <2>2. CASE \E t \in Threads : Proceeds(t)
    <3>1. PICK t \in Threads : Proceeds(t)
      BY <2>2
    <3>2. GetAnsManagerProxy(t)
      BY <3>1 DEF Proceeds, AddDeathRecipient, Transact, OnRemoteRequest, Receive, Return
    <3> QED BY <3>2 DEF GetAnsManagerProxy
  <2>3. CASE ResetAnsManagerProxy
    BY <2>3 DEF ResetAnsManagerProxy, Inv, HandleInv
  <2>4. CASE Restart
    BY <2>4 DEF Restart
  <2>5. CASE ServiceDies \/ ServiceStarts
    BY <2>5 DEF ServiceDies, ServiceStarts
  <2> QED BY <2>1, <2>2, <2>3, <2>4, <2>5 DEF Next
<1> QED BY <1>1, SpecInv, PTL DEF Spec
=============================================================================
