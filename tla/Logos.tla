------------------------------- MODULE Logos -------------------------------
(***************************************************************************)
(* Pictures of reference data: PaymentMethodService, DeliveryMethodService *)
(* (both extend BaseService) and BrandService.                             *)
(*                                                                         *)
(* A row names a file in the cloud store, which clients upload first.      *)
(* Handlers remove the old file and then save the row, or do not save it   *)
(* at all.  BrandService waits neither for the removal of a file nor, in   *)
(* updateThumbnail, for the save; when such a call fails, nobody handles   *)
(* the rejection and the server stops.                                     *)
(*                                                                         *)
(* Names, fees and texts are left out, and that names are unique.  The     *)
(* client uploads a file of its own for each request, or names again the   *)
(* one that the row has.                                                   *)
(***************************************************************************)
EXTENDS Parties

CONSTANT LogoFiles \* the files that clients upload

LogoTables == {"PaymentMethod", "DeliveryMethod", "Brand"}

LogoRow == [table: LogoTables, file: LogoFiles]

LJob == [phase: {"idle", "loaded", "bare", "sent"},
         op: {"none", "updatePaymentMethod", "updateDeliveryMethod",
              "removeDeliveryMethod", "updateBrand", "updateThumbnail", "removeBrand"},
         at: 0 .. MaxRows, old: SUBSET LogoFiles, new: SUBSET LogoFiles, alone: BOOLEAN]

IdleLJob == [phase |-> "idle", op |-> "none", at |-> 0, old |-> {}, new |-> {},
             alone |-> TRUE]

VARIABLES
    logo,   \* the rows that were inserted
    inShop, \* the numbers of the rows that are still there
    drive,  \* the files in the cloud store
    doomed, \* files whose removal nobody waits for
    ljob,   \* the requests in flight
    frayed  \* ghost: rows whose requests overlapped or stopped half way, whose
            \* file was named again, or whose update was never saved

logoVars == <<logo, inShop, drive, doomed, ljob, frayed>>

---------------------------------------------------------------------------

LBusy == {k \in Clerks : ljob[k].phase # "idle"}

\* The file is there and nobody has named it.
FreshFile(f) ==
    /\ f \in drive \ doomed
    /\ \A i \in DOMAIN logo : logo[i].file # f
    /\ \A k \in Clerks : f \notin ljob[k].old \cup ljob[k].new

\* A request about row i starts and will store file f.
LStart(k, op, i, f) ==
    LET rivals == {l \in LBusy : ljob[l].at = i} IN
    /\ Uses(op)
    /\ k \notin LBusy
    /\ FreshFile(f) \/ f = logo[i].file
    /\ ljob' = [l \in Clerks |->
                   IF l = k THEN [phase |-> "loaded", op |-> op, at |-> i,
                                  old |-> {logo[i].file}, new |-> {f},
                                  alone |-> rivals = {}]
                   ELSE IF l \in rivals THEN [ljob[l] EXCEPT !.alone = FALSE]
                   ELSE ljob[l]]

LDone(k) == ljob' = [ljob EXCEPT ![k] = IdleLJob]

In(t) == {i \in inShop : logo[i].table = t}

InsertLogo(t, f) ==
    /\ HasRoom(logo)
    /\ FreshFile(f)
    /\ logo' = Append(logo, [table |-> t, file |-> f])
    /\ inShop' = inShop \cup {Len(logo) + 1}
    /\ UNCHANGED <<drive, doomed, ljob, frayed>>

\* Mutant: the row keeps the name of the old file.
StoredMutant(j) == j.old

\* The file that request j stores.
Stored(j) == j.new

\* The whole row is stored; one deleted meanwhile is inserted again.
SaveLogo(k) ==
    LET j == ljob[k] IN
    /\ \E f \in Stored(j) : logo' = [logo EXCEPT ![j.at].file = f]
    /\ inShop' = inShop \cup {j.at}
    /\ LDone(k)
    /\ UNCHANGED <<drive, doomed>>

\* The old file is removed, and the handler waits for it.
RemoveLogo(k, op) ==
    LET j == ljob[k] IN
    /\ j.op = op /\ j.phase = "loaded"
    /\ drive' = drive \ j.old
    /\ UNCHANGED <<logo, inShop, doomed>>

\* The row is deleted, if it is still there.
DeleteLogo(k) ==
    LET j == ljob[k] IN
    /\ j.at \in inShop
    /\ inShop' = inShop \ {j.at}
    /\ LDone(k)
    /\ UNCHANGED <<logo, drive, doomed, frayed>>

---------------------------------------------------------------------------
(* Payment methods *)

CreatePaymentMethod(f) == Uses("createPaymentMethod") /\ InsertLogo("PaymentMethod", f)

UpdatePaymentMethodLoad(k, i, f) ==
    /\ i \in In("PaymentMethod")
    /\ LStart(k, "updatePaymentMethod", i, f)
    /\ UNCHANGED <<logo, inShop, drive, doomed, frayed>>

\* The old file goes whatever file the request names.
UpdatePaymentMethodRemove(k) ==
    /\ RemoveLogo(k, "updatePaymentMethod")
    /\ ljob' = [ljob EXCEPT ![k].phase = "bare"]
    /\ UNCHANGED frayed

UpdatePaymentMethodSave(k) ==
    LET j == ljob[k] IN
    /\ j.op = "updatePaymentMethod" /\ j.phase = "bare"
    /\ SaveLogo(k)
    /\ frayed' = IF j.alone /\ j.new # j.old THEN frayed \ {j.at} ELSE frayed \cup {j.at}

---------------------------------------------------------------------------
(* Delivery methods *)

CreateDeliveryMethod(f) == Uses("createDeliveryMethod") /\ InsertLogo("DeliveryMethod", f)

UpdateDeliveryMethodLoad(k, i, f) ==
    /\ i \in In("DeliveryMethod")
    /\ LStart(k, "updateDeliveryMethod", i, f)
    /\ UNCHANGED <<logo, inShop, drive, doomed, frayed>>

\* That is all: the answer shows the new values, nothing stores them.
UpdateDeliveryMethodRemove(k) ==
    /\ RemoveLogo(k, "updateDeliveryMethod")
    /\ frayed' = frayed \cup {ljob[k].at}
    /\ LDone(k)

RemoveDeliveryMethodLoad(k, i) ==
    /\ i \in In("DeliveryMethod")
    /\ LStart(k, "removeDeliveryMethod", i, logo[i].file)
    /\ UNCHANGED <<logo, inShop, drive, doomed, frayed>>

RemoveDeliveryMethodRemove(k) ==
    /\ RemoveLogo(k, "removeDeliveryMethod")
    /\ ljob' = [ljob EXCEPT ![k].phase = "bare"]
    /\ UNCHANGED frayed

RemoveDeliveryMethod(k) ==
    /\ ljob[k].op = "removeDeliveryMethod" /\ ljob[k].phase = "bare"
    /\ DeleteLogo(k)

---------------------------------------------------------------------------
(* Brands *)

CreateBrand(f) == Uses("createBrand") /\ InsertLogo("Brand", f)

UpdateBrandLoad(k, i, f) ==
    /\ i \in In("Brand")
    /\ LStart(k, "updateBrand", i, f)
    /\ UNCHANGED <<logo, inShop, drive, doomed, frayed>>

\* No file is removed; but the copy may name one that went meanwhile.
UpdateBrandSave(k) ==
    LET j == ljob[k] IN
    /\ j.op = "updateBrand"
    /\ SaveLogo(k)
    /\ frayed' = IF j.alone THEN frayed ELSE frayed \cup {j.at}

\* The removal of the old file starts.
UpdateThumbnailLoad(k, i, f) ==
    /\ i \in In("Brand")
    /\ FreshFile(f)
    /\ LStart(k, "updateThumbnail", i, f)
    /\ doomed' = doomed \cup {logo[i].file}
    /\ UNCHANGED <<logo, inShop, drive, frayed>>

\* The new file is there, the client has its answer, and the save is on its way.
UpdateThumbnailAnswer(k) ==
    /\ ljob[k].op = "updateThumbnail" /\ ljob[k].phase = "loaded"
    /\ ljob' = [ljob EXCEPT ![k].phase = "sent"]
    /\ UNCHANGED <<logo, inShop, drive, doomed, frayed>>

UpdateThumbnailSave(k) ==
    LET j == ljob[k] IN
    /\ j.op = "updateThumbnail" /\ j.phase = "sent"
    /\ SaveLogo(k)
    /\ frayed' = IF j.alone THEN frayed \ {j.at} ELSE frayed \cup {j.at}

RemoveBrandLoad(k, i) ==
    /\ i \in In("Brand")
    /\ LStart(k, "removeBrand", i, logo[i].file)
    /\ doomed' = doomed \cup {logo[i].file}
    /\ UNCHANGED <<logo, inShop, drive, frayed>>

RemoveBrand(k) ==
    /\ ljob[k].op = "removeBrand"
    /\ DeleteLogo(k)

\* A removal that nobody waits for takes effect.
DropFile(f) ==
    /\ f \in doomed
    /\ doomed' = doomed \ {f}
    /\ drive' = drive \ {f}
    /\ UNCHANGED <<logo, inShop, ljob, frayed>>

---------------------------------------------------------------------------

\* What a request leaves frayed that stops now.
Half(j) == IF j.phase # "idle" /\ (j.phase # "loaded" \/ j.op \in {"updateThumbnail", "removeBrand"})
             THEN {j.at} ELSE {}

\* A check refuses, or a statement or a removal fails.
LAbort(k) ==
    /\ k \in LBusy
    /\ frayed' = frayed \cup Half(ljob[k])
    /\ LDone(k)
    /\ UNCHANGED <<logo, inShop, drive, doomed>>

\* A removal that nobody waits for fails, and the server stops with all requests.
LRestart ==
    /\ doomed # {}
    /\ frayed' = frayed \cup UNION {Half(ljob[k]) : k \in Clerks}
    /\ doomed' = {}
    /\ ljob' = [k \in Clerks |-> IdleLJob]
    /\ UNCHANGED <<logo, inShop, drive>>

---------------------------------------------------------------------------

LInit ==
    /\ logo = <<>> /\ inShop = {}
    /\ drive = LogoFiles /\ doomed = {}
    /\ ljob = [k \in Clerks |-> IdleLJob]
    /\ frayed = {}

PaymentMethodController ==
    \E f \in LogoFiles :
        \/ CreatePaymentMethod(f)
        \/ \E k \in Clerks, i \in inShop : UpdatePaymentMethodLoad(k, i, f)

DeliveryMethodController ==
    \/ \E f \in LogoFiles : \/ CreateDeliveryMethod(f)
                            \/ \E k \in Clerks, i \in inShop : UpdateDeliveryMethodLoad(k, i, f)
    \/ \E k \in Clerks, i \in inShop : RemoveDeliveryMethodLoad(k, i)

BrandController ==
    \/ \E f \in LogoFiles : \/ CreateBrand(f)
                            \/ \E k \in Clerks, i \in inShop : \/ UpdateBrandLoad(k, i, f)
                                                               \/ UpdateThumbnailLoad(k, i, f)
    \/ \E k \in Clerks, i \in inShop : RemoveBrandLoad(k, i)

LNext ==
    \/ PaymentMethodController \/ DeliveryMethodController \/ BrandController
    \/ \E k \in Clerks :
          \/ UpdatePaymentMethodRemove(k) \/ UpdatePaymentMethodSave(k)
          \/ UpdateDeliveryMethodRemove(k)
          \/ RemoveDeliveryMethodRemove(k) \/ RemoveDeliveryMethod(k)
          \/ UpdateBrandSave(k) \/ UpdateThumbnailAnswer(k) \/ UpdateThumbnailSave(k)
          \/ RemoveBrand(k)
          \/ LAbort(k)
    \/ \E f \in LogoFiles : DropFile(f)
    \/ LRestart

---------------------------------------------------------------------------
(* Properties *)

\* A row names a file that is there, or whose removal is on its way while a
\* request is about the row; except for rows that requests left frayed:
\* overlapping ones, ones that stopped after the file was gone, an update that
\* names the file that the row has (which is removed all the same), and an
\* update of a delivery method, which removes the file and is never saved
\* (update, remove, updateThumbnail).
LogosHaveFiles ==
    LET inFlight == {ljob[k].at : k \in LBusy} IN
    \A i \in inShop \ (frayed \cup inFlight) : logo[i].file \in drive \ doomed

---------------------------------------------------------------------------
(* The inductive invariant behind the property *)

LogosTypeOK ==
    /\ logo \in Seq(LogoRow) /\ Len(logo) <= MaxRows
    /\ inShop \subseteq DOMAIN logo
    /\ ljob \in [Clerks -> LJob]

\* A request is about a row and will store one file; while it is alone the row
\* stays as it was read.
LJobOK(k) ==
    LET j == ljob[k] IN
    IF k \in LBusy
    THEN /\ j.at \in DOMAIN logo
         /\ \E f \in LogoFiles : j.old = {f}
         /\ \E f \in LogoFiles : j.new = {f}
         /\ j.op = "updateThumbnail" => j.new # j.old
         /\ j.op = "updateBrand" => j.phase = "loaded"
         /\ j.alone => /\ j.at \in inShop /\ j.old = {logo[j.at].file}
                       /\ \A l \in LBusy : ljob[l].at = j.at => l = k
    ELSE j.op = "none" /\ j.old = {} /\ j.new = {}

\* The files that row i has, or had, or will have.
Named(i) ==
    {logo[i].file} \cup UNION {ljob[k].old \cup ljob[k].new : k \in {l \in LBusy : ljob[l].at = i}}

\* A new file is there, and nobody but the request that brings it names it.
NewThere(k) ==
    \A f \in ljob[k].new \ ljob[k].old :
        /\ f \in drive \ doomed
        /\ logo[ljob[k].at].file # f
        /\ \A l \in Clerks : f \in ljob[l].old \cup ljob[l].new => l = k

\* A row has its file unless some request has begun to remove it.
FileThere(i) ==
    (\A k \in LBusy : i \notin Half(ljob[k])) => logo[i].file \in drive \ doomed

LogosInv ==
    /\ LogosTypeOK
    /\ \A k \in Clerks : LJobOK(k)
    /\ \A i, l \in DOMAIN logo : i = l \/ Named(i) \cap Named(l) = {}
    /\ \A k \in LBusy : NewThere(k)
    /\ \A i \in inShop \ frayed : FileThere(i)

============================================================================
