------------------------------- MODULE Registers -------------------------------
(***************************************************************************)
(* The registers an organization keeps: products, categories and units     *)
(* (src/products), warehouses (src/inventory/warehouse), vendors           *)
(* (src/procurement/vendors), and departments, designations, employees,    *)
(* leave and attendance (src/hrms).  A code is unique in the schema, and   *)
(* some of the services look for it before they write, some do not.        *)
(***************************************************************************)
EXTENDS Integers, SequencesExt, Rows

CONSTANTS
    Codes,          \* codes, names and SKUs a client may send
    Days,           \* days of leave, 1..n; attendance is of one day
    RegisterStarts  \* the rows there are when a behaviour begins

registerVars == rowVars

Product(code, category) ==
    [kind |-> "product", deleted |-> FALSE, status |-> "ACTIVE", code |-> code, parent |-> category]
Category(name, parent) == [kind |-> "category", archived |-> FALSE, code |-> name, parent |-> parent]
Unit(name) == [kind |-> "unit", code |-> name]
Warehouse(code, default) ==
    [kind |-> "warehouse", deleted |-> FALSE, status |-> "ACTIVE", code |-> code, default |-> default]
Vendor(code) == [kind |-> "vendor", deleted |-> FALSE, status |-> "ACTIVE", code |-> code]
Department(code) == [kind |-> "department", code |-> code, active |-> TRUE]
Designation(code) == [kind |-> "designation", code |-> code, active |-> TRUE]
Employee(code, department) ==
    [kind |-> "employee", code |-> code, status |-> "ACTIVE", parent |-> department]
LeaveRequest(employee, from, to) ==
    [kind |-> "leave", employee |-> employee, from |-> from, to |-> to, status |-> "PENDING"]
\* (employee, date) is its unique key; the date is today's.
Attendance(employee) == [kind |-> "attendance", code |-> employee, out |-> FALSE]

All(kind) == {i \in Ids : row[i].kind = kind}
HasCode(kind, code, but) == \E i \in All(kind) \ {but} : row[i].code = code
HasLiveCode(kind, code, but) == \E i \in All(kind) \ {but} : row[i].code = code /\ ~row[i].deleted

\* ---- what the handlers share: find the row, write it ----
Put(c, i, kind, fields) == Found(i, kind) /\ Begin(c, <<Set(i, fields)>>)
Place(c, i, kind, fields) == row[i].kind = kind /\ Begin(c, <<Set(i, fields)>>)
Bury(c, i, kind) == Put(c, i, kind, [deleted |-> TRUE])

\* ---- ProductsService: the schema alone keeps names and SKUs apart ----
CreateCategory(c) ==
    \E n \in Codes, p \in {0} \cup All("category") : BeginInsert(c, <<Insert(Category(n, p))>>)
UpdateCategory(c, i) ==
    \/ \E n \in Codes : Place(c, i, "category", [code |-> n])
    \/ \E p \in {0} \cup All("category") : Place(c, i, "category", [parent |-> p])
    \/ \E b \in BOOLEAN : Place(c, i, "category", [archived |-> b])
DeleteCategory(c, i) == row[i].kind = "category" /\ Begin(c, <<Erase(i)>>)
CreateUnit(c) == \E n \in Codes : BeginInsert(c, <<Insert(Unit(n))>>)
UpdateUnit(c, i) == \E n \in Codes : Place(c, i, "unit", [code |-> n])
DeleteUnit(c, i) == row[i].kind = "unit" /\ Begin(c, <<Erase(i)>>)
CreateProduct(c) ==
    \E s \in Codes, k \in {0} \cup All("category") : BeginInsert(c, <<Insert(Product(s, k))>>)
UpdateProduct(c, i) ==
    \/ \E s \in Codes : Put(c, i, "product", [code |-> s])
    \/ \E k \in All("category") : Put(c, i, "product", [parent |-> k])
ArchiveProduct(c, i) == Put(c, i, "product", [status |-> "INACTIVE"])
RestoreProduct(c, i) == Put(c, i, "product", [status |-> "ACTIVE"])
DeleteProduct(c, i) == Bury(c, i, "product")

\* ---- WarehouseService ----
\* updateMany({ isDefault: true, deletedAt: null }), but for one row: it picks
\* the rows when it runs.
Undefault(i) == [do |-> "undefault", but |-> i]
ClearDefaults(c) ==
    /\ ~Idle(c) /\ Head(todo[c]).do = "undefault"
    /\ row' = [i \in Ids |-> IF Found(i, "warehouse") /\ i # Head(todo[c]).but
                             THEN [row[i] EXCEPT !.default = FALSE] ELSE row[i]]
    /\ todo' = [todo EXCEPT ![c] = Tail(@)]
    /\ UNCHANGED <<begun, overlapped, died>>
UnsetOthers(default, i) == IF default THEN <<Undefault(i)>> ELSE <<>>
\* The code is looked for among warehouses that are not deleted, the schema
\* counts the deleted ones as well: by then the old default is cleared.
CreateWarehouse(c) ==
    \E s \in Codes, d \in BOOLEAN :
        /\ ~HasLiveCode("warehouse", s, 0)
        /\ BeginInsert(c, UnsetOthers(d, 0) \o <<Insert(Warehouse(s, d))>>)
UpdateWarehouse(c, i) ==
    /\ Found(i, "warehouse")
    /\ \/ \E s \in Codes : ~HasLiveCode("warehouse", s, i) /\ Begin(c, <<Set(i, [code |-> s])>>)
       \/ \E d \in BOOLEAN : Begin(c, UnsetOthers(d, i) \o <<Set(i, [default |-> d])>>)
ArchiveWarehouse(c, i) == Put(c, i, "warehouse", [status |-> "INACTIVE"])
RestoreWarehouse(c, i) == Put(c, i, "warehouse", [status |-> "ACTIVE"])
DeleteWarehouse(c, i) == Bury(c, i, "warehouse")

\* ---- VendorsService ----
CreateVendor(c) ==
    \E s \in Codes : ~HasLiveCode("vendor", s, 0) /\ BeginInsert(c, <<Insert(Vendor(s))>>)
UpdateVendor(c, i) ==
    \E s \in Codes : ~HasLiveCode("vendor", s, i) /\ Put(c, i, "vendor", [code |-> s])
ArchiveVendor(c, i) == Put(c, i, "vendor", [status |-> "INACTIVE"])
RestoreVendor(c, i) == Put(c, i, "vendor", [status |-> "ACTIVE"])
DeleteVendor(c, i) == Bury(c, i, "vendor")

\* ---- hrms ----
CreateDepartment(c) ==
    \E s \in Codes : ~HasCode("department", s, 0) /\ BeginInsert(c, <<Insert(Department(s))>>)
UpdateDepartment(c, i) == \E s \in Codes : Place(c, i, "department", [code |-> s])
CreateDesignation(c) ==
    \E s \in Codes : ~HasCode("designation", s, 0) /\ BeginInsert(c, <<Insert(Designation(s))>>)
UpdateDesignation(c, i) == \E s \in Codes : Place(c, i, "designation", [code |-> s])
CreateEmployee(c) ==
    \E s \in Codes, d \in {0} \cup All("department") :
        ~HasCode("employee", s, 0) /\ BeginInsert(c, <<Insert(Employee(s, d))>>)
UpdateEmployee(c, i) ==
    \/ \E s \in Codes : Place(c, i, "employee", [code |-> s])
    \/ Place(c, i, "employee", [status |-> "TERMINATED"])
\* Mutant: only approved requests stand in the way.
BookedApproved(e, from, to) ==
    \E i \in All("leave") : /\ row[i].employee = e /\ row[i].status = "APPROVED"
                            /\ row[i].from <= to /\ row[i].to >= from
Booked(e, from, to) ==
    \E i \in All("leave") : /\ row[i].employee = e /\ row[i].status \in {"PENDING", "APPROVED"}
                            /\ row[i].from <= to /\ row[i].to >= from
ApplyForLeave(c) ==
    \E e \in All("employee"), from, to \in Days :
        /\ from <= to /\ ~Booked(e, from, to)
        /\ BeginInsert(c, <<Insert(LeaveRequest(e, from, to))>>)
ApproveLeave(c, i) ==
    row[i].kind = "leave" /\ row[i].status = "PENDING" /\ Begin(c, <<Set(i, [status |-> "APPROVED"])>>)
RejectLeave(c, i) ==
    row[i].kind = "leave" /\ row[i].status = "PENDING" /\ Begin(c, <<Set(i, [status |-> "REJECTED"])>>)
CheckIn(c) ==
    \E e \in All("employee") :
        ~HasCode("attendance", e, 0) /\ BeginInsert(c, <<Insert(Attendance(e))>>)
CheckOut(c, i) == row[i].kind = "attendance" /\ ~row[i].out /\ Begin(c, <<Set(i, [out |-> TRUE])>>)

\* A row of these tables: the columns that the properties below are about.
OfRegister(r) ==
    /\ "kind" \in DOMAIN r
    /\ r.kind = "warehouse" => {"deleted", "default"} \subseteq DOMAIN r
    /\ r.kind = "leave" => /\ {"employee", "from", "to", "status"} \subseteq DOMAIN r
                          /\ r.from \in Days /\ r.to \in Days
IsDefault(r) == r.kind = "warehouse" /\ ~r.deleted /\ r.default
TakesDays(r) == r.kind = "leave" /\ r.status \in {"PENDING", "APPROVED"}
Meets(r, s) ==
    /\ TakesDays(r) /\ TakesDays(s) /\ r.employee = s.employee
    /\ ~(r.to < s.from \/ s.to < r.from)
\* Tables as the services leave them.
SoundRegister(tab) ==
    /\ DOMAIN tab = Ids
    /\ \A i \in Ids : OfRegister(tab[i])
    /\ \A i, j \in Ids : i # j => ~(IsDefault(tab[i]) /\ IsDefault(tab[j])) /\ ~Meets(tab[i], tab[j])
ASSUME RegisterAssumption == Days \subseteq Nat /\ \A start \in RegisterStarts : SoundRegister(start)

RegisterInit == row \in RegisterStarts /\ RowsInit
CatalogCall(c) ==
    \/ CreateCategory(c) \/ CreateUnit(c) \/ CreateProduct(c) \/ CreateWarehouse(c) \/ CreateVendor(c)
    \/ \E i \in Ids :
          \/ UpdateCategory(c, i) \/ DeleteCategory(c, i) \/ UpdateUnit(c, i) \/ DeleteUnit(c, i)
          \/ UpdateProduct(c, i) \/ ArchiveProduct(c, i) \/ RestoreProduct(c, i) \/ DeleteProduct(c, i)
          \/ UpdateWarehouse(c, i) \/ ArchiveWarehouse(c, i) \/ RestoreWarehouse(c, i)
          \/ DeleteWarehouse(c, i) \/ UpdateVendor(c, i) \/ ArchiveVendor(c, i)
          \/ RestoreVendor(c, i) \/ DeleteVendor(c, i)
PersonnelCall(c) ==
    \/ CreateDepartment(c) \/ CreateDesignation(c) \/ CreateEmployee(c) \/ ApplyForLeave(c) \/ CheckIn(c)
    \/ \E i \in Ids : \/ UpdateDepartment(c, i) \/ UpdateDesignation(c, i) \/ UpdateEmployee(c, i)
                      \/ ApproveLeave(c, i) \/ RejectLeave(c, i) \/ CheckOut(c, i)
RegisterNext ==
    \E c \in Callers : \/ Ready(c) /\ (CatalogCall(c) \/ PersonnelCall(c))
                       \/ Update(c) \/ Create(c) \/ Deletion(c) \/ ClearDefaults(c) \/ Die(c)
RegisterSpec == RegisterInit /\ [][RegisterNext]_registerVars

-----------------------------------------------------------------------------
\* As long as calls do not overlap, an organization has at most one default
\* warehouse, even if a call died between clearing the old and setting the new.
OneDefaultWarehouse ==
    ~overlapped => Cardinality({i \in Ids : Found(i, "warehouse") /\ row[i].default}) <= 1

\* As long as calls do not overlap, the pending and approved leave of an
\* employee covers no day twice, whatever was approved and rejected between.
LeaveDisjoint ==
    ~overlapped => \A i, j \in All("leave") :
        /\ i # j /\ row[i].employee = row[j].employee
        /\ {row[i].status, row[j].status} \subseteq {"PENDING", "APPROVED"}
        => row[i].to < row[j].from \/ row[j].to < row[i].from
=============================================================================
