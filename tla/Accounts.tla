------------------------------ MODULE Accounts ------------------------------
(***************************************************************************)
(* Tenants, their users and shops, and the guards every request passes     *)
(* (JwtAuthGuard, TenantGuard, PermissionsGuard, UserService, ShopService, *)
(* ShopAccessService, TenantService).  A request runs in a slot of Visit   *)
(* and each of its database calls is a step, so users are disabled, shops  *)
(* revoked and tenants suspended under requests already let in.            *)
(***************************************************************************)
EXTENDS Naturals, FiniteSets

CONSTANTS Tenant, NoTenant, User, Root, Shop, Visit, MaxVisits

ASSUME AccountAssumptions ==
  /\ NoTenant \notin Tenant /\ Root \in User /\ MaxVisits \in Nat
  /\ IsFiniteSet(Shop)

VARIABLES
  active,     \* tenants whose status is ACTIVE
  user,       \* user rows with their one role
  grants,     \* userShopAccess: the shops of each user
  modules,    \* userPermission: the modules of each user
  shop,       \* platformAccount rows
  visit,      \* the requests in progress
  granted,    \* history: shops each user was ever granted
  visits      \* history: requests so far

accountVars == <<active, user, grants, modules, shop, visit, granted, visits>>
people == <<user, grants, modules, granted>>

-----------------------------------------------------------------------------
(* Roles and permissions                                                   *)

OperatorModuleBundles ==
  [m \in {"menu:dashboard", "menu:crawler", "menu:product", "menu:order", "menu:warehouse",
          "menu:trace"} |->
     CASE m = "menu:crawler" -> {m, "crawler:task:list", "crawler:task:create",
                                 "crawler:task:retry", "crawler:task:export"}
       [] m = "menu:product" -> {m, "product:list", "product:shelf", "product:delete", "shop:list"}
       [] m = "menu:order" -> {m, "order:list", "order:create"}
       [] m = "menu:warehouse" -> {m, "warehouse:inbound", "warehouse:outbound"}
       [] OTHER -> {m}]

OperatorBase == {"data:tenant:self", "menu:dashboard"}
OperatorCodes == OperatorBase \cup UNION {OperatorModuleBundles[m] : m \in DOMAIN OperatorModuleBundles}
TenantAdminExtra ==
  {"menu:user", "menu:shop", "user:list", "user:create", "user:update", "user:disable",
   "shop:list", "product:edit", "order:batch", "order:alert"}
\* What only the super administrator's template has.
SuperAdminOnly ==
  {"menu:tenant", "menu:role", "data:tenant:all", "tenant:list", "tenant:create", "tenant:update",
   "tenant:disable", "role:list", "shop:create", "shop:update", "shop:disable"}

PermissionCodesForRole(role) ==
  CASE role = "SUPER_ADMIN" -> OperatorCodes \cup TenantAdminExtra \cup SuperAdminOnly
    [] role = "TENANT_ADMIN" -> OperatorCodes \cup TenantAdminExtra
    [] OTHER -> OperatorCodes

InvalidOperatorModules(codes) == codes \ DOMAIN OperatorModuleBundles

ExpandOperatorModules(codes) ==
  OperatorBase \cup UNION {OperatorModuleBundles[m] : m \in codes \ InvalidOperatorModules(codes)}

ResolveEffectivePermissions(role, assigned) ==
  IF role \in {"SUPER_ADMIN", "TENANT_ADMIN"} THEN PermissionCodesForRole(role)
  ELSE ExpandOperatorModules(assigned)

CanAssignRole(role, target) ==
  role \in {"SUPER_ADMIN", "TENANT_ADMIN"} /\ target \in {"TENANT_ADMIN", "OPERATOR"}
\* Mutant: operators too.
CanAccessOwnTenantShops(role) == role # "NONE"
CanAccessAllTenantShops(role) == role \in {"SUPER_ADMIN", "TENANT_ADMIN"}
CanManageTenantShops(role) == role = "SUPER_ADMIN"

\* The code each operation's route requires.
Required == [op \in {"createUser", "updateUser", "createShop", "updateShop", "changeStatus",
                     "tenantStatus", "shelf"} |->
  CASE op = "createUser" -> "user:create" [] op = "updateUser" -> "user:update"
    [] op = "createShop" -> "shop:create" [] op = "updateShop" -> "shop:update"
    [] op = "changeStatus" -> "shop:disable" [] op = "tenantStatus" -> "tenant:disable"
    [] OTHER -> "product:shelf"]

-----------------------------------------------------------------------------
(* Requests and their guards                                               *)

NoUser == [tenant |-> NoTenant, role |-> "NONE", active |-> FALSE]
NoShop == [tenant |-> NoTenant, status |-> "NONE", token |-> FALSE]
Idle == [pc |-> "idle", op |-> "shelf", by |-> Root, allowed |-> FALSE, tenant |-> NoTenant,
         shops |-> {}, target |-> Root, role |-> "NONE", modules |-> {}, token |-> FALSE]

VisitAt(v, step) == visit[v].pc = step
RoleOf(v) == user[visit[v].by].role
End(v) == visit' = [visit EXCEPT ![v] = Idle]
To(v, step, fields) ==
  visit' = [visit EXCEPT ![v] =
              [f \in DOMAIN Idle |-> CASE f = "pc" -> step
                                       [] f \in DOMAIN fields -> fields[f]
                                       [] OTHER -> visit[v][f]]]
\* What a handler does when its check fails is to throw.
Require(v, ok, step, fields) == IF ok THEN To(v, step, fields) ELSE End(v)

SignedIn(u) == user[u].active /\ (user[u].tenant # NoTenant => user[u].tenant \in active)

\* JwtStrategy.validate looks the user up afresh on every request.
Authenticate(v, u, op, header) ==
  /\ VisitAt(v, "idle") /\ visits < MaxVisits /\ visits' = visits + 1
  /\ SignedIn(u)
  /\ To(v, "guards", [by |-> u, op |-> op, tenant |-> header,
          allowed |-> Required[op] \in ResolveEffectivePermissions(user[u].role, modules[u])])
  /\ UNCHANGED <<active, people, shop>>

\* resolveRequestTenantId, for a user and the tenant its header names.
RequestTenant(u, header) ==
  IF user[u].role = "SUPER_ADMIN" THEN header ELSE user[u].tenant
CrossTenant(u, header) ==
  user[u].role # "SUPER_ADMIN" /\ header \notin {NoTenant, user[u].tenant}

Guards(v) ==
  /\ VisitAt(v, "guards")
  /\ LET u == visit[v].by
         tenant == IF visit[v].op = "tenantStatus" THEN user[u].tenant
                   ELSE RequestTenant(u, visit[v].tenant)
     IN Require(v, /\ visit[v].op = "tenantStatus" \/ ~CrossTenant(u, visit[v].tenant)
                   /\ visit[v].op = "tenantStatus" \/ tenant \in active \cup {NoTenant}
                   /\ user[u].role = "SUPER_ADMIN" \/ visit[v].allowed,
                visit[v].op, [tenant |-> tenant])
  /\ UNCHANGED <<active, people, shop, visits>>

-----------------------------------------------------------------------------
(* UserService                                                             *)

AssertShopsInTenant(tenant, shops) == \A s \in shops : shop[s].tenant = tenant

\* create: the tenant the new user goes to must be active.
CreateUserTenant(v, target, role, tenant, shops) ==
  /\ VisitAt(v, "createUser") /\ target # Root
  /\ Require(v, /\ CanAssignRole(RoleOf(v), role)
                /\ RoleOf(v) # "SUPER_ADMIN" => tenant = user[visit[v].by].tenant
                /\ tenant \in active,
             "newUserShops", [target |-> target, role |-> role, tenant |-> tenant, shops |-> shops])
  /\ UNCHANGED <<active, people, shop, visits>>

CreateUserShops(v) ==
  /\ VisitAt(v, "newUserShops")
  /\ Require(v, AssertShopsInTenant(visit[v].tenant, visit[v].shops), "newUser", [tenant |-> visit[v].tenant])
  /\ UNCHANGED <<active, people, shop, visits>>

\* Usernames are unique: a name taken meanwhile fails the insert.
CreateUserWrite(v, codes) ==
  /\ VisitAt(v, "newUser")
  /\ LET q == visit[v] IN
     IF user[q.target] # NoUser \/ (q.role = "OPERATOR" /\ InvalidOperatorModules(codes) # {})
     THEN UNCHANGED people
     ELSE /\ user' = [user EXCEPT ![q.target] = [tenant |-> q.tenant, role |-> q.role, active |-> TRUE]]
          /\ grants' = [grants EXCEPT ![q.target] = q.shops]
          /\ modules' = [modules EXCEPT ![q.target] = IF q.role = "OPERATOR" THEN codes ELSE {}]
          /\ granted' = [granted EXCEPT ![q.target] = q.shops]
  /\ End(v)
  /\ UNCHANGED <<active, shop, visits>>

AssertCanManage(v, tenant) ==
  \/ RoleOf(v) = "SUPER_ADMIN"
  \/ /\ tenant = user[visit[v].by].tenant
     /\ visit[v].tenant \in {NoTenant, tenant}

UpdateUserRead(v, target, shops) ==
  /\ VisitAt(v, "updateUser")
  /\ Require(v, user[target] # NoUser /\ AssertCanManage(v, user[target].tenant),
             "userShops", [target |-> target, shops |-> shops])
  /\ UNCHANGED <<active, people, shop, visits>>

\* A user without a tenant has no shops to check, nor any written below.
UpdateUserShops(v) ==
  /\ VisitAt(v, "userShops")
  /\ LET tenant == user[visit[v].target].tenant
     IN Require(v, tenant = NoTenant \/ AssertShopsInTenant(tenant, visit[v].shops), "user", [tenant |-> tenant])
  /\ UNCHANGED <<active, people, shop, visits>>

\* One transaction replaces the shops, an operator's modules, and the status.
UpdateUserWrite(v, codes, enabled) ==
  /\ VisitAt(v, "user")
  /\ LET q == visit[v]
         operator == user[q.target].role = "OPERATOR"
         shops == IF user[q.target].tenant = NoTenant THEN {} ELSE q.shops
     IN /\ operator => InvalidOperatorModules(codes) = {}
        /\ user' = [user EXCEPT ![q.target].active = enabled]
        /\ grants' = [grants EXCEPT ![q.target] = shops]
        /\ modules' = IF operator THEN [modules EXCEPT ![q.target] = codes] ELSE modules
        /\ granted' = [granted EXCEPT ![q.target] = @ \cup shops]
  /\ End(v)
  /\ UNCHANGED <<active, shop, visits>>

-----------------------------------------------------------------------------
(* ShopService and TenantService                                           *)

CreateShop(v, s, tenant, token) ==
  /\ VisitAt(v, "createShop") /\ shop[s] = NoShop
  /\ IF CanManageTenantShops(RoleOf(v)) /\ tenant \in active
     THEN shop' = [shop EXCEPT ![s] = [tenant |-> tenant, token |-> token,
                                       status |-> IF token THEN "ENABLED" ELSE "PLACEHOLDER"]]
     ELSE shop' = shop
  /\ End(v)
  /\ UNCHANGED <<active, people, visits>>

\* update and changeStatus read the shop; role keeps the status to write.
ShopRead(v, s, status) ==
  /\ VisitAt(v, "updateShop") \/ VisitAt(v, "changeStatus")
  /\ Require(v, /\ CanManageTenantShops(RoleOf(v)) /\ shop[s] # NoShop
                /\ (VisitAt(v, "changeStatus") /\ status = "ENABLED") => shop[s].token,
             "shop", [shops |-> {s}, token |-> VisitAt(v, "updateShop"),
                      role |-> IF VisitAt(v, "changeStatus") THEN status
                               ELSE IF shop[s].status = "DISABLED" THEN "DISABLED" ELSE "ENABLED"])
  /\ UNCHANGED <<active, people, shop, visits>>

\* A new token enables the shop unless the read found it disabled.
ShopWrite(v) ==
  /\ VisitAt(v, "shop")
  /\ LET q == visit[v]
         newStatus(s) == IF q.token /\ q.role = "DISABLED" THEN shop[s].status ELSE q.role
     IN shop' = [s \in Shop |-> IF s \in q.shops
                                THEN [shop[s] EXCEPT !.token = @ \/ q.token, !.status = newStatus(s)]
                                ELSE shop[s]]
  /\ End(v)
  /\ UNCHANGED <<active, people, visits>>

\* changeStatus of a tenant; CLOSED is refused.
TenantStatus(v, t, open) ==
  /\ VisitAt(v, "tenantStatus")
  /\ active' = IF open THEN active \cup {t} ELSE active \ {t}
  /\ End(v)
  /\ UNCHANGED <<people, shop, visits>>

-----------------------------------------------------------------------------
(* ShopAccessService                                                       *)

\* listAccessibleShops: what the shop selectors offer.
ListAccessibleShops(u, tenant) ==
  IF user[u].role = "SUPER_ADMIN" /\ tenant = NoTenant THEN {s \in Shop : shop[s] # NoShop}
  ELSE IF CanAccessAllTenantShops(user[u].role) THEN {s \in Shop : shop[s].tenant = tenant /\ tenant # NoTenant}
  ELSE grants[u]

\* assertShopsAccessible for an enabled shop with a token; its first query reads the shops.
\* A super administrator without a tenant is not held to one.
AssertShopsAccessible(v, shops) ==
  /\ VisitAt(v, "shelf") /\ shops # {}
  /\ LET free == RoleOf(v) = "SUPER_ADMIN" /\ visit[v].tenant = NoTenant IN
     Require(v, \A s \in shops : /\ shop[s].status = "ENABLED" /\ shop[s].token
                                 /\ free \/ shop[s].tenant = visit[v].tenant,
             IF CanAccessAllTenantShops(RoleOf(v)) THEN "serving" ELSE "grants", [shops |-> shops])
  /\ UNCHANGED <<active, people, shop, visits>>

\* An operator's grants are read next.
AssertGranted(v) ==
  /\ VisitAt(v, "grants")
  /\ Require(v, visit[v].shops \subseteq grants[visit[v].by], "serving", [tenant |-> visit[v].tenant])
  /\ UNCHANGED <<active, people, shop, visits>>

Serve(v) ==
  /\ VisitAt(v, "serving") /\ End(v)
  /\ UNCHANGED <<active, people, shop, visits>>

-----------------------------------------------------------------------------
\* Administrators, operators and shops the earlier life of the system may have left.
Staff == [tenant : Tenant, role : {"TENANT_ADMIN", "OPERATOR"}, active : {TRUE}]
AccountsInit ==
  /\ active = Tenant
  /\ user \in {f \in [User -> Staff \cup {NoUser, [NoUser EXCEPT !.role = "SUPER_ADMIN", !.active = TRUE]}] :
                 \A u \in User : f[u].role = "SUPER_ADMIN" <=> u = Root}
  /\ grants = [u \in User |-> {}] /\ granted = grants
  /\ modules = [u \in User |-> IF user[u].role = "OPERATOR" THEN {"menu:product"} ELSE {}]
  /\ shop \in [Shop -> {NoShop} \cup {[tenant |-> t, status |-> "ENABLED", token |-> TRUE] : t \in Tenant}]
  /\ visit = [v \in Visit |-> Idle] /\ visits = 0

Selections == {{}, {"menu:product"}, {"menu:product", "menu:user"}}

AccountsNext ==
  \E v \in Visit :
    \/ \E u \in User, op \in DOMAIN Required, header \in Tenant \cup {NoTenant} :
         Authenticate(v, u, op, header)
    \/ Guards(v)
    \/ \E target \in User, shops \in SUBSET Shop :
         \/ \E role \in {"SUPER_ADMIN", "TENANT_ADMIN", "OPERATOR"}, t \in Tenant :
              CreateUserTenant(v, target, role, t, shops)
         \/ UpdateUserRead(v, target, shops)
    \/ CreateUserShops(v) \/ UpdateUserShops(v)
    \/ \E codes \in Selections : CreateUserWrite(v, codes) \/ \E on \in BOOLEAN : UpdateUserWrite(v, codes, on)
    \/ \E s \in Shop :
         \/ \E t \in Tenant, token \in BOOLEAN : CreateShop(v, s, t, token)
         \/ \E status \in {"ENABLED", "DISABLED"} : ShopRead(v, s, status)
    \/ ShopWrite(v)
    \/ \E t \in Tenant, open \in BOOLEAN : TenantStatus(v, t, open)
    \/ \E shops \in SUBSET Shop : AssertShopsAccessible(v, shops)
    \/ AssertGranted(v) \/ Serve(v)

AccountsSpec == AccountsInit /\ [][AccountsNext]_accountVars

-----------------------------------------------------------------------------
\* The variables stay in their types, and there is one super administrator.
AccountsTypeOK ==
  /\ active \subseteq Tenant
  /\ user \in [User -> [tenant : Tenant \cup {NoTenant}, active : BOOLEAN,
                        role : {"NONE", "SUPER_ADMIN", "TENANT_ADMIN", "OPERATOR"}]]
  /\ \A u \in User : user[u].role = "SUPER_ADMIN" <=> u = Root
  /\ grants \in [User -> SUBSET Shop] /\ granted \in [User -> SUBSET Shop]
  /\ modules \in [User -> SUBSET DOMAIN OperatorModuleBundles]
  /\ shop \in [Shop -> [tenant : Tenant \cup {NoTenant}, token : BOOLEAN,
                        status : {"NONE", "PLACEHOLDER", "ENABLED", "DISABLED"}]]
  /\ visits \in 0..MaxVisits

\* A user is only ever granted, and offered, shops of the user's own tenant, whoever
\* assigns them and whatever changes between the check and the write (user.service.ts
\* 101, 136; shop-access.service.ts 46-91).
GrantsInTenant ==
  \A u \in User \ {Root} :
    \A s \in granted[u] \cup ListAccessibleShops(u, user[u].tenant) : shop[s].tenant = user[u].tenant

\* A request let through works on shops of one tenant only, the one it was
\* resolved to; an operator's request only on shops that operator was granted
\* (shop-access.service.ts 93-136).
WorksWithinGrants ==
  \A v \in Visit : VisitAt(v, "serving") =>
    \A s \in visit[v].shops :
      /\ visit[v].by # Root => shop[s].tenant = user[visit[v].by].tenant
      /\ RoleOf(v) = "OPERATOR" => s \in granted[visit[v].by]

\* No shop reaches a user or a request it was not granted to, however requests that
\* change users, shops and tenants interleave with it.
ServedWithinGrants == GrantsInTenant /\ WorksWithinGrants
=============================================================================
