# Formal model of the ShiftWise operator

TLA+ modules, TLC runs and TLAPS proofs for the Kubernetes operator in this
repository. Three systems are in it: the operator, whose reconcile loop works
while users edit and delete resources, caches lag, calls fail, the manager
restarts and the garbage collector runs beside it; the release pipeline, which
reserves versions, pushes images and moves aliases while its jobs stop and are
rerun; and the clusters that scripts install both into.

## 1. The system

| component | state it keeps | operations | talks to |
|---|---|---|---|
| Reconcile loop (`internal/controller/shiftwise_controller.go`) | none between passes; within a pass the fetched copy, the first operand error, the phase | `Reconcile`, `fail`, `cleanup`, `patchStatus` | work queue, cache (reads), API server (writes), operands |
| Operands (`internal/operands/{harvester,configurations,postgres,analyzer,coreai,reporter,dashboard,shared,scale,openshift}.go`) | the objects in the cluster | one `Reconcile*` function per component, each a sequence of calls that stops at the first error | apply primitives |
| Apply primitives (`apply.go`) | none | `apply`, `applyIfMissing`, `applyUnstructured`, `DeleteIgnoreMissing`, `setOwner` | cache, API server |
| Generated credentials (`secrets.go`) | the secrets of the database and of the oauth proxy | `reconcileGeneratedSecret` | apply primitives |
| Readiness (`status.go`) | none | `ReadyCount`, `Phase` | cache |
| Settings (`settings.go`) | none | `FromCR`, `enabledComponents` | the fetched copy |
| Manager (`cmd/main.go`) | the lease, the caches, the queue | start, lose the lease, restart | all of the above |
| Release (`hack/ci-release.py`, `publish-quay.yml`) | git tags, images, the aliases `latest` and `stable`, the queue of jobs | reserve or resume, load the history, build, push, move aliases | git, registry |
| OLM catalog (`hack/generate-olm.py`) | `catalog.yaml`, the CSV in `bundle/manifests` | generate a version | called by the release job and by `install-catalog.sh --build` |
| Catalog installation (`hack/install-catalog.sh`, `config/olm/catalogsource.yaml`) | a CatalogSource | install by default, by version, by manifest; `--build` | registry, OLM |
| Deployment (`hack/deploy-ocp.sh`, `config/default`) | none; the cluster's | deploy, undeploy, purge | API server, the operator |

How they interact: the informer of ShiftWise resources and those of the owned
StatefulSets and Services put names in the work queue; one worker takes a name,
reads the resource *from the cache*, and either cleans up, or adds the
finalizer, or makes 39 calls and publishes a status. Everything namespaced is
owned by the resource (in the resource's own namespace) and goes by garbage
collection; the eleven cluster-scoped objects go by the finalizer.

What is hard, and what correctness means for each component:

* loop: the cached copy is old when it is used; a deletion, an edit or a
  recreation may fall anywhere in a pass; the cleanup may fail half way.
  Correct: nothing cluster-scoped is left when no resource carries the
  finalizer; a pass never writes for a resource that is gone; deletion completes;
  operands and status converge.
* operands: several resources share one namespace and one set of names.
  Correct: what one takes away the other restores; the policies that limit a
  workload are written before it and stay while its resource is not being
  deleted (the cleanup takes them while the workloads still run); what a pod
  needs exists before the pod; deletion leaves nothing behind that could have
  been removed.
* apply primitives: cached read, conditional write, retries, a write that took
  effect although it reported an error. Correct: they implement "make it so" and
  never lose what others own (addresses, credentials).
* readiness: counts of another generation, objects of an earlier life. Correct:
  Ready is published only by a pass whose calls all took effect.
* release: jobs run in another order than main, stop between any two pushes and
  are resumed with another build. Correct: one commit has one version, a version's
  images never change, the aliases never go back, every release is finished.
* catalog: versions are generated out of order and twice, over a channel that
  somebody else wrote. Correct: one upgrade chain, which nothing falls out of,
  and which the bundles agree with.
* installation: the catalog is replaced under a cluster in the middle of a chain of
  upgrades. Correct: the installed version is always in the served channel.
* deployment: the script removes the operator together with the kind whose
  finalizers only the operator removes. Correct: what needs the finalizer never
  outlives the kind; what the script waits for is what it was asked for.

`PROJECT.json` lists every hazard with its line and the properties that catch it.

## 2. Modules

| module | models |
|---|---|
| `ShiftWiseReconciler` | the loop, its queue and cache, and the environment |
| `Inventory` | the real operands as data: objects, calls, order, references |
| `MCReconciler` | small instances of the loop |
| `MCInventory` | the loop with the real inventory, and the properties of the inventory |
| `ApplyCall` | one object and the reads, writes and retries inside one call |
| `ObjectContract` | what those calls promise of the object (abstract) |
| `Catalog` | `catalog.yaml` and the operators of `generate-olm.py` on it |
| `GenerateOlm` | the script run repeatedly in one checkout |
| `Release` | the publish workflow: runs, queue, job, git tags, registry |
| `ReleaseLedger` | what publishing promises to who pulls a release (abstract) |
| `Cluster` | `Release` composed with a cluster that installs and follows a catalog |
| `Deploy` | `deploy-ocp.sh` against the API server and a running operator |
| `ReconcilerProofs`, `InventoryProofs` | theorems about the loop, and about the loop over the inventory |
| `ApplyProofs` | theorems about one call |
| `GenerateProofs` | theorems about the catalog generator |
| `ReleaseProofs`, `ChannelProofs`, `ClusterProofs` | theorems about publishing, about the channel that `stable` offers, and about a cluster that follows it |
| `DeployProofs` | theorems about the deployment script |

How they compose: `MCInventory` runs the loop of `ShiftWiseReconciler` over the data of
`Inventory`; `ApplyCall` opens up one call of that loop; `Release` uses the
channel operators of `Catalog`; `Cluster` extends `Release`; `Deploy` keeps of the
loop only what an uninstallation touches (finalizer, cluster-scoped operands).

### ShiftWiseReconciler and the code

`hist[c]` holds the versions of resource `c` from the one the cache shows to the
one the API server stores. The cache lag of controller-runtime is exactly the
length of that sequence: `Deliver` drops the head and enqueues the name.
`Reconcile` is cut at every call it makes to the API server:

| code | action |
|---|---|
| lines 48-54, 58, 70: cached read and the three-way branch | `Start` |
| `cleanup`, one `DeleteIgnoreMissing` each | `CleanupStep` |
| 62-67 | `RemoveFinalizer` |
| 70-75 | `AddFinalizer` |
| 77-79, `fail` | `ReconcileNamespace` |
| 81-99, one call of the operands each | `Operand`, `OperandsDone` |
| 101-103, `ReadyCount`, `Phase` | `Count` |
| 111-117, `patchStatus` | `PatchStatus` |

`Update` is refused when the fetched copy is no longer the stored one
(`UpdateInstance`); any call may fail, and a call that fails may have taken
effect (both disjuncts under `Disturb`). The four attempts of `patchStatus` read
the cache each time: while the cache lags they conflict, and either a delivery
comes between them or the error goes back to the queue; both are behaviours of
the single step, because the worker does nothing else meanwhile.

Left out: the text of messages and the ready/desired string; the contents of
manifests; the count is one step (the seven reads of `ReadyCount` see one
cache); the queue is a set, and a name that waits (back-off, thirty seconds) is
in it, since the model has no clock: a wait may end at any time.

The environment is what the code relies on: users (create, edit, delete in the
background or foreground), the informers, the garbage collector, the
StatefulSet controller, and as disturbances failing calls, foreign deletions,
failing pods, restarts and lease changes.

### Inventory and the code

One definition per function of `internal/operands`, with the function's name.
`AllCalls` is what a pass does; `PodRefs` and `Guards` are what the pod templates
and the admission policies refer to. `reconcileSharedPVC` also refuses a storage size that
is invalid or not positive (`shared.go:45-51`), in every pass and for ever; the
pattern in the CRD does not admit such a size, and the model has no lasting
refusal: a call fails only by a bounded `Disturb`. `Converges` therefore says
nothing of a resource whose size the loop refuses. The TLS secret of the dashboard comes from
OpenShift's service CA and is left out.

### ApplyCall and the code

The loop takes a call of the operands as one step. `ApplyCall` opens it up for one
object. `hist` holds the versions of the object, their indices being the
resourceVersions; `seen[p]` is the version the cache of process `p` shows. The
controller-runtime client reads typed objects from the cache and unstructured
ones from the API server (`ReadAt`). `op` says which of the calls manages the
object: `apply`, `applyUnstructured`, `applyIfMissing`, `reconcileGeneratedSecret`
or `reconcileSharedPVC`.

| code | action |
|---|---|
| `secrets.go:18-31`, `shared.go:40-44`: look first, draw the credential | `Lookup` |
| the Get of each call, and what is copied from it to `obj` (44-52, 87-90) | `Read`, `Adopt` |
| the Create of each call, with and without tolerance for AlreadyExists | `Create`, `Tolerates` |
| the Update, and `RetryOnConflict` around the closure of `apply` | `Update`, `Retries` |

`obj` outlives an attempt: the resourceVersion and the addresses set in one
attempt are still there in the next, so an object deleted in between is created
*with* a resourceVersion, which the API server refuses; the pass fails and the next
one builds a new `obj`. `data` is what an object keeps from its creation, the
generated credential of a Secret or the addresses of a Service; a fresh one is
named by its process and by the length of the history, which no other creation
shares. `Elect` lets a process start and take the lease while the old leader is
still in the middle of a call; others edit and delete.

`ObjectContract` is the promise: the object appears as wanted, a correcting call
puts foreign edits right, and `data` changes only through deletion. `Implements`
maps its `object` to the last version of `hist`.

### Catalog, GenerateOlm and the code

A version is a number; `entries` is the channel in its written order, which the
script sorts. `PreviousVersion`, `ChannelEntries` and `BundleDocuments` are the
functions of those names in `generate-olm.py` (186-216, 104-130, 76-101); `Generate` is
one execution of the script (276-310). The environment's choice is the catalog it
starts from: any versions in any order, with any `replaces`.
Sorting and filtering are defined by what they return (`Arranged`, `Picked`): the sort
of the standard modules is recursive, and the provers can say nothing about it.
Left out: the variable PREVIOUS_VERSION, which the workflow sets from the same
catalog; the content of the CSV apart from its `replaces`; the text of YAML.

### Release and the code

| code | action |
|---|---|
| `publish-quay.yml` 3-16: push to main, Run workflow, rerun | `Merge`, `Dispatch`, `Rerun` |
| tests and scans, before the publish job | `ChecksPass`, `ChecksFail` |
| 98-101: one concurrency group, `queue: max` | `Enqueued`, `Start` |
| a step that fails, a lost runner, the time limit | `Stop`, possible before every step |
| 146-150, `ci-release.py` 43-62 | `Reserve`, `RefuseSource` |
| 165-191: what Quay has, its labels | `LoadExisting`, `RefuseImages` |
| 193-247: the stable catalog, or the one before it | `PullStable`, `PullFallback` |
| 249-303: `generate-olm.py` and the image builds | `Build` |
| 363-379: per kind, the version tag, then the commit tag | `PushImage`, `PushSha` |
| 381-399: the check, then `latest`, then `stable` | `CheckAliases`, `PushLatest`, `PushStable` |
| `install-catalog.sh` 105-111, `--build`: `generate-olm.py` in the checkout | `GenerateByHand` |
| 113-126: each image built and pushed in turn | `PushByHand` |
| `--build` fails or is given up after any of these | `StopByHand` |

A `build` stands for the digests of what one job built: the commit, the version,
what its bundle replaces, and the channel its catalog offers. Tags and aliases
name builds; a resumed job has another build than the one it resumes, which is
how a version can end up with images of two builds. `Source` and `Version` are the
labels of an image. `Dispatch` names any merge commit, also one of the merge queue that
`main` does not have yet: only the publish job asks (`ci-release.py` 28), and it refuses.

A maintainer may call `--build` for any version, reserved, published or neither,
and its pushes come between the steps of any job: nothing in the script or the
workflow prevents that, and no tag is asked. `checkout` is the channel of
`catalog.yaml` where it runs; it keeps every version generated there
(`generate-olm.py:306-310`), also one whose images were never pushed, until
somebody puts the file back (`held`). A build of version v then makes what the
script makes: images without release labels (`MadeByHand`).

A maintainer who builds a version *while it is reserved* can replace what was
published, and the workflow cannot know: it looks at the labels once
(`publish-quay.yml:171-191`) and pushes later (370-372). `contested` remembers these
versions, and the properties are about everything else: `Immutable`, `ShaAgrees`
and `Implements` except a contested version and no other; the properties of the
channel (`PathsAgree`, `ChannelKept`, `NeverStranded`, `FollowsStable`) ask that there is
none, because the next catalog is generated from one that it may have replaced.
`OffersOnlyPushed` has one more exception, which the code has too: the versions of an
earlier `--build`, which its checkout goes on offering.

Assumed of the environment: one call of `--build` at a time, in one checkout.
Git tags are pushed by the workflow only, as `README.md:11` asks. `--build` together
with `--catalog-image` is left out.
Left out: image scans and tests except that a job may stop there;
`branch-limits.yml` (a check that fails); digests' verification after a push
(a stop).

### Cluster and the code

`InstallCatalog` is `install-catalog.sh` (86-103, 129-164) with and without
`--version`, `ApplyManifest` is `config/olm/catalogsource.yaml`. `reference` is the tag
the CatalogSource names; `Poll` is OLM pulling it every ten minutes; `Install` and
`Upgrade` are OLM following the channel, one version at a time (external, modelled
from how the manifests use it).
The administrator chooses once: a second call with another version, and
`--catalog-image`, are left out.

### Deploy and the code

A call of the script is a sequence of steps; `apply` and `delete` take the
manifests one by one in the order of kustomize, so that anything may happen
between two of them.

| code | action |
|---|---|
| `deploy-ocp.sh` 262-289 | `Apply`, `Refuse`, `WaitForCrd`, `SetImage`, `WaitForOperator` |
| 291-328 | `ApplyInstance` |
| 159-163 | `Delete`, `WaitGone` |
| 168-174 | `Purge`, `WaitGone` |
| interruption of the script | `Interrupt` |
| API server: a namespace or a CRD goes with its contents (external) | `EmptyNamespace`, `EmptyCrd`, `Vanish` |
| Deployment controller (external) | `StartPod`, `StopPod` |
| `shiftwise_controller.go` 58-99 | `AddFinalizer`, `WriteOperands`, `Finalize` |

The operator `Works` only while it has its pod, its account, its binding and its
kind. Left out: the branch for a checkout without `config/default` (163-165), the
internal registry and the local builds, `print_status`.

### Seeded faults

A definition `X_Fault` is `X` with one plausible mistake. No specification uses
it; substituted for `X` it makes one property fail, which is how the properties
are known to be able to fail.

## 3. Runs

| run | question | bounds | distinct states |
|---|---|---|---|
| `safety` | two resources sharing a claim, a policy and a service: is anything cluster-scoped orphaned, anything given to a dead owner? | one creation per name, one fault, foreign deletion of the policy, symmetry | 919,719 |
| `recreated` | one name created twice: does the second life end up complete although the first one's claim, owners and cached copies linger, and does a pass that publishes Ready, over Ready too, have all its calls behind it, and the objects it corrects there and owned by this life? | two uids, one generation, one fault, foreign deletion of the claim | 115,817 |
| `liveness` | edits, an old route, foreign deletion: do deletions complete, do operands and status converge, is anything left? | generation 2, one fault | 74,892 |
| `shared_liveness` | two resources, one outside the operands' namespace, share a claim and a policy and nothing is watched: does the survivor recover what the other took, and what stays when both are gone? | no faults | 270,751 |
| `inventory` | the real 39 calls and 38 objects: order, guards, what remains | one uid, one fault, reductions below | 312,393 |
| `apply` | two processes in calls on one object: do they keep the contract, is an accepted update's address current, is the success of a correcting call true, does the object come about? | four attempts, one foreign edit or deletion, two faults | 291,862 |
| `catalog` | versions generated in any order over any catalog: one chain, one bundle each, nothing lost? | four versions, with a gap | 2,913 |
| `release` | from an empty registry: does the pipeline implement the ledger, are images immutable and catalogs complete, is every releasable merge published, does the current one get the aliases? | two merges, any two of: stop, failed pull, dispatch, calls of `--build` | 802,016 |
| `cluster` | are upgrade paths kept, do bundles agree with the channel; does a cluster stay in its channel, and on `stable` get to the head? | one old release, three merges, the second not releasable, two stops, no failed pull, no `--build` | 973,571 |
| `deploy` | three calls of the script with any options, interrupted anywhere, against a working operator | two images, three calls | 24,643 |
| `observed` | does `status.observedGeneration` name the generation that was reconciled? | generation 2 | violated |
| `pull_fails` | does `stable` keep its upgrade paths when one pull of it fails? | two merges, one failed pull | violated |

Why these bounds are enough for their questions: the worker handles one name at
a time, so two resources give every kind of interference (one cleaning up or
gone while the other works); two uids give every confusion of a name's lives;
the objects of each instance include every way of writing one. One fault per
behaviour reaches every single failure at every point; several faults only
repeat the retry. `Len(hist)` is unbounded in the definition and bounded by the
users' and the worker's writes in each instance.

The `inventory` run is reduced by the action constraint `InOrder`: orphans are
collected in the order of the plan, StatefulSets do not become ready, the cache
is at most one version behind, and a resource deleted in the foreground meets no
fault. Its three properties name neither readiness nor an order of collection;
longer delays, and faults with foreground deletion, are in `safety`.

In `apply` two processes are every overlap of an old and a new leader, and four
attempts are those of `retry.DefaultBackoff`; a cache that stays behind exhausts
them.

In `release` two merges are the least with two orders of jobs; two disturbances
of any kinds and at any steps, `MaxSpent` bounding them together, reach a call of
`--build` that stops and the next one that offers its version, a `--build` of the
version a stopped job is to resume, and two calls for one version. Both merges are releasable; what is refused is a commit
dispatched before it is on `main`. `cluster` has a
third merge between two releasable ones, so commit order and version order
differ, and two stops: one leaves a version half published, another stops the
job that resumes it. It has no failed pulls, because with one `ChannelKept` is
violated, which is what `pull_fails` shows, and no `--build`: all four of its
properties except contested versions, and the proofs have hand-made ones in any number.

In `deploy` three calls are one that leaves a state behind, one that is
interrupted in it and one that meets the result. `Interrupt` needs a call that
is left: the last one runs to its end or waits for ever.

Deadlock is checked only in `catalog`. The other systems legitimately stop: when every
resource is gone and may not be created again, when every merge is released,
when every call of the script was made, and in `apply` when the bounds are spent.

### Where the code and its documentation disagree

Two runs expect a violation and are findings in `PROJECT.json`:

* `observed`: the status field's comment says "last reconciled metadata.generation",
  `patchStatus` publishes the generation it reads at the end.
* `pull_fails`: any failure to pull `stable` counts as "there is none yet"
  (`publish-quay.yml:230`), so the next release is built on an old channel and `stable`
  loses versions that clusters run.

Five more are stated as properties at the end of their modules. They are not among
the runs of `PROJECT.json`; the trace of each comes from
`tlc -config <name>.cfg <module>`, which ends with a violation:

| cfg, module | property | the repository says | the code does |
|---|---|---|---|
| `head`, `Release` | `HeadBecomesLatest` | `README.md:15`: rerunning the workflow recovers a failed release | the two conditions (`publish-quay.yml:390`) can fall apart for good: an older commit whose job reserves after the head's takes the highest version, and then neither is promoted, however often both are rerun, until the next merge |
| `pinned`, `Release` | `PinnedOffersNothingNewer` | `README.md:21`: `--version` pins a catalog version | a version resumed after a later one was published carries the later one in its catalog (`publish-quay.yml:242`, `generate-olm.py:197`) |
| `default`, `Cluster` | `DefaultIsStable` | `README.md:21` and `install-catalog.sh:91`: without options the stable catalog | line 103 assigns `CATALOG_IMG` again: version 1.0.1 |
| `keeps`, `Deploy` | `UndeployKeeps` | `deploy-ocp.sh:53` and 172: the CRD and the namespace are kept | `config/default` contains both (162): they are deleted, and with them every resource |
| `purge`, `Deploy` | `PurgeDeletes` | `deploy-ocp.sh:54`: also deletes the CRD and the namespace | the operator goes with them: a resource that still has its finalizer holds both for ever, and the script waits |

What else the model shows of the code, where nothing documents otherwise:

* A version pushed by hand, wholly or in part, is refused by every job that is later given
  it (`RefuseImages`), and its commit keeps that version: that merge is never
  published. `EveryMergeReleased` and `CurrentPromoted` therefore except `Taken`.
* A `--build` between a job's look at the registry and its push is overwritten by that
  job, and one after it overwrites the job's image (`contested`).
* `--build` of a version after a `--build` that stopped publishes a catalog that offers a
  version without a bundle (`OffersOnlyPushed` excepts it).
* Deploying again over an undeployment that hangs does not recover it: nothing
  new is created in a namespace that is going.
* A release that is resumed after a later one was promoted never enters the channel of
  `stable`: only the highest tag moves the aliases, and the catalogs after it are built from
  what `stable` offers. It is published under its own tag only (`FollowsStable` therefore
  speaks of the head).
* `oc apply` (`deploy-ocp.sh:266`) puts the default image into a running Deployment before
  `oc set image` (271) puts the asked one back; `DeployDelivers` holds because the wait
  comes after both.
* With jobs in one queue, the condition on the highest version (`publish-quay.yml:390`) is not what
  prevents the aliases from going back, the condition on `main` is; it is what causes
  `HeadBecomesLatest` to fail.

### Fairness

`FairSpec` assumes weak fairness of the informer, of the garbage collector, of
the StatefulSet controller and of the worker's next step, and strong fairness
of taking a name from the queue: controller-runtime's queue is first in, first
out, and a delayed name returns after a finite delay, so a name that keeps being
in the queue is taken. Users and disturbances have no fairness, and there are
finitely many disturbances: a call that fails for ever is not a behaviour in
which anything converges.

In `ApplyCall` the leader's next step and each cache are weakly fair: the leader
polls every thirty seconds and its requests are answered. An old leader has no
fairness, it may stop anywhere; there are finitely many changes of leader.

In `Release` a run that was started passes or fails its checks, a waiting job starts
when the group is free and a running job takes its next step or stops: GitHub
does these by itself. `Rerun` is weakly fair for the commits of allowed pull
requests: it is what `README.md:15` tells the maintainer to do. Merges,
dispatches, stops and hand-made versions have no fairness.

In `Cluster` OLM polls, installs and upgrades by itself; nothing is assumed of the
pipeline, and nobody has to install. In `Deploy` the script, the API server's
controllers, the Deployment controller and a manager that has its rights go on;
nobody has to call the script, to interrupt it or to delete a resource, and the
operands need not be written.

## 4. Proofs

`ReconcilerProofs` proves for every value of the constants (any number of
resources, any plan, any cleanup list that contains the plan's cluster-scoped
objects, any bounds):

* `TypeCorrect`: `Spec => []TypeOK`
* `NothingOrphaned`: `Spec => []NoOrphan`
* `PassIsCovered`: `Spec => []PastFinalizerCheck`
* `FinalizerGoesLast`: `Spec => FinalizerLast`
* `OwnersAreAlive`: `Spec => NoDeadOwner`
* `ReadyIsTrue`: `Spec => []ReadyMeansWritten`

Assumptions: `PlanAssumption`, `CallAssumption` (two calls of a pass on one object are of
one kind), `CleanupAssumption`, `ObjectAssumption`, `BoundAssumption`, each evaluated by TLC in the runs; for the real inventory the
`inventory` run evaluates that `ClusterScopedFor` lists every cluster-scoped
object of the 39 calls.

None of the safety properties is inductive. The invariant `IInv` adds:

* `HistoryInv`, what the versions between the cache and the server have in
  common: none has a newer uid than the stored one; a version that is alive and
  carries the finalizer means that the stored resource is the same one and still
  carries it; once a version is being deleted, so are the later ones of its uid.
  It is what makes a stale cached copy tell something about the server.
* `PassInv`, what the pc says about the fetched copy: the finalizer is added to a
  copy that was alive, and a cleanup works for a resource that is being deleted in
  every version the cache has yet to show.
* `CleanupInv`, the progress of the cleanup: every cluster-scoped object there is
  is on its list, and the objects before `step` are gone, because the only writer
  is busy cleaning up.

The argument: the fetched copy had the finalizer; only this worker takes it off,
and only at the end of a cleanup; so during a pass the finalizer is on the
server, whatever users do; so whenever the worker writes, a resource holds; and
when it removes the finalizer, the cleanup it just finished left nothing.

`ReadyIsTrue` adds `ProgressInv`: as long as the resource is not being deleted,
everything the pass has `Behind` it is `Written`: a corrected object is there with the
owner this pass gives it, which names this life of the resource, and a route it
deletes is gone. Four things could undo it. The garbage collector: it takes only
orphans, and the pass's resource is the stored one and exists. The cleanup of another
resource: the same worker does it, so not during a pass. A later call of the pass:
`CallAssumption`. Somebody else's deletion: nothing stops it, between the write of an
account and the status for example, so the statement leaves out the `Deletable`
objects, and those that are only created when missing, which a pass skips whatever
their owner. A failed call ends in `recErr`, and with it `Phase` is never Ready;
a pass that counts has all of the plan behind it. `recreated` is an instance
of the theorem.

`InventoryProofs` proves of the loop over any plan that is ordered as the inventory's is
(`OrderAssumption`: a workload is written after its guards and after what its pods
refer to; `UnownedAssumption`: only the dashboard's route is written without an owner; TLC
evaluates both for the real 39 calls):

* `GuardsAreThere`: with one resource, and guards nobody else deletes,
  `Spec => []AlwaysGuarded`
* `RefsComeFirst`: with one resource in its first life, and references nobody else
  deletes, `Spec => RefsBeforePods`
* `ResidueIsSmall`: with every resource in the operands' namespace, `Spec => []Residue`

The hypotheses are in the code. Two resources share the guards, and the cleanup of one
takes them from the workloads of the other until its next pass (`Converges`). In a second
life a claim of the first may still have its old owner when the pass skips it, and the
collector may take it under the pass; the argument is therefore for the first life. A resource in another
namespace owns nothing. The invariant they share is `LivesInv`: the uids of a history do not
decrease, and no owner reference names a later life than the worker has seen. So a
workload that is there and not an orphan was written by a pass for the stored
resource or an earlier life of it; `GuardInv` says that what such a pass has written
cluster-scoped is there until a cleanup, and a cleanup starts only with a copy that is being
deleted, at which point `AlwaysGuarded` asks nothing more. `RefsInv` says the same
of everything the pass has written, and `UnownedInv` lists what can be without an owner.

`ApplyProofs` proves of `ApplyCall`, for any number of processes, attempts, foreign
edits and faults (assumptions `CallerAssumption`, `StepsAssumption`,
`BoundAssumption`):

* `CallTypeCorrect`: `Spec => []TypeOK`
* `AddressIsKept`: `Spec => []AddressIsCurrent`
* `CallsKeepContract`: `Spec => Implements`, the refinement of `ObjectContract`
* `SuccessIsTrue`: `Spec => OkIsTrue`

Its invariant is `FromOneVersion`: a process about to update runs a correcting call,
and the resourceVersion and the address it sends are those of one version it read.
Histories only grow (`Grows`), so that version stays what it was, and when the API
server finds the resourceVersion current, it is the version being replaced.

`ReleaseProofs` proves of `Release`, for any number of merges, any allowed ones and any
bounds on stops, failed pulls, dispatches and hand-made versions (assumptions
`InitialAssumption`, `AllowedAssumption`, `BoundAssumption`):

* `ReleaseTypeCorrect`: `Spec => []TypeOK`
* `OneVersion`: `Spec => []OneVersionPerSource`
* `ImagesAreImmutable`: `Spec => Immutable`
* `CommitTagsAgree`: `Spec => []ShaAgrees`
* `CatalogsAreComplete`: `Spec => []OffersOnlyPushed`
* `PromiseKept`: `Spec => Implements`, the refinement of `ReleaseLedger`

Its invariant `IInv` adds to the type `Tagged` (every reserved version names a commit
of main of its own, and the job holds its tag), `Handled` (a call of `--build` pushes a
build of its own, without a commit, and its version is contested as soon as it is
reserved), `Labelled` (an image is labelled with the version it is found under, and
with that version's commit or none), `FirstImages` (the initial releases stay
complete), `Recorded` (commit tags and the job's digests name the images), `Prepared`
(unless the job's version is contested, what it found in the registry is its own
commit's, and what it did not find is missing until it pushes it: `--build` cannot
push it without contesting it) and `Promoted` (an alias names a complete release of
a commit of main, no later than the one whose job moves the aliases).
`CatalogsAreComplete` adds `Made`, which says which versions a checkout can hold.
The refinement maps `published` to the tags all of
whose images come from their commit, contested ones apart; the step that completes one is the push of
its last image, wherever in the order of kinds the earlier jobs stopped.

`ChannelProofs` proves `UpgradePathsStay`: with `MaxPullFaults = 0`, `Spec => ChannelKept`.
Its invariants hold until a version is contested, which stays so (`KeptUncontested`,
`LinkedUncontested`); hand-made versions that nobody reserved are in it.
`Extends` says that every catalog that may take the place of `stable` offers all that
`stable` offers, `Works` that the running job's channel does, and `Last` that a job
moves the aliases only when no later commit has a catalog. Without the assumption
the theorem is false (`pull_fails`).

It also proves `BundlesFollowTheChannel`: with `MaxPullFaults = 0`, `Spec => []PathsAgree`. The
bundle and the catalog of a version may come from different jobs, with the catalogs of
other versions in between, so the channel that each was built from must be the same.
`Linked` says why it is, unless a version was made by hand. Only the newest version can
still enter `stable`'s channel, because only the highest tag moves the aliases (`Exactly`); and
everything the jobs of the newest version left behind was built from what `stable` offers
now, because `stable` has not moved since that version was reserved (`Tip`). When a newer
version is reserved, the one before it is either in what `stable` offers or never
enters it, and what it left behind is not asked about any more. The lemma
`PredecessorBelow` does the rest: a new highest version changes what no other replaces.

`ClusterProofs` proves `NobodyStranded`: with `MaxPullFaults = 0`,
`ClusterSpec => []NeverStranded`. For clusters on `stable` it is the argument of
`UpgradePathsStay`; for pinned ones `Immutable`'s: until something is contested, only a
hand-made catalog of a version nobody reserved can be replaced (`Serves`).

`DeployProofs` proves of `Deploy`, for any images and number of calls:

* `DeployTypeCorrect`: `Spec => []TypeOK`
* `KindOutlivesOperands`: `Spec => []NothingOutlivesTheKind`
* `DeployIsKept`: `Spec => DeployDelivers`

The type says that what is left of the script is a remainder (`Rest`) of one of the
two scripts, that only a namespace or a CRD wait for their contents, and that there is an image
exactly where there is a Deployment. `Held` says that operands exist only under a resource
with its finalizer, and a resource only under its kind. `Chosen` says that while the script
waits for the rollout, a Deployment that is there has the image that was asked for: the step
before set it, nothing else applies the manifest, and a Deployment that
disappears with its namespace does not come back. That the rollout follows the image
change is read off the remainder: a script never goes back.

`GenerateProofs` proves of `GenerateOlm`, for any finite catalog in any order, any versions,
and any order of generating them (assumption `VersionsAssumption`):

* `ChannelIsOneChain`: `Spec => []OneChain`
* `EachHasItsBundle`: `Spec => []Bundled`
* `NoVersionIsLost`: `Spec => NothingLost`

They rest on what sorting returns. `ArrangedType` shows that there is an arrangement of
every finite set whose keys differ: the place of a member is the number of members
that are not above it (`Rank`), which is a bijection. So no induction over data is
needed. From it follow that `Newest` loses and doubles nothing and descends (`NewestType`),
that filtering keeps exactly the rest (`PickedType`, `WithType`), and that in a descending
list the next entry is the highest below (`NextIsPredecessor`), which makes the links
written by position agree with `PreviousVersion`, which searches the unsorted list. The
invariant is `Kept`: entries and documents have the same versions, each once, whatever
the order, and after a generation they are in order.

Every safety property of a passing run is proved, under the hypotheses named with it.
Model-checked only are the liveness
properties (`DeletionCompletes`, `Converges`, `LeavesNothing`, `OnlyUnownedStays`, and those of
`ApplyCall`, `Release`, `Cluster` and `Deploy`): they rest on fairness and with it on ENABLED, which is
out of the prover's reach.

## 5. What is left

1. A claim changed by editing the resource (`settings.go`); two managers
   overlapping for whole passes during a lease change, beyond one call.
2. `GuardsAreThere` and `RefsComeFirst` are about one resource; what several resources that
   share the inventory can still rely on is checked (`Converges`) and not proved.

## 6. Not modelled

* Manifest contents, probes, quantities, labels (`meta.go`, `resources.go`, `scripts.go`,
  `constants.go`, `config/`, `bundle/`): data.
* Generated deep copies; flags, logging and metrics of `cmd/main.go`; `randomAlphanum`,
  whose value is a fresh one or a failure.
* `status.go:23` counts the ready pods of a StatefulSet whatever generation they are of.
  The model has this, and no property forbids it: nothing in the repository says that
  Ready means the current generation.
* Image builds, the internal registry of `deploy-ocp.sh`, `embed-operator-icon.sh`,
  `branch-limits.yml`: input and output without a protocol.
