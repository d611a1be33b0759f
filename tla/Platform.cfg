SPECIFICATION Spec
INVARIANTS TypeOK AccountsAreSafe StaffAccessIsCurrent StoresAreAccounted PayoutsAreBacked
  MailIsFilledIn NoticesArrive DeliveriesAreFaithful SettingsAreCurrent PartnersAreServed
PROPERTIES RecordsStand
CHECK_DEADLOCK FALSE
