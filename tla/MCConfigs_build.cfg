\* BuildConfig while the profile is updated, deleted, revived and attached to.
SPECIFICATION ValSpec
CONSTANTS
    None = None
    Subs = {s1, s2}
    Names <- MCNames
    Countries <- MCCountries
    CountryOf <- MCCountryOf
    CountryNames <- MCCountryNames
    LandingNames = {"hk_landing"}
    LowCostNames = {"tw_cheap"}
    Thresholds = {0, 2}
SYMMETRY MCSymmetry
INVARIANTS TypeOK NamesResolve NoReferenceLoop ServedWhole DeadEndsForeseen ValidIsServed SteadyIsValid OnlyOptionsWarned
